----------------------------- MODULE TunerProofs -----------------------------
(***************************************************************************)
(* Proofs about Tuner, for every set of boards and any number of           *)
(* frequencies, widths, attempts, failures and requests.                   *)
(*                                                                         *)
(* Types.  TypeOK is kept because every program the driver composes writes *)
(* allowed values (Typed), and because each job has the fields its phase   *)
(* needs (JobTyped) and fits the stream it works on (JobFits).             *)
(*                                                                         *)
(* The shadow.  A failed record forgets all, so only records that go well  *)
(* teach anything, and a record names a register behind I2C exactly if it  *)
(* is not a demod record, which is part of Typed.                          *)
(*                                                                         *)
(* The settings.  A program sets filter, PLL, demodulator, route and mode  *)
(* one after the other, and some of its records are skipped.  So the       *)
(* invariant does not speak of what the registers hold now but of what     *)
(* they will hold when the program has run (Ends): the last write to the   *)
(* register, or what is there if no write is left.  A record that goes     *)
(* well does not change that, and one that is skipped does not either,     *)
(* because the shadow is sound.  What is left to show is what each program *)
(* leaves (the lemmas named ...Leaves) and what is claimed per phase of    *)
(* a job (ISettings).                                                      *)
(*                                                                         *)
(* What was accepted and what is certain (Served, E4000Sure) speak of no   *)
(* register and follow from the steps of the jobs alone.                   *)
(***************************************************************************)
EXTENDS Tuner, TLAPS

\* A record names a register, writes a value the register may hold, and is a
\* "demod" record when the register is not one behind I2C.
Kinds == {"burst", "patch", "write"}
AllValues == UNION {Values[r] : r \in Regs}
Typed == {w \in [reg: Regs, val: AllValues, kind: Kinds \cup {"demod"}] :
            /\ w.val \in Values[w.reg]
            /\ w.kind = "demod" <=> w.reg \notin TunerRegs}

\* A write of an allowed value is a typed record.
LEMMA TypedWrites ==
  /\ \A r \in TunerRegs : \A v \in Values[r] : \A k \in Kinds : W(r, v, k) \in Typed
  /\ \A r \in Regs \ TunerRegs : \A v \in Values[r] : W(r, v, "demod") \in Typed
BY DEF W, Typed, AllValues, Kinds, Regs

\* The registers behind I2C, those of the demodulator, and the kinds of record.
LEMMA RegNames ==
  /\ TunerRegs \subseteq Regs
  /\ {"filter", "pll", "agc"} \subseteq TunerRegs
  /\ {"demod", "mode", "route"} \subseteq Regs \ TunerRegs
  /\ {"burst", "patch", "write"} \subseteq Kinds /\ "demod" \notin Kinds
BY DEF TunerRegs, Regs, Kinds

\* Programs joined are a program.
LEMMA TypedJoined == \A s, t \in Seq(Typed) : s \o t \in Seq(Typed)
OBVIOUS

\* What each register may hold.
LEMMA ValuesHold ==
  /\ \A r \in Regs : Boot \in Values[r]
  /\ {Standby} \subseteq Values["filter"]
  /\ {Standby, Automatic, Manual} \subseteq Values["agc"]
  /\ {Native, DirectIn} \subseteq Values["mode"]
  /\ \A p \in Plans : p \in Values["filter"] /\ p \in Values["demod"]
  /\ \A f \in Freqs : /\ Nco(f) \in Values["demod"] /\ Route(f) \in Values["route"]
                      /\ \A p \in Plans : At(f, p) \in Values["pll"]
<1> DEFINE F == Plans \cup {Standby}
           P == {Boot} \cup {At(f, p) : f \in Freqs, p \in Plans}
           A == {Boot, Standby, Automatic, Manual}
           D == Plans \cup {Nco(f) : f \in Freqs}
           M == {Boot, Native, DirectIn}
           O == {Boot} \cup {Route(f) : f \in Freqs}
<1>1. /\ Values["filter"] = F /\ Values["pll"] = P /\ Values["agc"] = A
      /\ Values["demod"] = D /\ Values["mode"] = M /\ Values["route"] = O
  BY DEF Values
<1>2. Boot \in F /\ Boot \in P /\ Boot \in A /\ Boot \in D /\ Boot \in M /\ Boot \in O
  BY DEF Plans
<1>3. /\ Standby \in F /\ {Standby, Automatic, Manual} \subseteq A /\ {Native, DirectIn} \subseteq M
      /\ \A p \in Plans : p \in F /\ p \in D
  OBVIOUS
<1>4. \A f \in Freqs : Nco(f) \in D /\ Route(f) \in O /\ \A p \in Plans : At(f, p) \in P
  OBVIOUS
<1> HIDE DEF F, P, A, D, M, O
<1>5. \A r \in Regs : Boot \in Values[r]
  BY <1>1, <1>2 DEF Regs, TunerRegs
<1> QED BY <1>1, <1>3, <1>4, <1>5

\* The boot state and every width have a plan.
LEMMA PlansHold == Boot \in Plans /\ \A w \in Widths : Plan(w) \in Plans
BY DEF Plans, Plan

\* The sequences the programs are made of write allowed values.
LEMMA TypedPieces ==
  ASSUME NEW f \in Freqs, NEW p \in Plans, NEW g
  PROVE  LET S == Seq(Typed) IN
           /\ <<>> \in S /\ Reinit \in S /\ E4000Gain(g) \in S /\ InitTable \in S
           /\ TuneRecords(f, p) \in S /\ Frontend(f) \in S /\ GainRestore \in S
           /\ SampleRate \in S /\ IfRestore \in S /\ ColdReinit(f) \in S
           /\ StandbyRecords \in S /\ DirectTune(f) \in S
           /\ <<W("mode", DirectIn, "demod")>> \in S /\ <<W("mode", Native, "demod")>> \in S
           /\ <<W("filter", p, "write")>> \in S /\ <<W("demod", p, "demod")>> \in S
<1> DEFINE S == Seq(Typed)
<1>2. \A x \in Typed : <<x>> \in S
  OBVIOUS
<1>3. \A x, y \in Typed : <<x, y>> \in S
  OBVIOUS
<1>4. \A x, y, z \in Typed : <<x, y, z>> \in S
  OBVIOUS
<1>5. <<>> \in S
  OBVIOUS
<1>6. \A s, t \in S : s \o t \in S
  BY TypedJoined
<1> HIDE DEF S
<1>8. /\ \A v \in Values["agc"] : /\ W("agc", v, "write") \in Typed /\ W("agc", v, "patch") \in Typed
                                  /\ W("agc", v, "burst") \in Typed
      /\ \A v \in Values["pll"] : /\ W("pll", v, "write") \in Typed /\ W("pll", v, "patch") \in Typed
                                  /\ W("pll", v, "burst") \in Typed
      /\ \A v \in Values["filter"] : W("filter", v, "write") \in Typed /\ W("filter", v, "burst") \in Typed
      /\ \A v \in Values["demod"] : W("demod", v, "demod") \in Typed
      /\ \A v \in Values["mode"] : W("mode", v, "demod") \in Typed
      /\ \A v \in Values["route"] : W("route", v, "demod") \in Typed
  BY TypedWrites, RegNames
<1>9. /\ Boot \in Values["filter"] /\ Boot \in Values["pll"] /\ Boot \in Values["agc"]
      /\ Boot \in Values["demod"] /\ Standby \in Values["filter"]
      /\ Standby \in Values["agc"] /\ Automatic \in Values["agc"] /\ Manual \in Values["agc"]
      /\ Native \in Values["mode"] /\ DirectIn \in Values["mode"]
      /\ p \in Values["filter"] /\ p \in Values["demod"]
      /\ Nco(f) \in Values["demod"] /\ Route(f) \in Values["route"] /\ At(f, p) \in Values["pll"]
  BY ValuesHold, RegNames
<1> HIDE DEF S
<1>10. Reinit \in S
  BY <1>4, <1>8, <1>9 DEF Reinit
<1>11. \A h : E4000Gain(h) \in S
  BY <1>2, <1>8, <1>9 DEF E4000Gain, ModeWord
<1>12. InitTable \in S
  <2>1. <<W("mode", Native, "demod"), W("demod", Boot, "demod")>> \in S
    BY <1>3, <1>8, <1>9
  <2> QED BY <1>6, <1>10, <1>11, <2>1 DEF InitTable
<1>13. TuneRecords(f, p) \in S
  <2>1. TuneAgc \in Values["agc"]
    BY <1>9 DEF TuneAgc
  <2>2. RtlTune(f, p) \in S
    BY <1>3, <1>8, <1>9, <2>1 DEF RtlTune
  <2>3. <<W("demod", p, "demod"), W("pll", At(f, p), "write")>> \in S
    BY <1>3, <1>8, <1>9
  <2>4. E4000Tune(f, p) \in S
    BY <1>6, <1>11, <2>3 DEF E4000Tune
  <2> QED BY <2>2, <2>4 DEF TuneRecords
<1>14. Frontend(f) \in S
  <2>1. Agc \in Values["agc"]
    BY <1>9 DEF Agc
  <2>2. <<W("route", Route(f), "demod"), W("agc", Agc, "write")>> \in S
    BY <1>3, <1>8, <1>9, <2>1
  <2>3. <<W("route", Route(f), "demod")>> \in S
    BY <1>2, <1>8, <1>9
  <2>4. CASE board = "v4"
    BY <2>2, <2>4 DEF Frontend
  <2>5. CASE board = "v4l"
    BY <2>3, <2>5 DEF Frontend
  <2>6. CASE board \notin {"v4", "v4l"}
    BY <1>5, <2>6 DEF Frontend
  <2> QED BY <2>4, <2>5, <2>6
<1>15. GainRestore \in S
  BY <1>2, <1>5, <1>8, <1>9 DEF GainRestore, ModeWord
<1>16. SampleRate \in S /\ IfRestore \in S /\ ColdReinit(f) \in S
  BY <1>2, <1>5, <1>8, <1>9, <1>10 DEF SampleRate, IfRestore, ColdReinit
<1>17. StandbyRecords \in S /\ DirectTune(f) \in S
  BY <1>2, <1>3, <1>8, <1>9 DEF StandbyRecords, DirectTune
<1>18. /\ <<W("mode", DirectIn, "demod")>> \in S /\ <<W("mode", Native, "demod")>> \in S
       /\ <<W("filter", p, "write")>> \in S /\ <<W("demod", p, "demod")>> \in S
  BY <1>2, <1>8, <1>9
<1> QED
  BY <1>5, <1>10, <1>11, <1>12, <1>13, <1>14, <1>15, <1>16, <1>17, <1>18 DEF S

\* Every program a job begins with is typed.
LEMMA TypedPrograms ==
  ASSUME NEW f \in Freqs, NEW from, NEW w, Plan(w) \in Plans
  PROVE  Program(f, from, w) \in Seq(Typed) /\ Plain(f, from) \in Seq(Typed)
<1> DEFINE S == Seq(Typed)
<1>1. \A s, t \in S : s \o t \in S
  BY TypedJoined
<1>2. Boot \in Plans
  BY PlansHold
<1>3. /\ <<>> \in S /\ Reinit \in S /\ Frontend(f) \in S /\ GainRestore \in S /\ IfRestore \in S
      /\ StandbyRecords \in S /\ DirectTune(f) \in S
      /\ <<W("mode", DirectIn, "demod")>> \in S /\ <<W("mode", Native, "demod")>> \in S
  BY <1>2, TypedPieces
<1>4. \A p \in {Plan(w), Boot} :
         /\ TuneRecords(f, p) \in S
         /\ <<W("filter", p, "write")>> \in S /\ <<W("demod", p, "demod")>> \in S
  BY <1>2, TypedPieces
<1> HIDE DEF S
<1>5. LeaveDirect \in S /\ EnterDirect(f) \in S
  BY <1>1, <1>3 DEF LeaveDirect, EnterDirect
<1>6. \A fr : (IF fr \in Direct THEN LeaveDirect \o GainRestore ELSE <<>>) \in S
  BY <1>1, <1>3, <1>5
<1>7. \A fr : \A p \in {Plan(w), Boot} : Tune(f, fr, p) \in S
  BY <1>1, <1>3, <1>4, <1>5, <1>6 DEF Tune
<1>8. Program(f, from, w) \in S
  BY <1>1, <1>3, <1>4, <1>6, <1>7 DEF Program
<1>9. Plain(f, from) \in S
  BY <1>1, <1>3, <1>7 DEF Plain
<1> QED BY <1>8, <1>9 DEF S

\* So does the program of a start ...
LEMMA TypedStart ==
  ASSUME NEW f \in Freqs
  PROVE  StartRecords(f) \in Seq(Typed)
<1> DEFINE S == Seq(Typed)
<1>1. \A s, t \in S : s \o t \in S
  BY TypedJoined
<1>2. Boot \in Plans /\ Plan(0) \in Plans
  BY PlansHold, TunerSets
<1>3. /\ <<>> \in S /\ InitTable \in S /\ SampleRate \in S /\ ColdReinit(f) \in S
      /\ IfRestore \in S /\ GainRestore \in S
  BY <1>2, TypedPieces
<1>4. Program(f, None, 0) \in S /\ Plain(f, None) \in S
  BY <1>2, TypedPrograms
<1> HIDE DEF S
<1>5. (IF f \in Direct THEN <<>> ELSE IfRestore \o GainRestore) \in S
  BY <1>1, <1>3
<1>6. (IF ~Restores /\ Offered(f) # {} THEN Program(f, None, 0) ELSE Plain(f, None)) \in S
  BY <1>4
<1>7. StartRecords(f) \in S
  BY <1>1, <1>3, <1>5, <1>6 DEF StartRecords
<1> QED BY <1>7 DEF S

\* ... and that of a gain.
LEMMA TypedGain ==
  ASSUME freq \in Freqs, NEW g
  PROVE  GainRecords(g) \in Seq(Typed)
<1>1. Route(freq) \in Values["route"] /\ ModeWord(g) \in Values["agc"]
  BY ValuesHold DEF ModeWord
<1>2. W("route", Route(freq), "demod") \in Typed /\ W("agc", ModeWord(g), "write") \in Typed
  BY <1>1, TypedWrites, RegNames
<1>3. E4000Gain(g) \in Seq(Typed)
  BY PlansHold, TypedPieces
<1>4. <<W("route", Route(freq), "demod"), W("agc", ModeWord(g), "write")>> \in Seq(Typed)
  <2> DEFINE a == W("route", Route(freq), "demod")
             b == W("agc", ModeWord(g), "write")
  <2>1. a \in Typed /\ b \in Typed
    BY <1>2
  <2> HIDE DEF a, b
  <2>2. <<a, b>> \in Seq(Typed)
    BY <2>1
  <2> QED BY <2>2 DEF a, b
<1> QED BY <1>3, <1>4 DEF GainRecords

(***************************************************************************)
(* The types, and which job can be at which phase.                         *)
(***************************************************************************)

JobTyped ==
    /\ job \in [kind: {"none", "start", "retune", "controls"}, f: Freqs \cup {None},
                w: Widths \cup {None}, old: Widths \cup {None}, gain: {"none", "auto", "manual"},
                phase: {"none", "gain", "width", "next", "back", "plain"}, ok: BOOLEAN, n: Nat]
    /\ job.kind # "none" => job.f \in Freqs
    /\ job.phase \in {"width", "next", "back"} => job.w \in Offered(job.f)
    /\ job.kind = "start" => (job.w # None <=> job.phase = "next")
    /\ job.phase = "gain" => job.gain \in {"auto", "manual"}

JobFits ==
    /\ job.kind = "none" <=> job = NoJob
    /\ job.kind = "none" <=> job.phase = "none"
    /\ job.phase \in {"none", "width"} => prog = <<>>
    /\ job.kind = "start" => st = "idle" /\ job.phase \in {"next", "plain"}
    /\ job.kind = "retune" => st = "streaming" /\ job.phase \in {"next", "plain", "back"}
    /\ job.kind = "controls" => /\ st = "streaming" /\ job.f = freq
                                /\ job.phase \in {"gain", "width", "next", "back"}
    /\ st = "idle" => ~valid
    /\ st = "streaming" /\ valid => applied.f = freq

ITypes == TypeOK /\ JobTyped /\ JobFits /\ prog \in Seq(Typed)

\* The types hold at first ...
LEMMA TypesStart == Init => ITypes
<1> SUFFICES ASSUME Init PROVE ITypes
  OBVIOUS
<1>1. \A r \in Regs : Boot \in Values[r]
  BY ValuesHold
<1>2. TypeOK
  <2>1. board \in Boards /\ freq \in Freqs /\ st = "idle" /\ retune = None
    BY DEF Init
  <2>2. DOMAIN hw = Regs /\ \A r \in Regs : hw[r] \in Values[r]
    BY <1>1 DEF Init
  <2>3. DOMAIN shadow = TunerRegs /\ \A r \in TunerRegs : shadow[r] = None
    BY DEF Init
  <2>4. want \in Widths /\ {asked, valid, auto, certain, CrossFaults} \subseteq BOOLEAN
    BY TunerSets, TunerBounds DEF Init
  <2>5. applied \in [f: Freqs \cup {None}, w: Widths \cup {None}] /\ ~valid
    BY DEF Init
  <2>6. mode \in {"auto", "manual"} /\ gain \in {"none", "auto", "manual"}
    BY DEF Init
  <2>7. job.kind = "none" /\ prog = <<>>
    BY DEF Init, NoJob
  <2>8. faults \in 0..MaxFaults /\ ops \in 0..MaxOps
    BY TunerBounds DEF Init
  <2> QED BY <2>1, <2>2, <2>3, <2>4, <2>5, <2>6, <2>7, <2>8 DEF TypeOK
<1>3. JobTyped
  BY DEF Init, JobTyped, NoJob
<1>4. JobFits
  BY DEF Init, JobFits, NoJob
<1> QED BY <1>2, <1>3, <1>4 DEF ITypes, Init

\* What is offered is a width, the automatic one with it, where there are any.
LEMMA Offers ==
  ASSUME NEW f
  PROVE  /\ Offered(f) \subseteq Widths
         /\ Offered(f) # {} => 0 \in Offered(f)
         /\ Offered(f) # {} <=> HasWidths /\ f \notin Direct
         /\ None \notin Offered(f)
BY TunerSets, TunerBounds DEF Offered

\* What the board offers does not change with anything else.
LEMMA SameBoard ==
  ASSUME board' = board
  PROVE  Direct' = Direct /\ Restores' = Restores /\ HasWidths' = HasWidths
BY DEF Direct, Restores, HasWidths

\* ... a request keeps them ...
LEMMA AskTyped ==
  ASSUME ITypes,
         \/ \E f \in Freqs : Retune(f)
         \/ \E w \in Widths : SetBandwidth(w)
         \/ SetAuto \/ SetGain
  PROVE  ITypes'
<1>1. Ask
  BY DEF Retune, SetBandwidth, SetAuto, SetGain
<1>2. /\ UNCHANGED <<board, hw, shadow, st, freq, applied, valid, certain, job, prog, faults>>
      /\ ops' \in 0..MaxOps
  BY <1>1, TunerBounds DEF Ask, ITypes, TypeOK
<1>3. /\ retune' \in Freqs \cup {None} /\ want' \in Widths
      /\ {asked', auto'} \subseteq BOOLEAN
      /\ mode' \in {"auto", "manual"} /\ gain' \in {"none", "auto", "manual"}
  BY DEF Retune, SetBandwidth, SetAuto, SetGain, ITypes, TypeOK
<1>4. Direct' = Direct /\ HasWidths' = HasWidths /\ Restores' = Restores
  BY <1>2, SameBoard
<1>5. TypeOK'
  BY <1>2, <1>3, <1>4 DEF ITypes, TypeOK, Offered
<1>6. JobTyped'
  BY <1>2, <1>4 DEF ITypes, JobTyped, Offered
<1>7. JobFits' /\ prog' \in Seq(Typed)
  BY <1>2 DEF ITypes, JobFits
<1> QED BY <1>5, <1>6, <1>7 DEF ITypes

\* What is written next, and what is left, is typed.
LEMMA HeadIsTyped ==
  ASSUME prog \in Seq(Typed), prog # <<>>
  PROVE  /\ Tail(prog) \in Seq(Typed)
         /\ Next1.reg \in Regs /\ Next1.val \in Values[Next1.reg]
         /\ Next1.kind = "demod" <=> Next1.reg \notin TunerRegs
<1>1. Head(prog) \in Typed /\ Tail(prog) \in Seq(Typed)
  <2> HIDE DEF Typed
  <2> QED OBVIOUS
<1> QED BY <1>1 DEF Typed, Next1

\* The registers keep their types through a record that is done, and one that fails.
LEMMA WrittenTyped ==
  ASSUME ITypes, prog # <<>>, hw' \in {hw, [hw EXCEPT ![Next1.reg] = Next1.val]}
  PROVE  DOMAIN hw' = Regs /\ \A r \in Regs : hw'[r] \in Values[r]
BY HeadIsTyped DEF ITypes, TypeOK

\* ... a record that goes well ...
LEMMA RecordTyped == ASSUME ITypes, Record PROVE ITypes'
<1>1. UNCHANGED <<board, st, freq, requests, applied, valid, mode, auto, certain, job, faults, ops>>
  BY DEF Record
<1>2. prog # <<>> /\ prog' = Tail(prog) /\ prog' \in Seq(Typed)
  BY HeadIsTyped DEF Record, ITypes
<1>3. DOMAIN hw' = Regs /\ \A r \in Regs : hw'[r] \in Values[r]
  BY <1>2, WrittenTyped DEF Record
<1>4. DOMAIN shadow' = TunerRegs /\ \A r \in TunerRegs : shadow'[r] \in Values[r] \cup {None}
  <2>1. CASE Skipped \/ Next1.kind = "demod"
    BY <2>1 DEF Record, Learn, ITypes, TypeOK
  <2>2. CASE ~Skipped /\ Next1.kind = "burst"
    BY <2>2 DEF Record, Learn, Forget
  <2>3. CASE ~Skipped /\ Next1.kind \notin {"burst", "demod"}
    <3>1. shadow' = [shadow EXCEPT ![Next1.reg] = Next1.val]
      BY <2>3 DEF Record, Learn
    <3> QED BY <3>1, <1>2, HeadIsTyped DEF ITypes, TypeOK
  <2> QED BY <2>1, <2>2, <2>3
<1>5. Direct' = Direct /\ HasWidths' = HasWidths /\ Restores' = Restores
  BY <1>1, SameBoard
<1>6. job.phase \notin {"none", "width"}
  BY <1>2 DEF ITypes, JobFits
<1>7. TypeOK'
  BY <1>1, <1>3, <1>4, <1>5, <1>6 DEF ITypes, TypeOK, JobFits, requests, Offered
<1>8. JobTyped'
  BY <1>1, <1>5 DEF ITypes, JobTyped, Offered
<1>9. JobFits'
  BY <1>1, <1>6 DEF ITypes, JobFits
<1> QED BY <1>2, <1>7, <1>8, <1>9 DEF ITypes

\* ... a stop ...
LEMMA StopTyped == ASSUME ITypes, Stop PROVE ITypes'
<1>1. /\ UNCHANGED <<board, freq, applied, mode, auto, certain, job, prog, faults, ops>>
      /\ st' = "idle" /\ retune' = None /\ want' = 0 /\ asked' = FALSE /\ gain' = "none"
      /\ valid' = FALSE /\ job = NoJob
  BY DEF Stop
<1>2. Standby \in Values["filter"] /\ Standby \in Values["agc"] /\ {"filter", "agc"} \subseteq TunerRegs
      /\ TunerRegs \subseteq Regs
  BY ValuesHold, RegNames
<1>3. DOMAIN hw' = Regs /\ \A r \in Regs : hw'[r] \in Values[r]
  BY <1>2 DEF Stop, ITypes, TypeOK
<1>4. DOMAIN shadow' = TunerRegs /\ \A r \in TunerRegs : shadow'[r] \in Values[r] \cup {None}
  BY <1>2 DEF Stop, Forget, ITypes, TypeOK
<1>5. Direct' = Direct /\ HasWidths' = HasWidths
  BY <1>1, SameBoard
<1>6. job.kind = "none" /\ job.phase = "none"
  BY <1>1 DEF NoJob
<1>7. TypeOK'
  BY <1>1, <1>3, <1>4, <1>6, TunerSets DEF ITypes, TypeOK
<1>8. JobTyped'
  BY <1>1, <1>6 DEF ITypes, JobTyped
<1>9. JobFits'
  BY <1>1, <1>6 DEF ITypes, JobFits
<1> QED BY <1>1, <1>7, <1>8, <1>9 DEF ITypes

\* A job begins: with a typed program, and a width that is offered.
LEMMA JobTypedNow ==
  ASSUME ITypes, NEW k \in {"start", "retune", "controls"}, NEW f \in Freqs,
         NEW w \in Widths \cup {None}, NEW o \in Widths \cup {None},
         NEW g \in {"none", "auto", "manual"}, NEW ph \in {"gain", "next", "plain"}, NEW n \in Nat,
         job' = [kind |-> k, f |-> f, w |-> w, old |-> o, gain |-> g, phase |-> ph, ok |-> TRUE, n |-> n],
         ph = "next" => w \in Offered(f), k = "start" => (w # None <=> ph = "next"),
         ph = "gain" => g # "none",
         k = "start" => st = "idle" /\ ph # "gain",
         k = "retune" => st = "streaming" /\ ph # "gain",
         k = "controls" => st = "streaming" /\ f = freq /\ ph # "plain",
         UNCHANGED <<board, st, freq, applied, valid>>
  PROVE  JobTyped' /\ JobFits' /\ job'.kind = k
<1>1. Direct' = Direct /\ HasWidths' = HasWidths /\ Restores' = Restores
  BY SameBoard
<1>2. JobTyped'
  BY <1>1 DEF JobTyped, Offered
<1>3. JobFits'
  BY DEF ITypes, JobFits, NoJob
<1> QED BY <1>2, <1>3

\* What is left of TypeOK when a job begins.
LEMMA StillTyped ==
  ASSUME ITypes, JobTyped', job'.kind # "none", st' = "idle" => job'.kind = "start",
         UNCHANGED <<board, hw, shadow, st, freq, applied, valid, mode, auto, faults, retune, want>>,
         certain' \in BOOLEAN, ops' \in 0..MaxOps, asked' \in BOOLEAN,
         gain' \in {"none", "auto", "manual"}
  PROVE  TypeOK'
<1>1. Direct' = Direct /\ HasWidths' = HasWidths /\ Restores' = Restores
  BY SameBoard
<1> QED BY <1>1 DEF ITypes, TypeOK, JobTyped, Offered

\* ... the beginning of a start ...
LEMMA StartTyped == ASSUME ITypes, NEW f \in Freqs, Start(f) PROVE ITypes'
<1> DEFINE m == ~Restores /\ Offered(f) # {}
<1>0. ops' \in 0..MaxOps
  <2>1. ops \in 0..MaxOps /\ ops < MaxOps /\ ops' = ops + 1
    BY DEF Start, ITypes, TypeOK
  <2> QED BY <2>1, TunerBounds
<1>1. /\ job' = [kind |-> "start", f |-> f, w |-> IF m THEN 0 ELSE None, old |-> None, gain |-> "none",
                 phase |-> IF m THEN "next" ELSE "plain", ok |-> TRUE, n |-> 0]
      /\ prog' = StartRecords(f) /\ st = "idle"
      /\ UNCHANGED <<board, hw, shadow, st, freq, requests, applied, valid, mode, auto, certain, faults>>
  BY DEF Start, NoJob
<1>2. m => 0 \in Offered(f)
  BY Offers
<1>3. 0 \in Widths /\ None # 0
  BY TunerSets, TunerBounds
<1> HIDE DEF m
<1>4. JobTyped' /\ JobFits' /\ job'.kind = "start"
  <2>1. CASE m
    BY <1>1, <1>2, <1>3, <2>1, JobTypedNow
  <2>2. CASE ~m
    BY <1>1, <1>3, <2>2, JobTypedNow
  <2> QED BY <2>1, <2>2
<1>5. TypeOK'
  BY <1>0, <1>1, <1>4, StillTyped DEF requests, ITypes, TypeOK
<1> QED BY <1>1, <1>4, <1>5, TypedStart DEF ITypes

\* ... of a retune ...
LEMMA BeginRetuneTyped == ASSUME ITypes, BeginRetune PROVE ITypes'
<1>1. retune \in Freqs /\ st = "streaming" /\ want \in Widths
      /\ UNCHANGED <<board, hw, shadow, st, freq, requests, applied, valid, mode, auto, certain, faults, ops>>
  BY DEF BeginRetune, ITypes, TypeOK
<1> DEFINE w == IF want \in Offered(retune) THEN want ELSE 0
<1>2. CASE Measured(retune)
  <2>1. /\ job' = [kind |-> "retune", f |-> retune, w |-> w, old |-> want, gain |-> "none",
                   phase |-> "next", ok |-> TRUE, n |-> 0]
        /\ prog' = Program(retune, freq, w)
    BY <1>2 DEF BeginRetune, NoJob
  <2>2. w \in Offered(retune) /\ w \in Widths
    BY <1>2, Offers DEF Measured
  <2> HIDE DEF w
  <2>3. JobTyped' /\ JobFits' /\ job'.kind = "retune"
    BY <1>1, <2>1, <2>2, JobTypedNow
  <2>4. prog' \in Seq(Typed)
    BY <1>1, <2>1, <2>2, PlansHold, TypedPrograms
  <2>5. TypeOK'
    BY <1>1, <2>3, StillTyped DEF requests, ITypes, TypeOK
  <2> QED BY <2>3, <2>4, <2>5 DEF ITypes
<1>3. CASE ~Measured(retune)
  <2>1. /\ job' = [kind |-> "retune", f |-> retune, w |-> None, old |-> want, gain |-> "none",
                   phase |-> "plain", ok |-> TRUE, n |-> 0]
        /\ prog' = Plain(retune, freq)
    BY <1>3 DEF BeginRetune, NoJob
  <2>3. JobTyped' /\ JobFits' /\ job'.kind = "retune"
    BY <1>1, <2>1, JobTypedNow
  <2>4. prog' \in Seq(Typed)
    BY <1>1, <2>1, PlansHold, TunerSets, TypedPrograms
  <2>5. TypeOK'
    BY <1>1, <2>3, StillTyped DEF requests, ITypes, TypeOK
  <2> QED BY <2>3, <2>4, <2>5 DEF ITypes
<1> QED BY <1>2, <1>3

\* ... of queued controls ...
LEMMA BeginControlsTyped == ASSUME ITypes, BeginControls PROVE ITypes'
<1>1. /\ freq \in Freqs /\ st = "streaming" /\ want \in Widths /\ gain \in {"none", "auto", "manual"}
      /\ gain' = "none" /\ asked' = FALSE /\ job = NoJob /\ (gain # "none" \/ asked) /\ certain' \in BOOLEAN
      /\ asked \in BOOLEAN
      /\ UNCHANGED <<board, hw, shadow, st, freq, retune, want, applied, valid, mode, auto, faults, ops>>
  BY DEF BeginControls, ITypes, TypeOK
<1> DEFINE w == IF asked THEN want ELSE None
<1>2. w \in Widths \cup {None}
  BY <1>1
<1>3. CASE gain # "none"
  <2>1. /\ job' = [kind |-> "controls", f |-> freq, w |-> w, old |-> None, gain |-> gain,
                   phase |-> "gain", ok |-> TRUE, n |-> 1]
        /\ prog' = GainRecords(gain)
    BY <1>3 DEF BeginControls, NoJob
  <2> HIDE DEF w
  <2>2. JobTyped' /\ JobFits' /\ job'.kind = "controls"
    BY <1>1, <1>2, <1>3, <2>1, JobTypedNow
  <2>3. prog' \in Seq(Typed)
    BY <1>1, <2>1, TypedGain
  <2>4. TypeOK'
    BY <1>1, <2>2, StillTyped DEF ITypes, TypeOK
  <2> QED BY <2>2, <2>3, <2>4 DEF ITypes
<1>4. CASE gain = "none" /\ want \in Offered(freq)
  <2>1. /\ job' = [kind |-> "controls", f |-> freq, w |-> want, old |-> None, gain |-> "none",
                   phase |-> "next", ok |-> TRUE, n |-> 0]
        /\ prog' = Program(freq, freq, want)
    BY <1>1, <1>4 DEF BeginControls, NoJob
  <2>2. JobTyped' /\ JobFits' /\ job'.kind = "controls"
    BY <1>1, <1>4, <2>1, JobTypedNow
  <2>3. prog' \in Seq(Typed)
    BY <1>1, <2>1, PlansHold, TypedPrograms
  <2>4. TypeOK'
    BY <1>1, <2>2, StillTyped DEF ITypes, TypeOK
  <2> QED BY <2>2, <2>3, <2>4 DEF ITypes
<1>5. CASE gain = "none" /\ want \notin Offered(freq)
  <2>1. UNCHANGED <<job, prog>>
    BY <1>5 DEF BeginControls
  <2>2. Direct' = Direct /\ HasWidths' = HasWidths /\ Restores' = Restores
    BY <1>1, SameBoard
  <2>3. TypeOK'
    BY <1>1, <2>1, <2>2 DEF ITypes, TypeOK, Offered
  <2>4. JobTyped' /\ JobFits'
    BY <1>1, <2>1, <2>2 DEF ITypes, JobTyped, JobFits, Offered
  <2> QED BY <2>1, <2>3, <2>4 DEF ITypes
<1> QED BY <1>3, <1>4, <1>5 DEF BeginControls

(***************************************************************************)
(* The steps that end a job, or a part of one.                             *)
(***************************************************************************)

\* When a job ends, only what it leaves in the stream's fields is left to show.
LEMMA NoJobNow ==
  ASSUME ITypes, Done, freq' \in Freqs, board' = board,
         st' = "idle" => ~valid', st' = "streaming" /\ valid' => applied'.f = freq'
  PROVE  JobTyped' /\ JobFits' /\ prog' \in Seq(Typed) /\ job'.kind = "none"
<1>1. JobTyped' /\ prog' \in Seq(Typed) /\ job'.kind = "none"
  BY DEF Done, JobTyped, NoJob
<1>2. JobFits'
  BY DEF Done, JobFits, NoJob
<1> QED BY <1>1, <1>2

\* A record that fails may or may not have been written.
LEMMA FailsTyped ==
  ASSUME ITypes, Fails
  PROVE  /\ DOMAIN hw' = Regs /\ \A r \in Regs : hw'[r] \in Values[r]
         /\ DOMAIN shadow' = TunerRegs /\ \A r \in TunerRegs : shadow'[r] \in Values[r] \cup {None}
         /\ faults' \in 0..MaxFaults
<1>1. prog # <<>> /\ hw' \in {hw, [hw EXCEPT ![Next1.reg] = Next1.val]}
      /\ shadow' = Forget /\ faults' = faults + 1 /\ faults < MaxFaults
  BY DEF Fails, Unknown
<1>2. faults' \in 0..MaxFaults
  BY <1>1, TunerBounds DEF ITypes, TypeOK
<1> QED BY <1>1, <1>2, WrittenTyped DEF Forget

\* ... a start that fails ...
LEMMA FailStartTyped == ASSUME ITypes, FailStart PROVE ITypes'
<1>1. /\ UNCHANGED <<board, st, freq, requests, applied, mode, auto, certain, ops>>
      /\ valid' = FALSE /\ Done /\ Fails
  BY DEF FailStart
<1>2. JobTyped' /\ JobFits' /\ prog' \in Seq(Typed) /\ job'.kind = "none"
  BY <1>1, NoJobNow DEF ITypes, TypeOK
<1>3. TypeOK'
  BY <1>1, <1>2, FailsTyped DEF ITypes, TypeOK, requests, Done
<1> QED BY <1>2, <1>3 DEF ITypes

\* A job that ends in FAULT, and one whose stream resumes.
LEMMA FaultTyped ==
  ASSUME ITypes, Fails, Fault, UNCHANGED <<board, ops>>
  PROVE  ITypes'
<1>1. /\ UNCHANGED <<board, ops, freq, requests, applied, valid, mode, auto, certain>>
      /\ st' = "fault" /\ Done
  BY DEF Fault
<1>2. JobTyped' /\ JobFits' /\ prog' \in Seq(Typed) /\ job'.kind = "none"
  BY <1>1, NoJobNow DEF ITypes, TypeOK
<1>3. Direct' = Direct /\ HasWidths' = HasWidths /\ Restores' = Restores
  BY <1>1, SameBoard
<1>4. TypeOK'
  BY <1>1, <1>2, <1>3, FailsTyped DEF ITypes, TypeOK, requests, Done, Offered
<1> QED BY <1>2, <1>4 DEF ITypes

\* A request that fails with the old state kept.
LEMMA FailedTyped ==
  ASSUME ITypes, Failed, UNCHANGED <<board, ops>>,
         Fails \/ UNCHANGED <<hw, shadow, faults>>
  PROVE  ITypes'
<1>1. /\ UNCHANGED <<board, ops, st, freq, want, gain, applied, valid, mode, auto>>
      /\ Done /\ certain' = FALSE
      /\ retune' \in {retune, None} /\ asked' \in BOOLEAN
  BY DEF Failed, ITypes, TypeOK
<1>2. JobTyped' /\ JobFits' /\ prog' \in Seq(Typed) /\ job'.kind = "none"
  BY <1>1, NoJobNow DEF ITypes, TypeOK, JobFits
<1>3. Direct' = Direct /\ HasWidths' = HasWidths /\ Restores' = Restores
  BY <1>1, SameBoard
<1>4. /\ DOMAIN hw' = Regs /\ \A r \in Regs : hw'[r] \in Values[r]
      /\ DOMAIN shadow' = TunerRegs /\ \A r \in TunerRegs : shadow'[r] \in Values[r] \cup {None}
      /\ faults' \in 0..MaxFaults
  BY FailsTyped DEF ITypes, TypeOK
<1>5. TypeOK'
  BY <1>1, <1>2, <1>3, <1>4 DEF ITypes, TypeOK, Done, Offered
<1> QED BY <1>2, <1>5 DEF ITypes

\* ... a width program that fails and is put back ...
LEMMA FailWidthTyped == ASSUME ITypes, FailWidth PROVE ITypes'
<1>1. Fails /\ UNCHANGED <<board, ops>> /\ job.kind # "start" /\ job.phase \in {"next", "back"}
  BY DEF FailWidth
<1>2. CASE job.phase = "back" \/ ~valid
  BY <1>1, <1>2, FaultTyped DEF FailWidth
<1>3. CASE ~(job.phase = "back" \/ ~valid)
  <2>1. /\ job' = [job EXCEPT !.phase = "back"] /\ prog' = Program(applied.f, job.f, applied.w)
        /\ UNCHANGED <<st, freq, requests, applied, valid, mode, auto, certain>>
    BY <1>3 DEF FailWidth
  <2>2. valid /\ applied.w \in Offered(applied.f)
    BY <1>3 DEF ITypes, TypeOK
  <2>3. applied.w \in Widths /\ applied.f \in Freqs
    <3>1. applied.f = freq
      BY <1>1, <2>2 DEF ITypes, TypeOK, JobFits
    <3> QED BY <2>2, <3>1, Offers DEF ITypes, TypeOK
  <2>4. prog' \in Seq(Typed)
    BY <2>1, <2>3, PlansHold, TypedPrograms
  <2>5. Direct' = Direct /\ HasWidths' = HasWidths /\ Restores' = Restores
    BY <1>1, SameBoard
  <2>6. JobTyped'
    BY <1>1, <2>1, <2>5 DEF ITypes, JobTyped, Offered
  <2>7. JobFits'
    BY <1>1, <2>1 DEF ITypes, JobTyped, JobFits, NoJob
  <2>8. TypeOK'
    BY <1>1, <2>1, <2>5, <2>7, FailsTyped DEF ITypes, TypeOK, JobTyped, JobFits, requests, Offered
  <2> QED BY <2>4, <2>6, <2>7, <2>8 DEF ITypes
<1> QED BY <1>2, <1>3

\* ... a plain retune that fails ...
LEMMA FailPlainTyped == ASSUME ITypes, FailPlain PROVE ITypes'
BY FaultTyped, FailedTyped DEF FailPlain

\* ... a gain that fails and is tried again ...
LEMMA FailGainTyped == ASSUME ITypes, FailGain PROVE ITypes'
<1>1. Fails /\ UNCHANGED <<board, ops>> /\ job.phase = "gain"
  BY DEF FailGain
<1>2. CASE board = "e4000"
  BY <1>1, <1>2, FaultTyped DEF FailGain
<1>3. CASE board # "e4000"
  <2>1. UNCHANGED <<st, freq, requests, applied, valid, mode, auto, certain>>
    BY <1>3 DEF FailGain
  <2>2. \/ prog' = GainRecords(job.gain) /\ job' = [job EXCEPT !.n = job.n + 1]
        \/ prog' = <<>> /\ job' = [job EXCEPT !.ok = FALSE]
    BY <1>3 DEF FailGain
  <2>3. prog' \in Seq(Typed)
    <3>1. freq \in Freqs
      BY DEF ITypes, TypeOK
    <3>2. GainRecords(job.gain) \in Seq(Typed)
      BY <3>1, TypedGain
    <3>3. <<>> \in Seq(Typed)
      OBVIOUS
    <3> QED BY <2>2, <3>2, <3>3
  <2>5. Direct' = Direct /\ HasWidths' = HasWidths /\ Restores' = Restores
    BY <1>1, SameBoard
  <2>6. JobTyped'
    <3>1. CASE job' = [job EXCEPT !.n = job.n + 1]
      BY <1>1, <2>5, <3>1 DEF ITypes, JobTyped, Offered
    <3>2. CASE job' = [job EXCEPT !.ok = FALSE]
      BY <1>1, <2>5, <3>2 DEF ITypes, JobTyped, Offered
    <3> QED BY <2>2, <3>1, <3>2
  <2>7. JobFits'
    BY <1>1, <2>1, <2>2 DEF ITypes, JobTyped, JobFits, NoJob
  <2>8. TypeOK'
    BY <1>1, <2>1, <2>2, <2>5, <2>7, FailsTyped DEF ITypes, TypeOK, JobTyped, JobFits, requests, Offered
  <2> QED BY <2>3, <2>6, <2>7, <2>8 DEF ITypes
<1> QED BY <1>2, <1>3

\* ... a gain that is done ...
LEMMA GainRanTyped == ASSUME ITypes, GainRan PROVE ITypes'
<1>1. /\ UNCHANGED <<board, hw, shadow, st, freq, requests, applied, valid, faults, ops>>
      /\ prog = <<>> /\ job.phase = "gain" /\ job.kind = "controls"
      /\ st = "streaming" /\ job.f = freq
  BY DEF GainRan, Ran, ITypes, JobFits, JobTyped
<1>2. mode' \in {"auto", "manual"} /\ auto' \in BOOLEAN
  BY DEF GainRan, Ran, ITypes, JobTyped, TypeOK
<1>3. Direct' = Direct /\ HasWidths' = HasWidths /\ Restores' = Restores
  BY <1>1, SameBoard
<1>4. CASE job.w # None /\ job.w \in Offered(freq)
  <2>1. job' = [job EXCEPT !.phase = "width"] /\ UNCHANGED <<prog, certain>>
    BY <1>4 DEF GainRan
  <2>2. JobTyped'
    BY <1>1, <1>3, <1>4, <2>1 DEF ITypes, JobTyped, Offered
  <2>3. JobFits'
    BY <1>1, <2>1 DEF ITypes, JobTyped, JobFits, NoJob
  <2>4. TypeOK'
    BY <1>1, <1>2, <1>3, <2>1 DEF ITypes, TypeOK, JobTyped, JobFits, requests, Offered
  <2> QED BY <2>1, <2>2, <2>3, <2>4 DEF ITypes
<1>5. CASE ~(job.w # None /\ job.w \in Offered(freq))
  <2>1. Done /\ certain' \in BOOLEAN
    BY <1>5 DEF GainRan, ITypes, TypeOK, JobTyped
  <2>2. JobTyped' /\ JobFits' /\ prog' \in Seq(Typed) /\ job'.kind = "none"
    BY <1>1, <2>1, NoJobNow DEF ITypes, TypeOK, JobFits
  <2>3. TypeOK'
    BY <1>1, <1>2, <1>3, <2>1, <2>2 DEF ITypes, TypeOK, requests, Done, Offered
  <2> QED BY <2>2, <2>3 DEF ITypes
<1> QED BY <1>4, <1>5

\* ... the width behind it ...
LEMMA BeginWidthTyped == ASSUME ITypes, BeginWidth PROVE ITypes'
<1>1. /\ UNCHANGED <<board, hw, shadow, st, freq, requests, applied, valid, mode, auto, certain, faults, ops>>
      /\ prog = <<>> /\ job.phase = "width" /\ job.kind = "controls"
      /\ st = "streaming" /\ job.f = freq /\ job.w \in Offered(freq)
      /\ job' = [job EXCEPT !.phase = "next"] /\ prog' = Program(freq, freq, job.w)
  BY DEF BeginWidth, Ran, ITypes, JobFits, JobTyped
<1>2. Direct' = Direct /\ HasWidths' = HasWidths /\ Restores' = Restores
  BY <1>1, SameBoard
<1>3. prog' \in Seq(Typed)
  BY <1>1, Offers, PlansHold, TypedPrograms DEF ITypes, TypeOK
<1>4. JobTyped'
  BY <1>1, <1>2 DEF ITypes, JobTyped, Offered
<1>5. JobFits'
  BY <1>1 DEF ITypes, JobTyped, JobFits, NoJob
<1>6. TypeOK'
  BY <1>1, <1>2 DEF ITypes, TypeOK, JobTyped, JobFits, requests, Offered
<1> QED BY <1>3, <1>4, <1>5, <1>6 DEF ITypes

\* ... a width, a start, a retune that are done ...
LEMMA WidthRanTyped == ASSUME ITypes, WidthRan PROVE ITypes'
<1>1. /\ UNCHANGED <<board, hw, shadow, st, freq, requests, mode, auto, faults, ops>>
      /\ job.phase = "next" /\ job.kind = "controls" /\ job.f = freq
      /\ Done /\ applied' = [f |-> job.f, w |-> job.w] /\ valid' = TRUE
      /\ certain' \in BOOLEAN /\ job.w \in Offered(freq) /\ freq \in Freqs /\ st = "streaming"
  BY DEF WidthRan, Ran, ITypes, JobFits, JobTyped, TypeOK
<1>2. Direct' = Direct /\ HasWidths' = HasWidths /\ Restores' = Restores
  BY <1>1, SameBoard
<1>3. JobTyped' /\ JobFits' /\ prog' \in Seq(Typed) /\ job'.kind = "none"
  BY <1>1, NoJobNow DEF ITypes, TypeOK, JobFits
<1>4. job.w \in Widths
  BY <1>1, Offers
<1>5. TypeOK'
  BY <1>1, <1>2, <1>3, <1>4 DEF ITypes, TypeOK, requests, Done, Offered
<1> QED BY <1>3, <1>5 DEF ITypes

\* ... (the start) ...
LEMMA StartRanTyped == ASSUME ITypes, StartRan PROVE ITypes'
<1>1. /\ UNCHANGED <<board, hw, want, asked, gain, mode, faults, ops>>
      /\ job.kind = "start" /\ st = "idle" /\ ~valid /\ job.f \in Freqs
      /\ Done /\ st' = "streaming" /\ freq' = job.f /\ certain' = TRUE /\ retune' = None
      /\ shadow' = Forget /\ auto' \in BOOLEAN
  BY DEF StartRan, AutoAfterTune, ITypes, JobFits, JobTyped, TypeOK
<1>2. Direct' = Direct /\ HasWidths' = HasWidths /\ Restores' = Restores
  BY <1>1, SameBoard
<1>3. valid' \in BOOLEAN /\ (valid' => job.w # None /\ applied' = [f |-> job.f, w |-> job.w])
      /\ (~valid' => applied' = applied)
  <2>1. CASE job.w # None
    BY <2>1 DEF StartRan
  <2>2. CASE job.w = None
    <3>1. valid' = valid /\ applied' = applied
      BY <2>2 DEF StartRan
    <3>2. valid' = FALSE
      BY <1>1, <3>1 DEF ITypes, TypeOK
    <3> QED BY <3>1, <3>2
  <2> QED BY <2>1, <2>2
<1>9. job.w # None => job.w \in Offered(job.f) /\ job.w \in Widths
  BY <1>1, Offers DEF ITypes, JobTyped
<1>4. JobTyped' /\ JobFits' /\ prog' \in Seq(Typed) /\ job'.kind = "none"
  BY <1>1, <1>3, NoJobNow
<1>8. applied \in [f: Freqs \cup {None}, w: Widths \cup {None}]
  BY DEF ITypes, TypeOK
<1>5. applied' \in [f: Freqs \cup {None}, w: Widths \cup {None}]
  BY <1>1, <1>3, <1>8, <1>9
<1>6. (valid => applied.w \in Offered(applied.f))'
  BY <1>2, <1>3, <1>9 DEF Offered
<1>7. TypeOK'
  BY <1>1, <1>3, <1>4, <1>5, <1>6 DEF ITypes, TypeOK, Done, Forget
<1> QED BY <1>4, <1>7 DEF ITypes

\* ... (the retune) ...
LEMMA RetuneRanTyped == ASSUME ITypes, RetuneRan PROVE ITypes'
<1>1. /\ UNCHANGED <<board, hw, shadow, st, mode, faults, ops>>
      /\ job.kind = "retune" /\ st = "streaming" /\ job.f \in Freqs
      /\ Done /\ freq' = job.f /\ certain' = TRUE /\ auto' \in BOOLEAN
      /\ retune' \in {retune, None} /\ gain' \in {"none", gain}
  BY DEF RetuneRan, AutoAfterTune, ITypes, JobFits, JobTyped, TypeOK
<1>2. Direct' = Direct /\ HasWidths' = HasWidths /\ Restores' = Restores
  BY <1>1, SameBoard
<1>3. /\ (valid' => job.phase = "next" /\ applied' = [f |-> job.f, w |-> job.w])
      /\ (~valid' => applied' = applied)
      /\ want' \in {job.w, want, 0} /\ (want' = job.w => want' = 0 \/ want' = want \/ job.phase = "next")
  BY DEF RetuneRan
<1>9. job.phase = "next" => job.w \in Offered(job.f) /\ job.w \in Widths
  BY Offers DEF ITypes, JobTyped
<1>10. valid' \in BOOLEAN /\ asked' \in BOOLEAN
  BY DEF RetuneRan, ITypes, TypeOK
<1>4. JobTyped' /\ JobFits' /\ prog' \in Seq(Typed) /\ job'.kind = "none"
  BY <1>1, <1>3, NoJobNow
<1>8. applied \in [f: Freqs \cup {None}, w: Widths \cup {None}] /\ want \in Widths /\ 0 \in Widths
  BY TunerSets DEF ITypes, TypeOK
<1>5. applied' \in [f: Freqs \cup {None}, w: Widths \cup {None}] /\ want' \in Widths
  BY <1>1, <1>3, <1>8, <1>9
<1>6. (valid => applied.w \in Offered(applied.f))'
  BY <1>2, <1>3, <1>9 DEF Offered
<1>7. TypeOK'
  BY <1>1, <1>4, <1>5, <1>6, <1>10 DEF ITypes, TypeOK, Done
<1> QED BY <1>4, <1>7 DEF ITypes

\* ... and a FIFO reset that fails behind any of them.
LEMMA FifoFailsTyped == ASSUME ITypes, FifoFails PROVE ITypes'
<1>1. /\ UNCHANGED <<board, hw, freq, requests, certain, ops>>
      /\ st' = "fault" /\ Done /\ shadow' = Forget /\ freq \in Freqs
      /\ mode' \in {"auto", "manual"} /\ auto' \in BOOLEAN
  BY DEF FifoFails, ITypes, JobTyped, TypeOK
<1>2. Direct' = Direct /\ HasWidths' = HasWidths /\ Restores' = Restores
  BY <1>1, SameBoard
<1>3. \/ job.phase = "next" /\ applied' = [f |-> job.f, w |-> job.w]
      \/ applied' = applied /\ valid' = valid
  BY DEF FifoFails
<1>9. job.phase = "next" => job.w \in Offered(job.f) /\ job.w \in Widths /\ job.f \in Freqs
  BY Offers DEF ITypes, JobTyped, JobFits
<1>10. valid' \in BOOLEAN
  BY DEF FifoFails, ITypes, TypeOK
<1>4. JobTyped' /\ JobFits' /\ prog' \in Seq(Typed) /\ job'.kind = "none"
  BY <1>1, NoJobNow DEF ITypes, TypeOK
<1>11. applied \in [f: Freqs \cup {None}, w: Widths \cup {None}] /\ (valid => applied.w \in Offered(applied.f))
  BY DEF ITypes, TypeOK
<1>5. applied' \in [f: Freqs \cup {None}, w: Widths \cup {None}]
  BY <1>3, <1>9, <1>11
<1>6. (valid => applied.w \in Offered(applied.f))'
  <2>1. CASE job.phase = "next" /\ applied' = [f |-> job.f, w |-> job.w]
    BY <1>2, <1>9, <2>1 DEF Offered
  <2>2. CASE applied' = applied /\ valid' = valid
    <3>1. valid' => applied'.w \in Offered(applied'.f)
      BY <1>11, <2>2
    <3> QED BY <1>2, <3>1 DEF Offered
  <2> QED BY <1>3, <2>1, <2>2
<1>7. faults' \in 0..MaxFaults
  BY TunerBounds DEF FifoFails, ITypes, TypeOK
<1>8. TypeOK'
  BY <1>1, <1>4, <1>5, <1>6, <1>7, <1>10 DEF ITypes, TypeOK, Done, Forget, requests
<1> QED BY <1>4, <1>8 DEF ITypes

\* Every step keeps the types.
LEMMA TypesKept == ASSUME ITypes, [Next]_vars PROVE ITypes'
<1>1. CASE UNCHANGED vars
  BY <1>1 DEF vars, ITypes, TypeOK, JobTyped, JobFits, Offered, HasWidths, Direct, Restores
<1>2. CASE BackRan
  BY <1>2, FailedTyped DEF BackRan
<1>3. CASE Next
  <2>1. CASE \E f \in Freqs : Start(f)
    BY <2>1, StartTyped
  <2>2. CASE \/ \E f \in Freqs : Retune(f)
             \/ \E w \in Widths : SetBandwidth(w)
             \/ SetAuto \/ SetGain
    BY <2>2, AskTyped
  <2>3. CASE Stop \/ Record
    BY <2>3, StopTyped, RecordTyped
  <2>4. CASE BeginRetune \/ BeginControls \/ BeginWidth
    BY <2>4, BeginRetuneTyped, BeginControlsTyped, BeginWidthTyped
  <2>5. CASE FailStart \/ FailWidth \/ FailPlain \/ FailGain \/ FifoFails
    BY <2>5, FailStartTyped, FailWidthTyped, FailPlainTyped, FailGainTyped, FifoFailsTyped
  <2>6. CASE GainRan \/ WidthRan \/ StartRan \/ RetuneRan
    BY <2>6, GainRanTyped, WidthRanTyped, StartRanTyped, RetuneRanTyped
  <2> QED BY <1>2, <1>3, <2>1, <2>2, <2>3, <2>4, <2>5, <2>6 DEF Next
<1> QED BY <1>1, <1>3

\* Types, and what is reported as the width is one offered at its frequency.
THEOREM TunerTyped == Spec => []TypeOK
<1>1. ITypes => TypeOK
  BY DEF ITypes
<1> QED
  BY <1>1, TypesStart, TypesKept, PTL DEF Spec

(***************************************************************************)
(* The shadow.  What makes it right is the form of the records: one that   *)
(* is not a tuner record names no tuner register, and every other one      *)
(* names one.                                                              *)
(***************************************************************************)

\* At first nothing is known.
LEMMA ShadowStart == Init => ShadowSound
BY DEF Init, ShadowSound, TunerRegs

\* A record that goes well: what is learnt of a register is what was written.
LEMMA RecordSound == ASSUME ITypes, ShadowSound, Record PROVE ShadowSound'
<1>1. /\ Next1.reg \in Regs
      /\ Next1.kind = "demod" <=> Next1.reg \notin TunerRegs
      /\ DOMAIN hw = Regs /\ DOMAIN shadow = TunerRegs
  BY HeadIsTyped DEF ITypes, TypeOK, Record
<1>2. CASE Skipped
  BY <1>2 DEF Record, ShadowSound
<1>3. CASE ~Skipped
  <2>1. hw' = [hw EXCEPT ![Next1.reg] = Next1.val] /\ shadow' = Learn(Next1)
    BY <1>3 DEF Record
  <2>2. CASE Next1.kind = "demod"
    BY <1>1, <2>1, <2>2 DEF ShadowSound, Learn
  <2>3. CASE Next1.kind = "burst"
    BY <1>1, <2>1, <2>3 DEF ShadowSound, Learn, Forget
  <2>4. CASE Next1.kind \notin {"demod", "burst"}
    <3>1. shadow' = [shadow EXCEPT ![Next1.reg] = Next1.val]
      BY <2>1, <2>4 DEF Learn
    <3> QED
      BY <1>1, <2>1, <3>1 DEF ShadowSound
  <2> QED
    BY <2>2, <2>3, <2>4
<1> QED
  BY <1>2, <1>3

\* A stop writes the standby values or forgets.
LEMMA StopSound == ASSUME ITypes, ShadowSound, Stop PROVE ShadowSound'
<1>1. CASE UNCHANGED <<hw, shadow>>
  BY <1>1 DEF ShadowSound
<1>2. CASE /\ hw' = [hw EXCEPT !["filter"] = Standby, !["agc"] = Standby]
           /\ shadow' = [shadow EXCEPT !["filter"] = Standby, !["agc"] = Standby]
  BY <1>2, RegNames DEF ITypes, TypeOK, ShadowSound
<1>3. CASE shadow' = Forget
  BY <1>3 DEF ShadowSound, Forget
<1> QED
  BY <1>1, <1>2, <1>3 DEF Stop

\* Steps that leave the registers alone, or after which nothing is known.
LEMMA OthersSound ==
  ASSUME ShadowSound, shadow' = Forget \/ UNCHANGED <<hw, shadow>>
  PROVE  ShadowSound'
BY DEF ShadowSound, Forget

\* Every step keeps the shadow sound.
LEMMA ShadowKept == ASSUME ITypes, ShadowSound, [Next]_vars PROVE ShadowSound'
<1>1. CASE Record
  BY <1>1, RecordSound
<1>2. CASE Stop
  BY <1>2, StopSound
<1>3. CASE FailStart \/ FailWidth \/ FailPlain \/ FailGain
  BY <1>3, OthersSound DEF FailStart, FailWidth, FailPlain, FailGain, Fails, Unknown
<1>4. CASE \/ \E f \in Freqs : Retune(f)
           \/ \E w \in Widths : SetBandwidth(w)
           \/ SetAuto \/ SetGain
  BY <1>4, OthersSound DEF Retune, SetBandwidth, SetAuto, SetGain, Ask
<1>5. CASE (\E f \in Freqs : Start(f)) \/ BeginRetune \/ BeginControls \/ BeginWidth
  BY <1>5, OthersSound DEF Start, BeginRetune, BeginControls, BeginWidth
<1>6. CASE GainRan \/ WidthRan \/ StartRan \/ RetuneRan
  BY <1>6, OthersSound DEF GainRan, WidthRan, StartRan, RetuneRan
<1>7. CASE BackRan \/ FifoFails \/ UNCHANGED vars
  BY <1>7, OthersSound DEF BackRan, FifoFails, vars
<1> QED
  BY <1>1, <1>2, <1>3, <1>4, <1>5, <1>6, <1>7 DEF Next

\* 1846: a write that a tune skips because its value "is already in the register"
\* is indeed in the register, after any record that failed and any rollback.
THEOREM ShadowIsSound == Spec => []ShadowSound
BY TypesStart, TypesKept, ShadowStart, ShadowKept, PTL DEF Spec

(***************************************************************************)
(* What a program leaves in the registers.                                 *)
(***************************************************************************)

\* The last record of p on r writes v; p has no record on r; p leaves v if it
\* finds it.
Leaves(p, r, v) == \E i \in DOMAIN p : /\ p[i].reg = r /\ p[i].val = v
                                       /\ \A j \in DOMAIN p : j > i => p[j].reg # r
Spares(p, r) == \A i \in DOMAIN p : p[i].reg # r
Keeps(p, r, v) == Leaves(p, r, v) \/ Spares(p, r)

\* Of two programs, the second has the last word.
LEMMA Joins ==
  ASSUME NEW R, NEW p \in Seq(R), NEW q \in Seq(R), NEW r
  PROVE  /\ \A v : Leaves(q, r, v) => Leaves(p \o q, r, v)
         /\ \A v : Leaves(p, r, v) /\ Keeps(q, r, v) => Leaves(p \o q, r, v)
         /\ Spares(p, r) /\ Spares(q, r) => Spares(p \o q, r)
<1> DEFINE s == p \o q
<1>1. /\ Len(s) = Len(p) + Len(q) /\ Len(p) \in Nat /\ Len(q) \in Nat
      /\ DOMAIN s = 1..Len(s) /\ DOMAIN p = 1..Len(p) /\ DOMAIN q = 1..Len(q)
      /\ \A i \in 1..Len(p) : s[i] = p[i]
      /\ \A i \in 1..Len(q) : s[Len(p) + i] = q[i]
      /\ \A i \in 1..Len(s) : i > Len(p) => s[i] = q[i - Len(p)]
  OBVIOUS
<1> HIDE DEF s
<1>2. ASSUME NEW v, Leaves(q, r, v) PROVE Leaves(s, r, v)
  <2>1. PICK i \in 1..Len(q) : /\ q[i].reg = r /\ q[i].val = v
                               /\ \A j \in 1..Len(q) : j > i => q[j].reg # r
    BY <1>1, <1>2 DEF Leaves
  <2>2. ASSUME NEW j \in 1..Len(s), j > Len(p) + i PROVE s[j].reg # r
    <3>1. j - Len(p) \in 1..Len(q) /\ j - Len(p) > i /\ s[j] = q[j - Len(p)]
      BY <1>1, <2>2
    <3> QED BY <2>1, <3>1
  <2>3. Len(p) + i \in DOMAIN s /\ s[Len(p) + i] = q[i]
    BY <1>1
  <2> QED BY <1>1, <2>1, <2>2, <2>3 DEF Leaves
<1>3. ASSUME NEW v, Leaves(p, r, v), Spares(q, r) PROVE Leaves(s, r, v)
  <2>1. PICK i \in 1..Len(p) : /\ p[i].reg = r /\ p[i].val = v
                               /\ \A j \in 1..Len(p) : j > i => p[j].reg # r
    BY <1>1, <1>3 DEF Leaves
  <2>2. ASSUME NEW j \in 1..Len(s), j > i PROVE s[j].reg # r
    <3>1. CASE j > Len(p)
      <4>1. j - Len(p) \in 1..Len(q) /\ s[j] = q[j - Len(p)]
        BY <1>1, <3>1
      <4> QED BY <1>1, <1>3, <4>1 DEF Spares
    <3>2. CASE ~(j > Len(p))
      <4>1. j \in 1..Len(p) /\ s[j] = p[j]
        BY <1>1, <3>2
      <4> QED BY <2>1, <2>2, <4>1
    <3> QED BY <3>1, <3>2
  <2>3. i \in DOMAIN s /\ s[i] = p[i]
    BY <1>1
  <2> QED BY <1>1, <2>1, <2>2, <2>3 DEF Leaves
<1>4. ASSUME Spares(p, r), Spares(q, r) PROVE Spares(s, r)
  <2> SUFFICES ASSUME NEW j \in 1..Len(s) PROVE s[j].reg # r
    BY <1>1 DEF Spares
  <2>1. CASE j > Len(p)
    <3>1. j - Len(p) \in 1..Len(q) /\ s[j] = q[j - Len(p)]
      BY <1>1, <2>1
    <3> QED BY <1>1, <1>4, <3>1 DEF Spares
  <2>2. CASE ~(j > Len(p))
    <3>1. j \in 1..Len(p) /\ s[j] = p[j]
      BY <1>1, <2>2
    <3> QED BY <1>1, <1>4, <3>1 DEF Spares
  <2> QED BY <2>1, <2>2
<1> QED BY <1>2, <1>3, <1>4 DEF s, Keeps

\* Programs of one and of two records.
LEMMA Singles ==
  ASSUME NEW a, NEW x, NEW k
  PROVE  /\ Leaves(<<W(a, x, k)>>, a, x)
         /\ \A r : r # a => Spares(<<W(a, x, k)>>, r)
<1> DEFINE p == <<W(a, x, k)>>
<1>1. DOMAIN p = {1} /\ p[1].reg = a /\ p[1].val = x
  BY DEF W
<1> HIDE DEF p
<1> QED BY <1>1 DEF Leaves, Spares, p

\* What two records leave.
LEMMA Pairs ==
  ASSUME NEW a, NEW x, NEW k, NEW b, NEW y, NEW l, a # b
  PROVE  LET p == <<W(a, x, k), W(b, y, l)>> IN
         /\ Leaves(p, a, x) /\ Leaves(p, b, y)
         /\ \A r : r # a /\ r # b => Spares(p, r)
<1> DEFINE p == <<W(a, x, k), W(b, y, l)>>
<1>1. DOMAIN p = {1, 2} /\ p[1].reg = a /\ p[1].val = x /\ p[2].reg = b /\ p[2].val = y
  BY DEF W
<1> HIDE DEF p
<1>2. Leaves(p, a, x) /\ Leaves(p, b, y)
  BY <1>1 DEF Leaves
<1>3. \A r : r # a /\ r # b => Spares(p, r)
  BY <1>1 DEF Spares
<1> QED BY <1>2, <1>3 DEF p

\* What two records do not touch.
LEMMA PairSpares ==
  ASSUME NEW a, NEW x, NEW k, NEW b, NEW y, NEW l, NEW r, r # a, r # b
  PROVE  Spares(<<W(a, x, k), W(b, y, l)>>, r)
BY DEF Spares, W

\* A program of no records touches nothing.
LEMMA Empty == \A r : Spares(<<>>, r)
BY DEF Spares

\* The reinit block leaves the filter in its boot state.
LEMMA ReinitLeaves ==
  /\ Leaves(Reinit, "filter", Boot)
  /\ \A r : r \notin {"filter", "pll", "agc"} => Spares(Reinit, r)
<1> DEFINE p == Reinit
<1>1. /\ DOMAIN p = {1, 2, 3} /\ p[1].reg = "filter" /\ p[1].val = Boot
      /\ p[2].reg = "pll" /\ p[3].reg = "agc"
  BY DEF W, Reinit
<1> HIDE DEF p
<1> QED BY <1>1 DEF Leaves, Spares, p

\* What the parts of the programs leave, and the registers they spare.
LEMMA PartsLeave ==
  ASSUME NEW f, NEW p, NEW g
  PROVE  /\ \A r : r # "agc" => Spares(E4000Gain(g), r) /\ Spares(GainRestore, r)
         /\ Leaves(RtlTune(f, p), "pll", At(f, p))
         /\ \A r : r \notin {"agc", "pll"} => Spares(RtlTune(f, p), r)
         /\ board \in {"v4", "v4l"} => Leaves(Frontend(f), "route", Route(f))
         /\ \A r : r \notin {"agc", "route"} => Spares(Frontend(f), r)
         /\ board \notin {"v4", "v4l"} => Frontend(f) = <<>>
         /\ Leaves(SampleRate, "demod", Boot)
         /\ Keeps(IfRestore, "demod", Boot) /\ (Restores => Leaves(IfRestore, "demod", Boot))
         /\ \A r : r # "demod" => Spares(SampleRate, r) /\ Spares(IfRestore, r)
         /\ Keeps(ColdReinit(f), "filter", Boot)
         /\ \A r : r \notin {"filter", "pll", "agc"} => Spares(ColdReinit(f), r)
         /\ board = "e4000" => ColdReinit(f) = <<>>
         /\ \A r : r \notin {"filter", "agc"} => Spares(StandbyRecords, r)
         /\ Leaves(DirectTune(f), "demod", Nco(f))
         /\ \A r : r # "demod" => Spares(DirectTune(f), r)
<1>1. \A r : r # "agc" => Spares(E4000Gain(g), r) /\ Spares(GainRestore, r)
  BY Singles, Empty DEF E4000Gain, GainRestore
<1>2. /\ Leaves(RtlTune(f, p), "pll", At(f, p))
      /\ \A r : r \notin {"agc", "pll"} => Spares(RtlTune(f, p), r)
  <2>1. PICK x : x = TuneAgc
    OBVIOUS
  <2>2. RtlTune(f, p) = <<W("agc", x, "patch"), W("pll", At(f, p), "patch")>>
    BY <2>1 DEF RtlTune
  <2>3. Leaves(<<W("agc", x, "patch"), W("pll", At(f, p), "patch")>>, "pll", At(f, p))
    BY Pairs
  <2>4. ASSUME NEW r, r \notin {"agc", "pll"}
        PROVE  Spares(<<W("agc", x, "patch"), W("pll", At(f, p), "patch")>>, r)
    BY <2>4, PairSpares
  <2> QED BY <2>2, <2>3, <2>4
<1>3. /\ board \in {"v4", "v4l"} => Leaves(Frontend(f), "route", Route(f))
      /\ \A r : r \notin {"agc", "route"} => Spares(Frontend(f), r)
      /\ board \notin {"v4", "v4l"} => Frontend(f) = <<>>
  <2>1. CASE board = "v4"
    <3>1. Frontend(f) = <<W("route", Route(f), "demod"), W("agc", Agc, "write")>>
      BY <2>1 DEF Frontend
    <3>2. PICK x : x = Agc
      OBVIOUS
    <3>3. Frontend(f) = <<W("route", Route(f), "demod"), W("agc", x, "write")>>
      BY <3>1, <3>2
    <3>4. Leaves(<<W("route", Route(f), "demod"), W("agc", x, "write")>>, "route", Route(f))
      BY Pairs
    <3>5. ASSUME NEW r, r \notin {"agc", "route"}
          PROVE  Spares(<<W("route", Route(f), "demod"), W("agc", x, "write")>>, r)
      BY <3>5, PairSpares
    <3> QED BY <2>1, <3>3, <3>4, <3>5
  <2>2. CASE board = "v4l"
    <3>1. Frontend(f) = <<W("route", Route(f), "demod")>>
      BY <2>2 DEF Frontend
    <3>2. /\ Leaves(<<W("route", Route(f), "demod")>>, "route", Route(f))
          /\ \A r : r # "route" => Spares(<<W("route", Route(f), "demod")>>, r)
      BY Singles
    <3> QED BY <2>2, <3>1, <3>2
  <2>3. CASE board \notin {"v4", "v4l"}
    <3>1. Frontend(f) = <<>>
      BY <2>3 DEF Frontend
    <3> QED BY <2>3, <3>1, Empty
  <2> QED BY <2>1, <2>2, <2>3
<1>4. /\ Leaves(SampleRate, "demod", Boot)
      /\ \A r : r # "demod" => Spares(SampleRate, r)
  BY Singles DEF SampleRate
<1>5. /\ Keeps(IfRestore, "demod", Boot) /\ (Restores => Leaves(IfRestore, "demod", Boot))
      /\ \A r : r # "demod" => Spares(IfRestore, r)
  BY Singles, Empty DEF IfRestore, Keeps
<1>6. /\ Keeps(ColdReinit(f), "filter", Boot)
      /\ \A r : r \notin {"filter", "pll", "agc"} => Spares(ColdReinit(f), r)
      /\ board = "e4000" => ColdReinit(f) = <<>>
  BY ReinitLeaves, Empty DEF ColdReinit, Keeps
<1>7. \A r : r \notin {"filter", "agc"} => Spares(StandbyRecords, r)
  BY PairSpares DEF StandbyRecords
<1>8. /\ Leaves(DirectTune(f), "demod", Nco(f))
      /\ \A r : r # "demod" => Spares(DirectTune(f), r)
  BY Singles DEF DirectTune
<1> QED BY <1>1, <1>2, <1>3, <1>4, <1>5, <1>6, <1>7, <1>8

\* The same of joined programs.
LEMMA TypedJoins ==
  \A s, t \in Seq(Typed) : \A r :
     /\ s \o t \in Seq(Typed)
     /\ \A v : Leaves(t, r, v) => Leaves(s \o t, r, v)
     /\ \A v : Leaves(s, r, v) /\ Keeps(t, r, v) => Leaves(s \o t, r, v)
     /\ Spares(s, r) /\ Spares(t, r) => Spares(s \o t, r)
BY Joins, TypedJoined

\* Only the boards that put their demodulator back know direct sampling.
LEMMA DirectRestores ==
  /\ \A f \in Direct : Restores
  /\ Restores => board \notin {"v4", "v4l", "e4000"}
  /\ None \notin Direct
BY TunerSets, TunerBounds DEF Direct, Restores

\* A tune of the tuner leaves the PLL at the frequency with the plan's IF.
LEMMA TunerTuneLeaves ==
  ASSUME NEW f \in Freqs, NEW p \in Plans
  PROVE  LET q == TuneRecords(f, p) IN
         /\ Leaves(q, "pll", At(f, p))
         /\ (board # "e4000" => Spares(q, "demod")) /\ (board = "e4000" => Leaves(q, "demod", p))
         /\ \A r : r \notin {"agc", "pll", "demod"} => Spares(q, r)
<1> DEFINE S == Seq(Typed)
           d == <<W("demod", p, "demod"), W("pll", At(f, p), "write")>>
<1>1. CASE board = "e4000"
  <2>1. d \in S
    <3> DEFINE a == W("demod", p, "demod")
               b == W("pll", At(f, p), "write")
    <3>1. a \in Typed /\ b \in Typed
      BY ValuesHold, TypedWrites, RegNames
    <3> HIDE DEF a, b
    <3>2. <<a, b>> \in S
      BY <3>1
    <3> QED BY <3>2 DEF a, b
  <2>2. E4000Gain(mode) \in S
    BY TypedPieces
  <2>3. TuneRecords(f, p) = d \o E4000Gain(mode)
    BY <1>1 DEF TuneRecords, E4000Tune
  <2>4. Leaves(d, "demod", p) /\ Leaves(d, "pll", At(f, p))
    BY Pairs
  <2>5. ASSUME NEW r, r \notin {"demod", "pll"} PROVE Spares(d, r)
    BY <2>5, PairSpares
  <2>6. \A r : r # "agc" => Spares(E4000Gain(mode), r)
    BY PartsLeave
  <2> HIDE DEF d, S
  <2>7. \A s, t \in S : \A r :
           /\ \A v : Leaves(s, r, v) /\ Keeps(t, r, v) => Leaves(s \o t, r, v)
           /\ Spares(s, r) /\ Spares(t, r) => Spares(s \o t, r)
    BY TypedJoins DEF S
  <2> DEFINE g == E4000Gain(mode)
  <2>8. g \in S /\ \A r : r # "agc" => Spares(g, r)
    BY <2>2, <2>6
  <2> HIDE DEF g
  <2>9. Leaves(d \o g, "demod", p) /\ Leaves(d \o g, "pll", At(f, p))
    BY <2>1, <2>4, <2>7, <2>8 DEF Keeps
  <2>10. ASSUME NEW r, r \notin {"agc", "pll", "demod"} PROVE Spares(d \o g, r)
    BY <2>1, <2>5, <2>7, <2>8, <2>10
  <2> QED BY <1>1, <2>3, <2>9, <2>10 DEF g
<1>2. CASE board # "e4000"
  <2>1. TuneRecords(f, p) = RtlTune(f, p)
    BY <1>2 DEF TuneRecords
  <2> QED BY <1>2, <2>1, PartsLeave
<1> QED BY <1>1, <1>2

\* Leaving direct sampling puts the tuner into its boot state.
LEMMA LeaveLeaves ==
  ASSUME NEW f \in Freqs
  PROVE  LET q == LeaveDirect \o GainRestore IN
         /\ q \in Seq(Typed)
         /\ Leaves(q, "filter", Boot) /\ Leaves(q, "mode", Native)
         /\ Restores => Leaves(q, "demod", Boot)
         /\ Spares(q, "route")
<1> DEFINE S == Seq(Typed)
           m == <<W("mode", Native, "demod")>>
<1>1. Boot \in Plans
  BY PlansHold
<1>2. Reinit \in S /\ IfRestore \in S /\ m \in S /\ GainRestore \in S
  BY <1>1, TypedPieces
<1>3. Leaves(m, "mode", Native) /\ \A r : r # "mode" => Spares(m, r)
  BY Singles
<1>4. \A r : r # "agc" => Spares(GainRestore, r)
  BY PartsLeave
<1>5. /\ Leaves(Reinit, "filter", Boot)
      /\ \A r : r \notin {"filter", "pll", "agc"} => Spares(Reinit, r)
  BY ReinitLeaves
<1>6. /\ (Restores => Leaves(IfRestore, "demod", Boot))
      /\ \A r : r # "demod" => Spares(IfRestore, r)
  BY PartsLeave
<1> HIDE DEF m, S
<1>7. \A s, t \in S : \A r :
         /\ s \o t \in S
         /\ \A v : Leaves(t, r, v) => Leaves(s \o t, r, v)
         /\ \A v : Leaves(s, r, v) /\ Keeps(t, r, v) => Leaves(s \o t, r, v)
         /\ Spares(s, r) /\ Spares(t, r) => Spares(s \o t, r)
  BY TypedJoins DEF S
<1> DEFINE a == Reinit \o IfRestore
<1>8. /\ a \in S /\ Leaves(a, "filter", Boot) /\ (Restores => Leaves(a, "demod", Boot))
      /\ Spares(a, "mode") /\ Spares(a, "route")
  BY <1>2, <1>5, <1>6, <1>7 DEF Keeps
<1> HIDE DEF a
<1> DEFINE b == a \o m
<1>9. /\ b \in S /\ Leaves(b, "filter", Boot) /\ (Restores => Leaves(b, "demod", Boot))
      /\ Leaves(b, "mode", Native) /\ Spares(b, "route")
  BY <1>2, <1>3, <1>7, <1>8 DEF Keeps
<1> HIDE DEF b
<1>10. LET q == b \o GainRestore IN
       /\ q \in S
       /\ Leaves(q, "filter", Boot) /\ Leaves(q, "mode", Native)
       /\ Restores => Leaves(q, "demod", Boot)
       /\ Spares(q, "route")
  BY <1>2, <1>4, <1>7, <1>9 DEF Keeps
<1>11. LeaveDirect = b
  BY DEF LeaveDirect, a, b, m
<1> QED BY <1>10, <1>11 DEF S

\* The same for the registers of a tune, one at a time.
LEMMA TuneLeaves ==
  ASSUME NEW f \in Freqs, NEW from, NEW p \in Plans
  PROVE  LET q == Tune(f, from, p) IN
         /\ q \in Seq(Typed) /\ Spares(q, "route")
         /\ f \in Direct => /\ Leaves(q, "demod", Nco(f))
                            /\ from \in Direct => Spares(q, "mode")
                            /\ from \notin Direct => Leaves(q, "mode", DirectIn)
         /\ f \notin Direct /\ from \in Direct =>
               /\ Leaves(q, "pll", At(f, p)) /\ Leaves(q, "filter", Boot)
               /\ Leaves(q, "demod", Boot) /\ Leaves(q, "mode", Native)
         /\ f \notin Direct /\ from \notin Direct =>
               /\ Leaves(q, "pll", At(f, p)) /\ Spares(q, "filter") /\ Spares(q, "mode")
               /\ board # "e4000" => Spares(q, "demod")
               /\ board = "e4000" => Leaves(q, "demod", p)
<1> DEFINE S == Seq(Typed)
           q == Tune(f, from, p)
<1>1. \A s, t \in S : \A r :
         /\ s \o t \in S
         /\ \A v : Leaves(t, r, v) => Leaves(s \o t, r, v)
         /\ \A v : Leaves(s, r, v) /\ Keeps(t, r, v) => Leaves(s \o t, r, v)
         /\ Spares(s, r) /\ Spares(t, r) => Spares(s \o t, r)
  BY TypedJoins
<1>2. CASE f \in Direct /\ from \in Direct
  <2>1. q = DirectTune(f)
    BY <1>2 DEF Tune
  <2>2. q \in S
    BY <2>1, TypedPieces
  <2>3. Leaves(DirectTune(f), "demod", Nco(f)) /\ \A r : r # "demod" => Spares(DirectTune(f), r)
    BY PartsLeave
  <2> HIDE DEF q
  <2>4. Leaves(q, "demod", Nco(f)) /\ Spares(q, "mode") /\ Spares(q, "route")
    BY <2>1, <2>3
  <2> QED BY <1>2, <2>2, <2>4 DEF q
<1>3. CASE f \in Direct /\ from \notin Direct
  <2> DEFINE m == <<W("mode", DirectIn, "demod")>>
             a == StandbyRecords
             d == DirectTune(f)
  <2>1. q = (a \o m) \o d
    BY <1>3 DEF Tune, EnterDirect
  <2>2. a \in S /\ m \in S /\ d \in S
    BY TypedPieces
  <2>3. Leaves(m, "mode", DirectIn) /\ \A r : r # "mode" => Spares(m, r)
    BY Singles
  <2>4. /\ \A r : r \notin {"filter", "agc"} => Spares(a, r)
        /\ Leaves(d, "demod", Nco(f)) /\ \A r : r # "demod" => Spares(d, r)
    BY PartsLeave
  <2> HIDE DEF m, a, d, S, q
  <2>5. (a \o m) \in S /\ Leaves(a \o m, "mode", DirectIn) /\ Spares(a \o m, "route")
    BY <1>1, <2>2, <2>3, <2>4
  <2>6. q \in S /\ Leaves(q, "mode", DirectIn) /\ Spares(q, "route") /\ Leaves(q, "demod", Nco(f))
    BY <1>1, <2>1, <2>2, <2>4, <2>5 DEF Keeps
  <2> QED BY <1>3, <2>6 DEF q, S
<1>4. ASSUME f \notin Direct
      PROVE  LET t == TuneRecords(f, p) IN
             /\ t \in S /\ Leaves(t, "pll", At(f, p))
             /\ (board # "e4000" => Spares(t, "demod")) /\ (board = "e4000" => Leaves(t, "demod", p))
             /\ Spares(t, "filter") /\ Spares(t, "mode") /\ Spares(t, "route")
  <2>1. TuneRecords(f, p) \in S
    BY TypedPieces
  <2>2. LET t == TuneRecords(f, p) IN
        /\ Leaves(t, "pll", At(f, p))
        /\ (board # "e4000" => Spares(t, "demod")) /\ (board = "e4000" => Leaves(t, "demod", p))
        /\ \A r : r \notin {"agc", "pll", "demod"} => Spares(t, r)
    BY TunerTuneLeaves
  <2> DEFINE t == TuneRecords(f, p)
  <2> HIDE DEF S, t
  <2>3. Spares(t, "filter") /\ Spares(t, "mode") /\ Spares(t, "route")
    BY <2>2 DEF t
  <2> QED BY <2>1, <2>2, <2>3 DEF t
<1>5. CASE f \notin Direct /\ from \in Direct
  <2> DEFINE l == LeaveDirect \o GainRestore
             t == TuneRecords(f, p)
  <2>1. q = l \o t
    BY <1>5 DEF Tune
  <2>2. /\ l \in S /\ Leaves(l, "filter", Boot) /\ Leaves(l, "mode", Native)
        /\ Restores => Leaves(l, "demod", Boot)
        /\ Spares(l, "route")
    BY LeaveLeaves
  <2>3. /\ t \in S /\ Leaves(t, "pll", At(f, p))
        /\ (board # "e4000" => Spares(t, "demod"))
        /\ Spares(t, "filter") /\ Spares(t, "mode") /\ Spares(t, "route")
    BY <1>4, <1>5
  <2>4. Restores /\ board # "e4000"
    BY <1>5, DirectRestores
  <2> HIDE DEF l, t, S, q
  <2>5. Leaves(q, "pll", At(f, p)) /\ q \in S /\ Spares(q, "route")
    BY <1>1, <2>1, <2>2, <2>3
  <2>6. Leaves(q, "filter", Boot) /\ Leaves(q, "demod", Boot) /\ Leaves(q, "mode", Native)
    BY <1>1, <2>1, <2>2, <2>3, <2>4 DEF Keeps
  <2> QED BY <1>5, <2>5, <2>6 DEF q, S
<1>6. CASE f \notin Direct /\ from \notin Direct
  <2> DEFINE t == TuneRecords(f, p)
  <2>1. /\ t \in S /\ Leaves(t, "pll", At(f, p))
        /\ (board # "e4000" => Spares(t, "demod")) /\ (board = "e4000" => Leaves(t, "demod", p))
        /\ Spares(t, "filter") /\ Spares(t, "mode") /\ Spares(t, "route")
    BY <1>4, <1>6
  <2>2. q = <<>> \o t
    BY <1>6 DEF Tune
  <2> HIDE DEF t
  <2>3. q = t
    BY <2>1, <2>2
  <2> QED BY <1>6, <2>1, <2>3
<1> QED BY <1>2, <1>3, <1>5, <1>6

\* A width program leaves the width's IF and filter, and the route.
LEMMA ProgramLeaves ==
  ASSUME NEW f \in Freqs \ Direct, NEW from, NEW w, Plan(w) \in Plans
  PROVE  LET q == Program(f, from, w) IN
         /\ q \in Seq(Typed)
         /\ Leaves(q, "filter", Plan(w)) /\ Leaves(q, "demod", Plan(w))
         /\ Leaves(q, "pll", At(f, Plan(w)))
         /\ board \in {"v4", "v4l"} => Leaves(q, "route", Route(f))
         /\ from \in Direct => Leaves(q, "mode", Native)
         /\ from \notin Direct => Spares(q, "mode")
<1> DEFINE S == Seq(Typed)
           q == Program(f, from, w)
           l == IF from \in Direct THEN LeaveDirect \o GainRestore ELSE <<>>
           a == <<W("filter", Plan(w), "write")>>
           t == Tune(f, None, Plan(w))
           d == <<W("demod", Plan(w), "demod")>>
           e == Frontend(f)
           p == Plan(w)
<1>1. \A x, y \in S : \A r :
         /\ x \o y \in S
         /\ \A v : Leaves(y, r, v) => Leaves(x \o y, r, v)
         /\ \A v : Leaves(x, r, v) /\ Keeps(y, r, v) => Leaves(x \o y, r, v)
         /\ Spares(x, r) /\ Spares(y, r) => Spares(x \o y, r)
  BY TypedJoins
<1>2. a \in S /\ d \in S /\ e \in S
  BY TypedPieces
<1>3. /\ l \in S /\ (from \in Direct => Leaves(l, "mode", Native))
      /\ (from \notin Direct => Spares(l, "mode"))
  <2>1. CASE from \in Direct
    BY <2>1, LeaveLeaves
  <2>2. CASE from \notin Direct
    BY <2>2, Empty
  <2> QED BY <2>1, <2>2
<1>4. /\ t \in S /\ Leaves(t, "pll", At(f, p)) /\ Spares(t, "filter") /\ Spares(t, "mode")
  BY DirectRestores, TuneLeaves
<1>5. Leaves(a, "filter", p) /\ \A r : r # "filter" => Spares(a, r)
  BY Singles
<1>6. Leaves(d, "demod", p) /\ \A r : r # "demod" => Spares(d, r)
  BY Singles
<1>7. /\ board \in {"v4", "v4l"} => Leaves(e, "route", Route(f))
      /\ \A r : r \notin {"agc", "route"} => Spares(e, r)
  BY PartsLeave
<1>8. q = (((l \o a) \o t) \o d) \o e
  BY DEF Program
<1> HIDE DEF q, l, a, t, d, e, p, S
<1> DEFINE b == l \o a
<1>9. /\ b \in S /\ Leaves(b, "filter", p) /\ (from \in Direct => Leaves(b, "mode", Native))
      /\ (from \notin Direct => Spares(b, "mode"))
  BY <1>1, <1>2, <1>3, <1>5 DEF Keeps
<1> HIDE DEF b
<1> DEFINE c == b \o t
<1>10. /\ c \in S /\ Leaves(c, "filter", p) /\ (from \in Direct => Leaves(c, "mode", Native))
       /\ (from \notin Direct => Spares(c, "mode")) /\ Leaves(c, "pll", At(f, p))
  BY <1>1, <1>4, <1>9 DEF Keeps
<1> HIDE DEF c
<1> DEFINE g == c \o d
<1>11. /\ g \in S /\ Leaves(g, "filter", p) /\ (from \in Direct => Leaves(g, "mode", Native))
       /\ (from \notin Direct => Spares(g, "mode")) /\ Leaves(g, "pll", At(f, p)) /\ Leaves(g, "demod", p)
  BY <1>1, <1>2, <1>6, <1>10 DEF Keeps
<1> HIDE DEF g
<1>12. q = g \o e
  BY <1>8 DEF g, c, b
<1>13. Spares(e, "filter") /\ Spares(e, "pll") /\ Spares(e, "demod") /\ Spares(e, "mode")
  BY <1>7
<1>14. /\ q \in S /\ Leaves(q, "filter", p) /\ (from \in Direct => Leaves(q, "mode", Native))
       /\ (from \notin Direct => Spares(q, "mode"))
       /\ Leaves(q, "pll", At(f, p)) /\ Leaves(q, "demod", p)
  <2>1. \A r, v : Leaves(g, r, v) /\ Spares(e, r) => Leaves(q, r, v)
    BY <1>1, <1>2, <1>11, <1>12 DEF Keeps
  <2>2. q \in S /\ (Spares(g, "mode") => Spares(q, "mode"))
    BY <1>1, <1>2, <1>11, <1>12, <1>13
  <2> QED BY <1>11, <1>13, <2>1, <2>2
<1>15. board \in {"v4", "v4l"} => Leaves(q, "route", Route(f))
  BY <1>1, <1>2, <1>7, <1>11, <1>12
<1> QED BY <1>14, <1>15 DEF q, p, S

\* The boards with direct sampling or without widths have no front end, so a
\* plain program is a tune in the boot state's plan.
LEMMA PlainIsTune ==
  ASSUME NEW f \in Freqs, NEW from, board \notin {"v4", "v4l"}
  PROVE  Plain(f, from) = Tune(f, from, Boot)
<1> DEFINE t == Tune(f, from, Boot)
<1>1. t \in Seq(Typed)
  BY PlansHold, TuneLeaves
<1>2. Frontend(f) = <<>>
  BY PartsLeave
<1>3. Plain(f, from) = t \o <<>>
  BY <1>2 DEF Plain
<1> HIDE DEF t
<1>4. t \o <<>> = t
  BY <1>1
<1> QED BY <1>3, <1>4 DEF t

\* What start runs ahead of its tune.
StartAhead(f) == InitTable \o SampleRate \o ColdReinit(f)
             \o (IF f \in Direct THEN <<>> ELSE IfRestore \o GainRestore)

\* What the part ahead of the start's tune leaves.
LEMMA AheadLeaves ==
  ASSUME NEW f \in Freqs
  PROVE  LET q == StartAhead(f) IN
         /\ q \in Seq(Typed) /\ Leaves(q, "mode", Native) /\ Leaves(q, "demod", Boot)
         /\ board # "e4000" => Leaves(q, "filter", Boot)
         /\ board = "e4000" => Spares(q, "filter")
<1> DEFINE S == Seq(Typed)
           i == InitTable
           s == SampleRate
           c == ColdReinit(f)
           x == IfRestore
           g == GainRestore
           z == IF f \in Direct THEN <<>> ELSE x \o g
           q == StartAhead(f)
<1>0. Boot \in Plans
  BY PlansHold
<1>1. \A a, b \in S : \A r :
         /\ a \o b \in S
         /\ \A v : Leaves(b, r, v) => Leaves(a \o b, r, v)
         /\ \A v : Leaves(a, r, v) /\ Keeps(b, r, v) => Leaves(a \o b, r, v)
         /\ Spares(a, r) /\ Spares(b, r) => Spares(a \o b, r)
  BY TypedJoins
<1>2. i \in S /\ s \in S /\ c \in S /\ x \in S /\ g \in S /\ <<>> \in S
  BY <1>0, TypedPieces
<1>3. /\ Leaves(i, "mode", Native)
      /\ board # "e4000" => Leaves(i, "filter", Boot)
      /\ board = "e4000" => Spares(i, "filter")
  <2> DEFINE m == <<W("mode", Native, "demod"), W("demod", Boot, "demod")>>
             n == E4000Gain("manual")
  <2>1. m \in S
    <3> DEFINE a == W("mode", Native, "demod")
               b == W("demod", Boot, "demod")
    <3>1. a \in Typed /\ b \in Typed
      BY ValuesHold, TypedWrites, RegNames
    <3> HIDE DEF a, b
    <3>2. <<a, b>> \in S
      BY <3>1
    <3> QED BY <3>2 DEF a, b
  <2>2. Leaves(m, "mode", Native)
    BY Pairs
  <2>3. Spares(m, "filter")
    BY PairSpares
  <2>4. n \in S /\ Reinit \in S
    BY <1>0, TypedPieces
  <2>5. \A r : r # "agc" => Spares(n, r)
    BY PartsLeave
  <2>6. /\ Leaves(Reinit, "filter", Boot)
        /\ \A r : r \notin {"filter", "pll", "agc"} => Spares(Reinit, r)
    BY ReinitLeaves
  <2>7. i = m \o (IF board = "e4000" THEN n ELSE Reinit)
    BY DEF InitTable
  <2> HIDE DEF m, n, S, i
  <2>8. CASE board = "e4000"
    <3>1. i = m \o n
      BY <2>7, <2>8
    <3>2. Spares(n, "mode") /\ Spares(n, "filter")
      BY <2>5
    <3> QED BY <1>1, <2>1, <2>2, <2>3, <2>4, <2>8, <3>1, <3>2 DEF Keeps
  <2>9. CASE board # "e4000"
    <3>1. i = m \o Reinit
      BY <2>7, <2>9
    <3>2. Spares(Reinit, "mode")
      BY <2>6
    <3> QED BY <1>1, <2>1, <2>2, <2>3, <2>4, <2>6, <2>9, <3>1, <3>2 DEF Keeps
  <2> QED BY <2>8, <2>9
<1>4. Leaves(s, "demod", Boot) /\ \A r : r # "demod" => Spares(s, r)
  BY PartsLeave
<1>5. /\ Keeps(c, "filter", Boot) /\ (board = "e4000" => c = <<>>)
      /\ \A r : r \notin {"filter", "pll", "agc"} => Spares(c, r)
  BY PartsLeave
<1>6. Keeps(x, "demod", Boot) /\ \A r : r # "demod" => Spares(x, r)
  BY PartsLeave
<1>7. \A r : r # "agc" => Spares(g, r)
  BY PartsLeave
<1>8. \A r : Spares(<<>>, r)
  BY Empty
<1>9. q = ((i \o s) \o c) \o z
  BY DEF StartAhead
<1> HIDE DEF S, i, s, c, x, g, q
<1>10. z \in S /\ Spares(z, "mode") /\ Spares(z, "filter") /\ Keeps(z, "demod", Boot)
  <2>1. CASE f \in Direct
    BY <1>2, <1>8, <2>1 DEF Keeps
  <2>2. CASE f \notin Direct
    <3>1. /\ Spares(x, "mode") /\ Spares(x, "filter")
          /\ Spares(g, "mode") /\ Spares(g, "filter") /\ Spares(g, "demod")
      BY <1>6, <1>7
    <3>2. z = x \o g
      BY <2>2
    <3> QED BY <1>1, <1>2, <1>6, <3>1, <3>2 DEF Keeps
  <2> QED BY <2>1, <2>2
<1> DEFINE a == i \o s
<1>11. /\ a \in S /\ Leaves(a, "mode", Native) /\ Leaves(a, "demod", Boot)
       /\ board # "e4000" => Leaves(a, "filter", Boot)
       /\ board = "e4000" => Spares(a, "filter")
  <2>1. Spares(s, "mode") /\ Spares(s, "filter")
    BY <1>4
  <2> QED BY <1>1, <1>2, <1>3, <1>4, <2>1 DEF Keeps
<1> HIDE DEF a, z
<1> DEFINE b == a \o c
<1>12. /\ b \in S /\ Leaves(b, "mode", Native) /\ Leaves(b, "demod", Boot)
       /\ board # "e4000" => Leaves(b, "filter", Boot)
       /\ board = "e4000" => Spares(b, "filter")
  <2>1. Spares(c, "mode") /\ Spares(c, "demod") /\ (board = "e4000" => Spares(c, "filter"))
    BY <1>5, <1>8
  <2> QED BY <1>1, <1>2, <1>5, <1>11, <2>1 DEF Keeps
<1> HIDE DEF b
<1>13. LET y == b \o z IN
       /\ y \in S /\ Leaves(y, "mode", Native) /\ Leaves(y, "demod", Boot)
       /\ board # "e4000" => Leaves(y, "filter", Boot)
       /\ board = "e4000" => Spares(y, "filter")
  BY <1>1, <1>10, <1>12 DEF Keeps
<1> QED BY <1>9, <1>13 DEF q, S, b, a

\* What start leaves: the automatic width's settings ...
LEMMA StartLeavesWidth ==
  ASSUME NEW f \in Freqs, ~Restores, Offered(f) # {}
  PROVE  LET q == StartRecords(f) IN
         /\ Leaves(q, "filter", Plan(0)) /\ Leaves(q, "demod", Plan(0))
         /\ Leaves(q, "pll", At(f, Plan(0))) /\ Leaves(q, "mode", Native)
         /\ board \in {"v4", "v4l"} => Leaves(q, "route", Route(f))
<1> DEFINE S == Seq(Typed)
           a == StartAhead(f)
           b == Program(f, None, 0)
           q == StartRecords(f)
<1>1. f \notin Direct /\ Plan(0) \in Plans /\ None \notin Direct
  BY Offers, PlansHold, TunerSets, DirectRestores
<1>2. \A s, t \in S : \A r :
         /\ \A v : Leaves(t, r, v) => Leaves(s \o t, r, v)
         /\ \A v : Leaves(s, r, v) /\ Keeps(t, r, v) => Leaves(s \o t, r, v)
  BY TypedJoins
<1>3. a \in S /\ Leaves(a, "mode", Native)
  BY AheadLeaves
<1>4. /\ b \in S
      /\ Leaves(b, "filter", Plan(0)) /\ Leaves(b, "demod", Plan(0))
      /\ Leaves(b, "pll", At(f, Plan(0)))
      /\ board \in {"v4", "v4l"} => Leaves(b, "route", Route(f))
      /\ Spares(b, "mode")
  BY <1>1, ProgramLeaves
<1>5. q = a \o b
  BY DEF StartRecords, StartAhead
<1> HIDE DEF S, a, b, q
<1> QED BY <1>2, <1>3, <1>4, <1>5 DEF Keeps, q

\* ... or those of the boot state, or of direct sampling.
LEMMA StartLeavesPlain ==
  ASSUME NEW f \in Freqs, Restores \/ board = "e4000"
  PROVE  LET q == StartRecords(f) IN
         /\ f \in Direct => Leaves(q, "demod", Nco(f)) /\ Leaves(q, "mode", DirectIn)
         /\ f \notin Direct => /\ Leaves(q, "demod", Boot) /\ Leaves(q, "mode", Native)
                               /\ Leaves(q, "pll", At(f, Boot))
                               /\ board # "e4000" => Leaves(q, "filter", Boot)
                               /\ board = "e4000" => Spares(q, "filter")
<1> DEFINE S == Seq(Typed)
           a == StartAhead(f)
           b == Tune(f, None, Boot)
           q == StartRecords(f)
<1>1. board \notin {"v4", "v4l"} /\ None \notin Direct /\ Boot \in Plans
  BY PlansHold, DirectRestores
<1>2. \A s, t \in S : \A r :
         /\ \A v : Leaves(t, r, v) => Leaves(s \o t, r, v)
         /\ \A v : Leaves(s, r, v) /\ Keeps(t, r, v) => Leaves(s \o t, r, v)
         /\ Spares(s, r) /\ Spares(t, r) => Spares(s \o t, r)
  BY TypedJoins
<1>3. /\ a \in S /\ Leaves(a, "mode", Native) /\ Leaves(a, "demod", Boot)
      /\ board # "e4000" => Leaves(a, "filter", Boot)
      /\ board = "e4000" => Spares(a, "filter")
  BY AheadLeaves
<1>4. /\ b \in S
      /\ f \in Direct => Leaves(b, "demod", Nco(f)) /\ Leaves(b, "mode", DirectIn)
      /\ f \notin Direct => /\ Leaves(b, "pll", At(f, Boot)) /\ Spares(b, "filter") /\ Spares(b, "mode")
                            /\ board # "e4000" => Spares(b, "demod")
                            /\ board = "e4000" => Leaves(b, "demod", Boot)
  BY <1>1, TuneLeaves
<1>5. q = a \o b
  <2>1. ~Restores => Offered(f) = {}
    BY DEF Offered, HasWidths
  <2>2. Plain(f, None) = b
    BY <1>1, PlainIsTune
  <2> QED BY <2>1, <2>2 DEF StartRecords, StartAhead
<1> HIDE DEF S, a, b, q
<1>6. CASE f \in Direct
  BY <1>2, <1>3, <1>4, <1>5, <1>6 DEF q
<1>7. CASE f \notin Direct
  <2>1. Leaves(q, "demod", Boot) /\ Leaves(q, "mode", Native) /\ Leaves(q, "pll", At(f, Boot))
    BY <1>2, <1>3, <1>4, <1>5, <1>7 DEF Keeps
  <2>2. /\ board # "e4000" => Leaves(q, "filter", Boot)
        /\ board = "e4000" => Spares(q, "filter")
    BY <1>2, <1>3, <1>4, <1>5, <1>7 DEF Keeps
  <2> QED BY <1>7, <2>1, <2>2 DEF q
<1> QED BY <1>6, <1>7

\* A gain program spares what a tune sets, but for the route.
LEMMA GainLeaves ==
  ASSUME NEW g
  PROVE  LET q == GainRecords(g) IN
         \A r : r \notin {"agc", "route"} => Spares(q, r)
<1>1. CASE board = "v4"
  <2> DEFINE q == <<W("route", Route(freq), "demod"), W("agc", ModeWord(g), "write")>>
  <2>1. GainRecords(g) = q
    BY <1>1 DEF GainRecords
  <2>2. ASSUME NEW r, r \notin {"agc", "route"} PROVE Spares(q, r)
    BY <2>2, PairSpares
  <2> HIDE DEF q
  <2> QED BY <2>1, <2>2
<1>2. CASE board # "v4"
  <2> DEFINE q == E4000Gain(g)
  <2>1. GainRecords(g) = q
    BY <1>2 DEF GainRecords
  <2>2. \A r : r # "agc" => Spares(q, r)
    BY PartsLeave
  <2> HIDE DEF q
  <2> QED BY <2>1, <2>2
<1> QED BY <1>1, <1>2

(***************************************************************************)
(* The settings: what the registers hold, or will when the program has     *)
(* run, in each phase of a job.                                            *)
(***************************************************************************)

\* What r holds when the program has run.
Ends(r, v) == Leaves(prog, r, v) \/ (Spares(prog, r) /\ hw[r] = v)

Tuned(f, p) == Ends("filter", p) /\ Ends("demod", p) /\ Ends("pll", At(f, p))
HasRoute == board \in {"v4", "v4l"}
HomeMode(f) == IF f \in Direct THEN DirectIn ELSE Native

Settings == {"filter", "demod", "pll", "mode"}

\* While no program of a tune is under way, the settings are those reported.
AtRest ==
    st = "streaming" /\ job.phase \in {"none", "gain", "width"} =>
        /\ \A r \in Settings : Spares(prog, r)
        /\ hw["mode"] = HomeMode(freq)
        /\ Restores /\ ~valid /\ freq \notin Direct => hw["demod"] = Boot /\ hw["filter"] # Standby
        /\ valid => Tuned(applied.f, Plan(applied.w))
        /\ certain => IF freq \in Direct THEN hw["demod"] = Nco(freq)
                      ELSE hw["pll"] = At(freq, hw["demod"]) /\ hw["filter"] # Standby
        /\ certain /\ HasRoute => hw["route"] = Route(freq)
        /\ \A i \in DOMAIN prog : prog[i].reg = "route" => prog[i].val = Route(freq)

\* A width program leaves the width's settings ...
AtNext ==
    job.phase = "next" =>
        /\ Tuned(job.f, Plan(job.w)) /\ Ends("mode", Native)
        /\ HasRoute => Ends("route", Route(job.f))
        /\ job.kind # "start" /\ freq \notin Direct => hw["mode"] = Native /\ Spares(prog, "mode")

\* ... or, put back, those of before.
AtBack ==
    job.phase = "back" =>
        /\ valid /\ Tuned(applied.f, Plan(applied.w))
        /\ hw["mode"] = Native /\ Spares(prog, "mode")

\* A plain program leaves those of a tuner in its boot state, or of direct sampling.
AtPlain ==
    job.phase = "plain" =>
        /\ ~HasRoute
        /\ job.f \in Direct => Ends("mode", DirectIn) /\ Ends("demod", Nco(job.f))
        /\ job.f \notin Direct =>
              /\ Ends("mode", Native) /\ Ends("demod", Boot) /\ Ends("pll", At(job.f, Boot))
              /\ \E v \in Plans : Ends("filter", v)
        /\ job.kind = "retune" /\ (job.f \in Direct <=> freq \in Direct) =>
              /\ hw["mode"] = HomeMode(freq) /\ Spares(prog, "mode")
              /\ Restores /\ freq \notin Direct =>
                    /\ ~valid /\ hw["demod"] = Boot /\ hw["filter"] # Standby
                    /\ Spares(prog, "demod") /\ Spares(prog, "filter")

\* That board's filter is never set.
E4000Filter == board = "e4000" => hw["filter"] = Boot /\ Spares(prog, "filter")

ISettings == AtRest /\ AtNext /\ AtBack /\ AtPlain /\ E4000Filter

\* A record that is done, or skipped, writes its value and nothing else.
LEMMA RecordWrites ==
  ASSUME ITypes, ShadowSound, Record
  PROVE  /\ prog # <<>> /\ prog' = Tail(prog)
         /\ hw'[Next1.reg] = Next1.val
         /\ \A r \in Regs : r # Next1.reg => hw'[r] = hw[r]
<1>1. /\ prog # <<>> /\ prog' = Tail(prog)
      /\ Next1.reg \in Regs /\ Next1.val \in Values[Next1.reg]
      /\ Next1.kind = "demod" <=> Next1.reg \notin TunerRegs
      /\ DOMAIN hw = Regs
  BY HeadIsTyped DEF Record, ITypes, TypeOK
<1>2. CASE Skipped
  <2>1. Next1.reg \in TunerRegs /\ shadow[Next1.reg] = Next1.val
    BY <1>1, <1>2 DEF Skipped
  <2>2. Next1.val # None
    BY <1>1, NoneIsUnknown
  <2>3. hw[Next1.reg] = Next1.val
    BY <2>1, <2>2 DEF ShadowSound
  <2> QED BY <1>1, <1>2, <2>3 DEF Record
<1>3. CASE ~Skipped
  BY <1>1, <1>3 DEF Record
<1> QED BY <1>2, <1>3

\* The records of the program under way, and those of its rest.
LEMMA RestOfProgram ==
  ASSUME prog \in Seq(Typed), prog # <<>>, prog' = Tail(prog)
  PROVE  /\ \A r, v : Leaves(prog, r, v) =>
                         Leaves(prog', r, v) \/ (Spares(prog', r) /\ Next1.reg = r /\ Next1.val = v)
         /\ \A r : Spares(prog, r) => Spares(prog', r) /\ Next1.reg # r
         /\ \A i \in DOMAIN prog' : \E j \in DOMAIN prog : prog'[i] = prog[j]
         /\ \E j \in DOMAIN prog : Next1 = prog[j]
<1> DEFINE n == Len(prog)
           q == prog'
<1>1. /\ n \in Nat \ {0} /\ DOMAIN prog = 1..n /\ DOMAIN q = 1..(n - 1)
      /\ \A i \in 1..(n - 1) : q[i] = prog[i + 1]
      /\ Next1 = prog[1]
  <2> HIDE DEF Typed
  <2> QED BY DEF Next1
<1> HIDE DEF n, q
<1>2. ASSUME NEW r, NEW v, Leaves(prog, r, v)
      PROVE  Leaves(q, r, v) \/ (Spares(q, r) /\ Next1.reg = r /\ Next1.val = v)
  <2>1. PICK i \in 1..n : /\ prog[i].reg = r /\ prog[i].val = v
                          /\ \A j \in 1..n : j > i => prog[j].reg # r
    BY <1>1, <1>2 DEF Leaves
  <2>2. CASE i = 1
    <3>1. \A j \in 1..(n - 1) : j + 1 \in 1..n /\ j + 1 > 1
      BY <1>1
    <3>2. Spares(q, r)
      BY <1>1, <2>1, <2>2, <3>1 DEF Spares
    <3> QED BY <1>1, <2>1, <2>2, <3>2
  <2>3. CASE i # 1
    <3>1. i - 1 \in 1..(n - 1) /\ q[i - 1] = prog[i]
      BY <1>1, <2>3
    <3>2. ASSUME NEW j \in 1..(n - 1), j > i - 1 PROVE q[j].reg # r
      <4>1. j + 1 \in 1..n /\ j + 1 > i
        BY <1>1, <3>2
      <4> QED BY <1>1, <2>1, <4>1
    <3> QED BY <1>1, <2>1, <3>1, <3>2 DEF Leaves
  <2> QED BY <2>2, <2>3
<1>3. ASSUME NEW r, Spares(prog, r)
      PROVE  Spares(q, r) /\ Next1.reg # r
  <2>1. \A i \in 1..(n - 1) : i + 1 \in 1..n
    BY <1>1
  <2>2. 1 \in 1..n
    BY <1>1
  <2> QED BY <1>1, <1>3, <2>1, <2>2 DEF Spares
<1>4. /\ \A i \in DOMAIN q : \E j \in DOMAIN prog : q[i] = prog[j]
      /\ \E j \in DOMAIN prog : Next1 = prog[j]
  <2>1. \A i \in 1..(n - 1) : i + 1 \in 1..n
    BY <1>1
  <2>2. 1 \in 1..n
    BY <1>1
  <2> QED BY <1>1, <2>1, <2>2
<1> QED BY <1>2, <1>3, <1>4 DEF q

\* A record that goes well does not change what a register will hold at the end.
LEMMA RecordEnds ==
  ASSUME ITypes, ShadowSound, Record
  PROVE  /\ \A v : \A r \in Regs : Ends(r, v) => Leaves(prog', r, v) \/ (Spares(prog', r) /\ hw'[r] = v)
         /\ \A r \in Regs : Spares(prog, r) => Spares(prog', r) /\ hw'[r] = hw[r]
BY RecordWrites, RestOfProgram DEF Ends, ITypes

\* An empty program has run.
LEMMA EndsNow ==
  ASSUME prog = <<>>
  PROVE  \A r, v : Ends(r, v) => hw[r] = v
BY DEF Ends, Leaves

\* A record that fails may have written its register, and no other.
LEMMA FailWrites ==
  ASSUME ITypes, Fails
  PROVE  \A r \in Regs : Spares(prog, r) => hw'[r] = hw[r]
<1>1. prog # <<>> /\ hw' \in {hw, [hw EXCEPT ![Next1.reg] = Next1.val]}
  BY DEF Fails
<1>2. \A r : Spares(prog, r) => Next1.reg # r
  <2>1. 1 \in DOMAIN prog /\ Next1 = prog[1]
    BY <1>1 DEF Next1, ITypes
  <2> QED BY <2>1 DEF Spares
<1> QED BY <1>1, <1>2 DEF ITypes, TypeOK

\* A filter on standby is not set to any plan.
LEMMA StandbyIsNoPlan == Standby \notin Plans
BY DEF Standby, Plans, Boot

\* Nothing that the settings are judged by changes.
LEMMA SettingsSame ==
  ASSUME ISettings, UNCHANGED <<board, hw, st, freq, applied, valid, job, prog>>,
         certain' = certain \/ certain' = FALSE
  PROVE  ISettings'
<1>1. Direct' = Direct /\ Restores' = Restores /\ HasWidths' = HasWidths
  BY SameBoard
<1>2. AtRest'
  BY <1>1 DEF ISettings, AtRest, Tuned, Ends, HomeMode, HasRoute, Settings, Plan
<1>3. AtNext'
  BY <1>1 DEF ISettings, AtNext, Tuned, Ends, HasRoute, Plan
<1>4. AtBack'
  BY <1>1 DEF ISettings, AtBack, Tuned, Ends, Plan
<1>5. AtPlain'
  BY <1>1 DEF ISettings, AtPlain, Ends, HasRoute, HomeMode
<1>6. E4000Filter'
  BY DEF ISettings, E4000Filter
<1> QED BY <1>2, <1>3, <1>4, <1>5, <1>6 DEF ISettings

\* At first there is no stream.
LEMMA SettingsStart == Init => ISettings
BY DEF Init, ISettings, AtRest, AtNext, AtBack, AtPlain, E4000Filter, NoJob, Spares, Regs, TunerRegs

\* No job, and no stream: nothing is claimed but the E4000's filter.
LEMMA SettingsNone ==
  ASSUME ITypes, ISettings, job'.phase = "none", prog' = <<>>, st' # "streaming", board' = board,
         Fails \/ (board = "e4000" => UNCHANGED hw)
  PROVE  ISettings'
<1>1. AtRest' /\ AtNext' /\ AtBack' /\ AtPlain'
  BY DEF AtRest, AtNext, AtBack, AtPlain
<1>2. E4000Filter'
  <2>1. Spares(prog', "filter")
    BY DEF Spares
  <2>2. Spares(prog, "filter") => hw'["filter"] = hw["filter"] \/ board # "e4000"
    BY FailWrites, RegNames
  <2> QED BY <2>1, <2>2 DEF ISettings, E4000Filter
<1> QED BY <1>1, <1>2 DEF ISettings

\* The stream resumes with settings that hold.
LEMMA SettingsRest ==
  ASSUME ITypes', job'.phase = "none", prog' = <<>>, st' = "streaming",
         hw'["mode"] = HomeMode(freq'), board' = board,
         Restores /\ ~valid' /\ freq' \notin Direct => hw'["demod"] = Boot /\ hw'["filter"] # Standby,
         valid' => /\ hw'["filter"] = Plan(applied'.w) /\ hw'["demod"] = Plan(applied'.w)
                   /\ hw'["pll"] = At(applied'.f, Plan(applied'.w)),
         certain' => IF freq' \in Direct THEN hw'["demod"] = Nco(freq')
                     ELSE hw'["pll"] = At(freq', hw'["demod"]) /\ hw'["filter"] # Standby,
         certain' /\ HasRoute => hw'["route"] = Route(freq'),
         board = "e4000" => hw'["filter"] = Boot
  PROVE  ISettings'
<1>1. Direct' = Direct /\ Restores' = Restores /\ HasWidths' = HasWidths
  BY SameBoard
<1>2. \A r : Spares(prog', r)
  BY DEF Spares
<1>3. DOMAIN prog' = {}
  OBVIOUS
<1>4. AtRest'
  BY <1>1, <1>2, <1>3 DEF AtRest, Tuned, Ends, HomeMode, HasRoute, Plan
<1>5. AtNext' /\ AtBack' /\ AtPlain'
  BY DEF AtNext, AtBack, AtPlain
<1>6. E4000Filter'
  BY <1>2 DEF E4000Filter
<1> QED BY <1>4, <1>5, <1>6 DEF ISettings

\* A request changes none of the settings.
LEMMA AskSettings ==
  ASSUME ISettings,
         \/ \E f \in Freqs : Retune(f)
         \/ \E w \in Widths : SetBandwidth(w)
         \/ SetAuto \/ SetGain
  PROVE  ISettings'
BY SettingsSame DEF Retune, SetBandwidth, SetAuto, SetGain, Ask

\* A stop ends the stream ...
LEMMA StopSettings == ASSUME ITypes, ISettings, Stop PROVE ISettings'
<1>1. job'.phase = "none" /\ prog' = <<>> /\ st' # "streaming" /\ board' = board
  BY DEF Stop, NoJob, ITypes, JobFits
<1>2. board = "e4000" => UNCHANGED hw
  BY DEF Stop
<1> QED BY <1>1, <1>2, SettingsNone

\* ... a start that fails has none ...
LEMMA FailStartSettings == ASSUME ITypes, ISettings, FailStart PROVE ISettings'
<1>1. job'.phase = "none" /\ prog' = <<>> /\ st' # "streaming" /\ board' = board /\ Fails
  BY DEF FailStart, Done, NoJob, ITypes, JobFits
<1> QED BY <1>1, SettingsNone

\* ... a fault ends it ...
LEMMA FaultSettings ==
  ASSUME ITypes, ISettings, Fails, Fault, board' = board
  PROVE  ISettings'
<1>1. job'.phase = "none" /\ prog' = <<>> /\ st' # "streaming"
  BY DEF Fault, Done, NoJob
<1> QED BY <1>1, SettingsNone

\* ... and so does a FIFO reset that fails.
LEMMA FifoSettings == ASSUME ITypes, ISettings, FifoFails PROVE ISettings'
<1>1. job'.phase = "none" /\ prog' = <<>> /\ st' # "streaming" /\ board' = board /\ UNCHANGED hw
  BY DEF FifoFails, Done, NoJob
<1> QED BY <1>1, SettingsNone

\* No record fails on the way into or out of direct sampling: by assumption, or
\* because no board of the instance has it.
Uncrossed == CrossFaults => Boards \cap {"v3", "nooelec"} = {}

\* A plain retune that did not cross fails: the route is as it was.
LEMMA FailPlainSettings ==
  ASSUME Uncrossed, ITypes, ITypes', ISettings, FailPlain
  PROVE  ISettings'
<1>1. Fails /\ job.kind = "retune" /\ job.phase = "plain" /\ UNCHANGED <<board, ops>>
      /\ st = "streaming"
  BY DEF FailPlain, ITypes, JobFits
<1>2. CASE board = "e4000"
  BY <1>1, <1>2, FaultSettings DEF FailPlain
<1>3. CASE board # "e4000"
  <2>1. /\ job'.phase = "none" /\ prog' = <<>> /\ certain' = FALSE
        /\ UNCHANGED <<st, freq, applied, valid>>
    BY <1>3 DEF FailPlain, Failed, Done, NoJob
  <2>2. board \in Boards \cap {"v3", "nooelec"}
    BY <1>1, <1>3, TunerSets DEF ISettings, AtPlain, HasRoute, ITypes, TypeOK
  <2>3. Restores /\ (job.f \in Direct <=> freq \in Direct)
    BY <1>1, <2>2 DEF Restores, Fails, Crossing, Uncrossed
  <2>4. /\ hw["mode"] = HomeMode(freq) /\ Spares(prog, "mode")
        /\ Restores /\ freq \notin Direct =>
              /\ ~valid /\ hw["demod"] = Boot /\ hw["filter"] # Standby
              /\ Spares(prog, "demod") /\ Spares(prog, "filter")
    BY <1>1, <2>3 DEF ISettings, AtPlain
  <2>5. ~valid
    BY <1>1, <2>4, <2>3, Offers DEF ITypes, TypeOK, JobFits
  <2>6. \A r \in Regs : Spares(prog, r) => hw'[r] = hw[r]
    BY <1>1, FailWrites
  <2>7. hw'["mode"] = HomeMode(freq)
    BY <2>4, <2>6, RegNames
  <2>8. freq \notin Direct => hw'["demod"] = Boot /\ hw'["filter"] # Standby
    BY <2>4, <2>3, <2>6, RegNames
  <2> QED BY <1>1, <1>3, <2>1, <2>5, <2>7, <2>8, SettingsRest
<1> QED BY <1>2, <1>3

\* Put back, the stream resumes with the width of before.
LEMMA BackSettings ==
  ASSUME ITypes, ITypes', ISettings, BackRan
  PROVE  ISettings'
<1>1. /\ prog = <<>> /\ job.phase = "back" /\ job'.phase = "none" /\ prog' = <<>> /\ certain' = FALSE
      /\ UNCHANGED <<board, hw, st, freq, applied, valid>>
  BY DEF BackRan, Ran, Failed, Done, NoJob
<1>2. valid /\ Tuned(applied.f, Plan(applied.w)) /\ hw["mode"] = Native
  BY <1>1 DEF ISettings, AtBack
<1>3. /\ hw["filter"] = Plan(applied.w) /\ hw["demod"] = Plan(applied.w)
      /\ hw["pll"] = At(applied.f, Plan(applied.w))
  BY <1>1, <1>2, EndsNow DEF Tuned
<1>4. st = "streaming" /\ freq \notin Direct /\ HasWidths
  <2>1. st = "streaming" /\ applied.f = freq /\ applied.w \in Offered(applied.f)
    BY <1>1, <1>2 DEF ITypes, JobFits, JobTyped, TypeOK
  <2> QED BY <2>1, Offers
<1> QED BY <1>1, <1>2, <1>3, <1>4, SettingsRest DEF HomeMode, HasWidths

\* A width program begins.
LEMMA SettingsNext ==
  ASSUME NEW f, NEW w,
         job'.phase = "next", job'.f = f, job'.w = w, board' = board, board # "e4000",
         Leaves(prog', "filter", Plan(w)), Leaves(prog', "demod", Plan(w)),
         Leaves(prog', "pll", At(f, Plan(w))),
         HasRoute => Leaves(prog', "route", Route(f)),
         Leaves(prog', "mode", Native) \/ (Spares(prog', "mode") /\ hw'["mode"] = Native),
         job'.kind # "start" /\ freq' \notin Direct => hw'["mode"] = Native /\ Spares(prog', "mode")
  PROVE  ISettings'
<1>1. Direct' = Direct /\ Restores' = Restores /\ HasWidths' = HasWidths
  BY SameBoard
<1>2. AtRest' /\ AtBack' /\ AtPlain'
  BY DEF AtRest, AtBack, AtPlain
<1>3. AtNext'
  BY <1>1 DEF AtNext, Tuned, Ends, HasRoute, Plan
<1>4. E4000Filter'
  BY DEF E4000Filter
<1> QED BY <1>2, <1>3, <1>4 DEF ISettings

\* The program of a width at the frequency of now, whose route stands.
LEMMA ControlsNext ==
  ASSUME ITypes, ISettings, job.phase \in {"none", "width"}, st = "streaming",
         NEW w \in Offered(freq), prog' = Program(freq, freq, w),
         job'.phase = "next", job'.f = freq, job'.w = w, UNCHANGED <<board, hw, freq>>
  PROVE  ISettings'
<1>1. freq \in Freqs \ Direct /\ Plan(w) \in Plans /\ board # "e4000"
  BY Offers, PlansHold DEF ITypes, TypeOK, HasWidths
<1>2. hw["mode"] = Native
  BY <1>1 DEF ISettings, AtRest, HomeMode
<1>3. LET q == Program(freq, freq, w) IN
      /\ Leaves(q, "filter", Plan(w)) /\ Leaves(q, "demod", Plan(w))
      /\ Leaves(q, "pll", At(freq, Plan(w)))
      /\ board \in {"v4", "v4l"} => Leaves(q, "route", Route(freq))
      /\ Spares(q, "mode")
  BY <1>1, ProgramLeaves
<1>4. PICK q : q = Program(freq, freq, w)
  OBVIOUS
<1>5. /\ prog' = q /\ Leaves(q, "filter", Plan(w)) /\ Leaves(q, "demod", Plan(w))
      /\ Leaves(q, "pll", At(freq, Plan(w)))
      /\ HasRoute => Leaves(q, "route", Route(freq))
      /\ Spares(q, "mode")
  BY <1>3, <1>4 DEF HasRoute
<1> QED BY <1>1, <1>2, <1>5, SettingsNext

\* A gain program begins, is repeated or has failed: what it touches is not judged.
LEMMA SettingsGain ==
  ASSUME ITypes, ISettings, job.phase \in {"none", "gain"}, st = "streaming", NEW g,
         prog' = <<>> \/ prog' = GainRecords(g), job'.phase = "gain",
         UNCHANGED <<board, st, freq, applied, valid, certain>>,
         UNCHANGED hw \/ Fails, board = "e4000" => UNCHANGED hw
  PROVE  ISettings'
<1>1. Direct' = Direct /\ Restores' = Restores /\ HasWidths' = HasWidths
  BY SameBoard
<1>2. PICK q : q = GainRecords(g)
  OBVIOUS
<1>3. \A r : r \notin {"agc", "route"} => Spares(q, r)
  BY <1>2, GainLeaves
<1>4. \A r \in Settings : Spares(prog', r)
  <2>1. CASE prog' = <<>>
    BY <2>1 DEF Spares
  <2>2. CASE prog' = q
    BY <1>3, <2>2 DEF Settings
  <2> QED BY <1>2, <2>1, <2>2
<1>5. \A i \in DOMAIN prog' : prog'[i].reg = "route" => prog'[i].val = Route(freq)
  <2>1. CASE prog' = <<>>
    BY <2>1
  <2>2. CASE prog' = GainRecords(g)
    BY <2>2 DEF GainRecords, E4000Gain, W
  <2> QED BY <2>1, <2>2
<1>6. /\ \A r \in Settings : Spares(prog, r)
      /\ hw["mode"] = HomeMode(freq)
      /\ Restores /\ ~valid /\ freq \notin Direct => hw["demod"] = Boot /\ hw["filter"] # Standby
      /\ valid => Tuned(applied.f, Plan(applied.w))
      /\ certain => IF freq \in Direct THEN hw["demod"] = Nco(freq)
                    ELSE hw["pll"] = At(freq, hw["demod"]) /\ hw["filter"] # Standby
      /\ certain /\ HasRoute => hw["route"] = Route(freq)
      /\ \A i \in DOMAIN prog : prog[i].reg = "route" => prog[i].val = Route(freq)
  BY DEF ISettings, AtRest
<1>7. \A r \in Settings : hw'[r] = hw[r]
  BY <1>6, FailWrites DEF Settings, Regs, TunerRegs
<1>8. \A v : \A r \in Settings : Ends(r, v) => hw[r] = v
  BY <1>6 DEF Ends, Leaves, Spares
<1>9. certain /\ HasRoute => hw'["route"] = Route(freq)
  <2>1. CASE UNCHANGED hw
    BY <1>6, <2>1
  <2>2. CASE Fails
    <3>1. prog # <<>> /\ hw' \in {hw, [hw EXCEPT ![Next1.reg] = Next1.val]}
      BY <2>2 DEF Fails
    <3>2. 1 \in DOMAIN prog /\ Next1 = prog[1]
      BY <3>1 DEF Next1, ITypes
    <3>3. Next1.reg = "route" => Next1.val = Route(freq)
      BY <1>6, <3>2
    <3> QED BY <1>6, <3>1, <3>3, RegNames DEF ITypes, TypeOK
  <2> QED BY <2>1, <2>2
<1>10. {"filter", "demod", "pll", "mode"} \subseteq Settings
  BY DEF Settings
<1>11. AtRest'
  BY <1>1, <1>4, <1>5, <1>6, <1>7, <1>8, <1>9, <1>10 DEF AtRest, Tuned, Ends, HomeMode, HasRoute, Plan
<1>12. AtNext' /\ AtBack' /\ AtPlain'
  BY DEF AtNext, AtBack, AtPlain
<1>13. E4000Filter'
  BY <1>4, <1>10 DEF ISettings, E4000Filter
<1> QED BY <1>11, <1>12, <1>13 DEF ISettings

\* Queued controls begin with a gain program, a width program or neither.
LEMMA ControlsSettings == ASSUME ITypes, ISettings, BeginControls PROVE ISettings'
<1>1. /\ st = "streaming" /\ job = NoJob /\ job.phase = "none"
      /\ UNCHANGED <<board, hw, st, freq, applied, valid>>
  BY DEF BeginControls, NoJob
<1>2. CASE gain # "none"
  <2>1. prog' = GainRecords(gain) /\ job'.phase = "gain" /\ UNCHANGED certain
    BY <1>2 DEF BeginControls, NoJob
  <2> QED BY <1>1, <2>1, SettingsGain
<1>3. CASE gain = "none" /\ want \in Offered(freq)
  <2>1. /\ prog' = Program(freq, freq, want) /\ job'.phase = "next" /\ job'.f = freq
        /\ job'.w = want
    BY <1>3 DEF BeginControls, NoJob
  <2> QED BY <1>1, <1>3, <2>1, ControlsNext
<1>4. CASE gain = "none" /\ want \notin Offered(freq)
  BY <1>1, <1>4, SettingsSame DEF BeginControls
<1> QED BY <1>2, <1>3, <1>4

\* The width program behind a gain.
LEMMA BeginWidthSettings == ASSUME ITypes, ISettings, BeginWidth PROVE ISettings'
<1>1. /\ st = "streaming" /\ job.f = freq /\ job.phase = "width" /\ job.w \in Offered(freq)
      /\ UNCHANGED <<board, hw, freq>>
      /\ prog' = Program(freq, freq, job.w)
      /\ job'.phase = "next" /\ job'.f = freq /\ job'.w = job.w
  BY DEF BeginWidth, Ran, ITypes, JobFits, JobTyped
<1> QED BY <1>1, ControlsNext

\* A gain that is done leaves the settings alone ...
LEMMA GainRanSettings == ASSUME ITypes, ISettings, GainRan PROVE ISettings'
<1>1. /\ prog = <<>> /\ prog' = <<>> /\ job.phase = "gain" /\ job'.phase \in {"none", "width"}
      /\ UNCHANGED <<board, hw, st, freq, applied, valid>>
  BY DEF GainRan, Ran, Done, NoJob, ITypes, JobTyped
<1>6. certain' => certain
  BY DEF GainRan
<1>2. Direct' = Direct /\ Restores' = Restores /\ HasWidths' = HasWidths
  BY <1>1, SameBoard
<1>3. AtRest'
  BY <1>1, <1>2, <1>6 DEF ISettings, AtRest, Tuned, Ends, HomeMode, HasRoute, Settings, Plan
<1>4. AtNext' /\ AtBack' /\ AtPlain'
  BY <1>1 DEF AtNext, AtBack, AtPlain
<1>5. E4000Filter'
  BY <1>1 DEF ISettings, E4000Filter
<1> QED BY <1>3, <1>4, <1>5 DEF ISettings

\* ... and one that fails is tried again, dropped, or a fault.
LEMMA FailGainSettings == ASSUME ITypes, ISettings, FailGain PROVE ISettings'
<1>1. /\ Fails /\ job.phase = "gain" /\ st = "streaming" /\ board' = board
  BY DEF FailGain, ITypes, JobFits, JobTyped
<1>2. CASE board = "e4000"
  BY <1>1, <1>2, FaultSettings DEF FailGain
<1>3. CASE board # "e4000"
  <2>1. UNCHANGED <<st, freq, applied, valid, certain>>
    BY <1>3 DEF FailGain
  <2>2. (prog' = GainRecords(job.gain) \/ prog' = <<>>) /\ job'.phase = "gain"
    BY <1>1, <1>3 DEF FailGain, ITypes, JobTyped
  <2> QED BY <1>1, <1>3, <2>1, <2>2, SettingsGain
<1> QED BY <1>2, <1>3

\* What a width program has left, in the registers.
LEMMA NextRan ==
  ASSUME ISettings, job.phase = "next", prog = <<>>
  PROVE  /\ hw["filter"] = Plan(job.w) /\ hw["demod"] = Plan(job.w)
         /\ hw["pll"] = At(job.f, Plan(job.w)) /\ hw["mode"] = Native
         /\ HasRoute => hw["route"] = Route(job.f)
BY EndsNow DEF ISettings, AtNext, Tuned

\* A width that is done is the one reported.
LEMMA WidthRanSettings == ASSUME ITypes, ITypes', ISettings, WidthRan PROVE ISettings'
<1>1. /\ prog = <<>> /\ prog' = <<>> /\ job.phase = "next" /\ job'.phase = "none"
      /\ UNCHANGED <<board, hw, st, freq>> /\ valid' = TRUE
      /\ applied'.f = job.f /\ applied'.w = job.w /\ job.f = freq /\ st = "streaming"
      /\ job.w \in Offered(freq)
  BY DEF WidthRan, Ran, Done, NoJob, ITypes, JobTyped, JobFits
<1>2. freq \notin Direct /\ HasWidths /\ Plan(job.w) \in Plans
  BY <1>1, Offers, PlansHold
<1>3. /\ hw["filter"] = Plan(job.w) /\ hw["demod"] = Plan(job.w)
      /\ hw["pll"] = At(freq, Plan(job.w)) /\ hw["mode"] = Native
      /\ HasRoute => hw["route"] = Route(freq)
  BY <1>1, NextRan
<1> QED BY <1>1, <1>2, <1>3, StandbyIsNoPlan, SettingsRest DEF HomeMode, HasWidths

\* What a plain program has left.
LEMMA PlainRan ==
  ASSUME ISettings, job.phase = "plain", prog = <<>>
  PROVE  /\ ~HasRoute /\ hw["mode"] = HomeMode(job.f)
         /\ job.f \in Direct => hw["demod"] = Nco(job.f)
         /\ job.f \notin Direct => /\ hw["demod"] = Boot /\ hw["pll"] = At(job.f, Boot)
                                   /\ hw["filter"] \in Plans
BY EndsNow DEF ISettings, AtPlain, HomeMode

\* A start or a retune that went well: the frequency is the job's.
LEMMA MovedSettings ==
  ASSUME ITypes, ITypes', ISettings, prog = <<>>, job.phase \in {"next", "plain"},
         job'.phase = "none", prog' = <<>>, st' = "streaming", freq' = job.f,
         UNCHANGED <<board, hw>>,
         job.phase = "next" => valid' = TRUE /\ applied'.f = job.f /\ applied'.w = job.w,
         job.phase = "plain" => valid' = FALSE
  PROVE  ISettings'
<1>1. board = "e4000" => hw["filter"] = Boot
  BY DEF ISettings, E4000Filter
<1>2. CASE job.phase = "next"
  <2>1. job.w \in Offered(job.f)
    BY <1>2 DEF ITypes, JobTyped
  <2>2. job.f \notin Direct /\ Plan(job.w) \in Plans
    BY <2>1, Offers, PlansHold
  <2>3. /\ hw["filter"] = Plan(job.w) /\ hw["demod"] = Plan(job.w)
        /\ hw["pll"] = At(job.f, Plan(job.w)) /\ hw["mode"] = Native
        /\ HasRoute => hw["route"] = Route(job.f)
    BY <1>2, NextRan
  <2> QED BY <1>1, <1>2, <2>2, <2>3, StandbyIsNoPlan, SettingsRest DEF HomeMode
<1>3. CASE job.phase = "plain"
  <2>1. /\ ~HasRoute /\ hw["mode"] = HomeMode(job.f)
        /\ job.f \in Direct => hw["demod"] = Nco(job.f)
        /\ job.f \notin Direct => /\ hw["demod"] = Boot /\ hw["pll"] = At(job.f, Boot)
                                  /\ hw["filter"] \in Plans
    BY <1>3, PlainRan
  <2> QED BY <1>1, <1>3, <2>1, StandbyIsNoPlan, SettingsRest
<1> QED BY <1>2, <1>3

\* A start that is done has the settings it reports ...
LEMMA StartRanSettings == ASSUME ITypes, ITypes', ISettings, StartRan PROVE ISettings'
<1>1. /\ prog = <<>> /\ prog' = <<>> /\ job'.phase = "none" /\ st' = "streaming" /\ freq' = job.f
      /\ UNCHANGED <<board, hw>>
      /\ job.kind = "start" /\ st = "idle" /\ job.phase \in {"next", "plain"}
  BY DEF StartRan, Done, NoJob, ITypes, JobFits
<1>2. job.w # None <=> job.phase = "next"
  BY <1>1 DEF ITypes, JobTyped
<1>3. job.phase = "next" => valid' = TRUE /\ applied'.f = job.f /\ applied'.w = job.w
  BY <1>2 DEF StartRan
<1>4. job.phase = "plain" => valid' = FALSE
  <2>1. valid = FALSE
    BY <1>1 DEF ITypes, TypeOK, JobFits
  <2> QED BY <1>2, <2>1 DEF StartRan
<1> QED BY <1>1, <1>3, <1>4, MovedSettings

\* ... and so has a retune.
LEMMA RetuneRanSettings == ASSUME ITypes, ITypes', ISettings, RetuneRan PROVE ISettings'
<1>1. /\ prog = <<>> /\ prog' = <<>> /\ job'.phase = "none" /\ st' = "streaming" /\ freq' = job.f
      /\ UNCHANGED <<board, hw>> /\ job.phase \in {"next", "plain"}
  BY DEF RetuneRan, Ran, Done, NoJob, ITypes, JobFits
<1>2. /\ job.phase = "next" => valid' = TRUE /\ applied'.f = job.f /\ applied'.w = job.w
      /\ job.phase = "plain" => valid' = FALSE
  BY DEF RetuneRan
<1> QED BY <1>1, <1>2, MovedSettings

(***************************************************************************)
(* Start, retune and rollback begin.                                       *)
(***************************************************************************)

\* A plain program begins.
LEMMA SettingsPlain ==
  ASSUME NEW f, job'.phase = "plain", job'.f = f, board' = board, ~HasRoute,
         f \in Direct => /\ Leaves(prog', "demod", Nco(f))
                         /\ Leaves(prog', "mode", DirectIn) \/ (Spares(prog', "mode") /\ hw'["mode"] = DirectIn),
         f \notin Direct =>
            /\ Leaves(prog', "mode", Native) \/ (Spares(prog', "mode") /\ hw'["mode"] = Native)
            /\ Leaves(prog', "demod", Boot) \/ (Spares(prog', "demod") /\ hw'["demod"] = Boot)
            /\ Leaves(prog', "pll", At(f, Boot))
            /\ Leaves(prog', "filter", Boot) \/ (Spares(prog', "filter") /\ hw'["filter"] \in Plans),
         job'.kind = "retune" /\ (f \in Direct <=> freq' \in Direct) =>
            /\ hw'["mode"] = HomeMode(freq') /\ Spares(prog', "mode")
            /\ Restores /\ freq' \notin Direct =>
                  /\ ~valid' /\ hw'["demod"] = Boot /\ hw'["filter"] # Standby
                  /\ Spares(prog', "demod") /\ Spares(prog', "filter"),
         board = "e4000" => hw'["filter"] = Boot /\ Spares(prog', "filter")
  PROVE  ISettings'
<1>1. Direct' = Direct /\ Restores' = Restores /\ HasWidths' = HasWidths
  BY SameBoard
<1>2. AtRest' /\ AtNext' /\ AtBack'
  BY DEF AtRest, AtNext, AtBack
<1>3. f \notin Direct => \E v \in Plans : Leaves(prog', "filter", v) \/ (Spares(prog', "filter") /\ hw'["filter"] = v)
  BY PlansHold
<1>4. AtPlain'
  BY <1>1, <1>3 DEF AtPlain, Ends, HasRoute, HomeMode
<1>5. E4000Filter'
  BY DEF E4000Filter
<1> QED BY <1>2, <1>4, <1>5 DEF ISettings

\* The program of a start leaves the settings of its frequency.
LEMMA StartSettings ==
  ASSUME ITypes, ISettings, NEW f \in Freqs, Start(f)
  PROVE  ISettings'
<1>1. /\ UNCHANGED <<board, hw, st, freq, valid>> /\ prog' = StartRecords(f) /\ job'.kind = "start"
      /\ job'.f = f /\ board \in Boards
  BY DEF Start, NoJob, ITypes, TypeOK
<1>2. board = "e4000" => hw["filter"] = Boot
  BY DEF ISettings, E4000Filter
<1>3. PICK q : q = StartRecords(f)
  OBVIOUS
<1>4. CASE ~Restores /\ Offered(f) # {}
  <2>1. job'.phase = "next" /\ job'.w = 0
    BY <1>4 DEF Start, NoJob
  <2>2. board # "e4000"
    BY <1>4, Offers DEF HasWidths
  <2>3. /\ Leaves(q, "filter", Plan(0)) /\ Leaves(q, "demod", Plan(0))
        /\ Leaves(q, "pll", At(f, Plan(0))) /\ Leaves(q, "mode", Native)
        /\ HasRoute => Leaves(q, "route", Route(f))
    BY <1>3, <1>4, StartLeavesWidth DEF HasRoute
  <2> QED BY <1>1, <1>3, <2>1, <2>2, <2>3, SettingsNext
<1>5. CASE ~(~Restores /\ Offered(f) # {})
  <2>1. job'.phase = "plain"
    BY <1>5 DEF Start, NoJob
  <2>2. Restores \/ board = "e4000"
    BY <1>5, Offers DEF HasWidths, Direct
  <2>3. /\ f \in Direct => Leaves(q, "demod", Nco(f)) /\ Leaves(q, "mode", DirectIn)
        /\ f \notin Direct => /\ Leaves(q, "demod", Boot) /\ Leaves(q, "mode", Native)
                              /\ Leaves(q, "pll", At(f, Boot))
                              /\ board # "e4000" => Leaves(q, "filter", Boot)
                              /\ board = "e4000" => Spares(q, "filter")
    BY <1>3, <2>2, StartLeavesPlain
  <2>4. ~HasRoute /\ (board = "e4000" => f \notin Direct) /\ Boot \in Plans
    BY <2>2, DirectRestores, PlansHold DEF HasRoute
  <2> QED BY <1>1, <1>2, <1>3, <2>1, <2>3, <2>4, SettingsPlain
<1> QED BY <1>4, <1>5

\* The program of a retune leaves those of the new one.
LEMMA RetuneSettings == ASSUME ITypes, ISettings, BeginRetune PROVE ISettings'
<1> DEFINE w == IF want \in Offered(retune) THEN want ELSE 0
<1>1. /\ UNCHANGED <<board, hw, st, freq, valid>> /\ st = "streaming" /\ job.phase = "none"
      /\ retune \in Freqs /\ freq \in Freqs /\ DOMAIN hw = Regs /\ \A r \in Regs : hw[r] \in Values[r]
  BY DEF BeginRetune, NoJob, ITypes, TypeOK
<1>2. PICK f : f = retune
  OBVIOUS
<1>3. /\ hw["mode"] = HomeMode(freq)
      /\ Restores /\ ~valid /\ freq \notin Direct => hw["demod"] = Boot /\ hw["filter"] # Standby
      /\ board = "e4000" => hw["filter"] = Boot
  BY <1>1 DEF ISettings, AtRest, E4000Filter
<1>4. CASE Measured(retune)
  <2>1. /\ prog' = Program(f, freq, w) /\ job'.phase = "next" /\ job'.w = w /\ job'.f = f
    BY <1>2, <1>4 DEF BeginRetune, NoJob
  <2>2. w \in Offered(f)
    BY <1>2, <1>4, Offers DEF Measured
  <2> HIDE DEF w
  <2>3. f \in Freqs \ Direct /\ Plan(w) \in Plans /\ board # "e4000"
    BY <1>1, <1>2, <2>2, Offers, PlansHold DEF HasWidths
  <2>4. PICK q : q = Program(f, freq, w)
    OBVIOUS
  <2>5. /\ Leaves(q, "filter", Plan(w)) /\ Leaves(q, "demod", Plan(w))
        /\ Leaves(q, "pll", At(f, Plan(w)))
        /\ HasRoute => Leaves(q, "route", Route(f))
        /\ freq \in Direct => Leaves(q, "mode", Native)
        /\ freq \notin Direct => Spares(q, "mode")
    BY <2>3, <2>4, ProgramLeaves DEF HasRoute
  <2>6. freq \notin Direct => hw["mode"] = Native
    BY <1>3 DEF HomeMode
  <2> QED BY <1>1, <2>1, <2>3, <2>4, <2>5, <2>6, SettingsNext
<1>5. CASE ~Measured(retune)
  <2>1. /\ prog' = Plain(f, freq) /\ job'.phase = "plain" /\ job'.f = f
    BY <1>2, <1>5 DEF BeginRetune, NoJob
  <2>2. /\ Restores \/ board = "e4000"
        /\ Restores /\ f \notin Direct => ~valid
    <3>1. Offered(f) # {} <=> HasWidths /\ f \notin Direct
      BY Offers
    <3>2. Offered(f) = {} \/ (Restores /\ ~valid)
      BY <1>2, <1>5 DEF Measured
    <3> QED BY <3>1, <3>2, DirectRestores DEF HasWidths
  <2>3. board \notin {"v4", "v4l"} /\ ~HasRoute /\ (board = "e4000" => f \notin Direct /\ freq \notin Direct)
    BY <2>2, DirectRestores DEF HasRoute
  <2>4. PICK q : q = Tune(f, freq, Boot)
    OBVIOUS
  <2>5. prog' = q
    BY <1>1, <1>2, <2>1, <2>3, <2>4, PlainIsTune
  <2>6. /\ f \in Direct => /\ Leaves(q, "demod", Nco(f))
                           /\ freq \in Direct => Spares(q, "mode")
                           /\ freq \notin Direct => Leaves(q, "mode", DirectIn)
        /\ f \notin Direct /\ freq \in Direct =>
              /\ Leaves(q, "pll", At(f, Boot)) /\ Leaves(q, "filter", Boot)
              /\ Leaves(q, "demod", Boot) /\ Leaves(q, "mode", Native)
        /\ f \notin Direct /\ freq \notin Direct =>
              /\ Leaves(q, "pll", At(f, Boot)) /\ Spares(q, "filter") /\ Spares(q, "mode")
              /\ board # "e4000" => Spares(q, "demod")
              /\ board = "e4000" => Leaves(q, "demod", Boot)
    BY <1>1, <1>2, <2>4, PlansHold, TuneLeaves
  <2>7. hw["filter"] # Standby => hw["filter"] \in Plans
    BY <1>1 DEF Values, Regs, TunerRegs
  <2>8. Boot \in Plans /\ (board = "e4000" => ~Restores)
    BY PlansHold, DirectRestores
  <2>9. CASE f \in Direct
    <3>1. job'.kind = "retune" /\ (f \in Direct <=> freq \in Direct) =>
            hw["mode"] = HomeMode(freq) /\ Spares(q, "mode") /\ freq \in Direct
      BY <1>3, <2>6, <2>9
    <3>2. freq \in Direct => hw["mode"] = DirectIn
      BY <1>3 DEF HomeMode
    <3> QED BY <1>1, <2>1, <2>3, <2>5, <2>6, <2>9, <3>1, <3>2, SettingsPlain
  <2>10. CASE f \notin Direct /\ freq \in Direct
    BY <1>1, <2>1, <2>3, <2>5, <2>6, <2>8, <2>10, SettingsPlain
  <2>11. CASE f \notin Direct /\ freq \notin Direct
    <3>1. hw["mode"] = Native
      BY <1>3, <2>11 DEF HomeMode
    <3>2. hw["filter"] \in Plans /\ (Restores => ~valid /\ hw["demod"] = Boot /\ hw["filter"] # Standby)
      BY <1>3, <2>2, <2>7, <2>8, <2>11
    <3>3. Restores => board # "e4000"
      BY DirectRestores
    <3>4. board # "e4000" => Restores
      BY <2>2
    <3> QED BY <1>1, <1>3, <2>1, <2>3, <2>5, <2>6, <2>11, <3>1, <3>2, <3>3, <3>4, SettingsPlain
  <2> QED BY <2>9, <2>10, <2>11
<1> QED BY <1>4, <1>5

\* A width program has failed, and that of the width before begins.
LEMMA FailWidthSettings ==
  ASSUME ITypes, ISettings, FailWidth
  PROVE  ISettings'
<1>1. Fails /\ board' = board /\ job.kind # "start" /\ job.phase \in {"next", "back"}
  BY DEF FailWidth
<1>2. CASE job.phase = "back" \/ ~valid
  BY <1>1, <1>2, FaultSettings DEF FailWidth
<1>3. CASE ~(job.phase = "back" \/ ~valid)
  <2>1. /\ job'.phase = "back" /\ prog' = Program(applied.f, job.f, applied.w)
        /\ UNCHANGED <<freq, applied, valid>>
    BY <1>3 DEF FailWidth, ITypes, JobTyped
  <2>2. valid /\ applied.w \in Offered(applied.f) /\ applied.f = freq /\ freq \in Freqs
        /\ job.w \in Offered(job.f)
    BY <1>1, <1>3 DEF ITypes, TypeOK, JobFits, JobTyped
  <2>3. /\ applied.f \in Freqs \ Direct /\ Plan(applied.w) \in Plans /\ job.f \notin Direct
        /\ board # "e4000"
    BY <2>2, Offers, PlansHold DEF HasWidths
  <2>4. PICK q : q = Program(applied.f, job.f, applied.w)
    OBVIOUS
  <2>5. /\ Leaves(q, "filter", Plan(applied.w)) /\ Leaves(q, "demod", Plan(applied.w))
        /\ Leaves(q, "pll", At(applied.f, Plan(applied.w)))
        /\ Spares(q, "mode")
    BY <2>3, <2>4, ProgramLeaves
  <2>6. hw["mode"] = Native /\ Spares(prog, "mode")
    BY <1>1, <1>3, <2>2, <2>3 DEF ISettings, AtNext
  <2>7. hw'["mode"] = Native
    BY <1>1, <2>6, FailWrites, RegNames
  <2>8. AtBack'
    BY <1>1, <2>1, <2>2, <2>4, <2>5, <2>7 DEF AtBack, Tuned, Ends, Plan
  <2>9. AtRest' /\ AtNext' /\ AtPlain'
    BY <2>1 DEF AtRest, AtNext, AtPlain
  <2>10. E4000Filter'
    BY <1>1, <2>3 DEF E4000Filter
  <2> QED BY <2>8, <2>9, <2>10 DEF ISettings
<1> QED BY <1>2, <1>3

\* A record changes what a register holds, and not what it will hold in the end.
LEMMA RecordSettings ==
  ASSUME ITypes, ShadowSound, ISettings, Record
  PROVE  ISettings'
<1>1. /\ UNCHANGED <<board, st, freq, applied, valid, certain, job>>
      /\ prog # <<>> /\ prog' = Tail(prog)
  BY DEF Record
<1>2. Direct' = Direct /\ Restores' = Restores /\ HasWidths' = HasWidths
  BY <1>1, SameBoard
<1>3. \A v : \A r \in Regs : Ends(r, v) => Ends(r, v)'
  BY RecordEnds DEF Ends
<1>4. \A r \in Regs : Spares(prog, r) => Spares(prog', r) /\ hw'[r] = hw[r]
  BY RecordEnds
<1>5. {"filter", "demod", "pll", "mode", "route"} \subseteq Regs
  BY DEF Regs, TunerRegs
<1>6. \A p : Plan(p)' = Plan(p)
  BY <1>1 DEF Plan
<1>7. \A f, p : Tuned(f, p) => Tuned(f, p)'
  BY <1>3, <1>5 DEF Tuned
<1>8. AtRest'
  <2> SUFFICES ASSUME st = "streaming", job.phase \in {"none", "gain", "width"}
               PROVE  AtRest'
    BY <1>1 DEF AtRest
  <2>1. /\ \A r \in Settings : Spares(prog, r)
        /\ hw["mode"] = HomeMode(freq)
        /\ Restores /\ ~valid /\ freq \notin Direct => hw["demod"] = Boot /\ hw["filter"] # Standby
        /\ valid => Tuned(applied.f, Plan(applied.w))
        /\ certain => IF freq \in Direct THEN hw["demod"] = Nco(freq)
                      ELSE hw["pll"] = At(freq, hw["demod"]) /\ hw["filter"] # Standby
        /\ certain /\ HasRoute => hw["route"] = Route(freq)
        /\ \A i \in DOMAIN prog : prog[i].reg = "route" => prog[i].val = Route(freq)
    BY DEF ISettings, AtRest
  <2>2. \A r \in Settings : Spares(prog', r) /\ hw'[r] = hw[r]
    BY <1>4, <1>5, <2>1 DEF Settings
  <2>3. {"filter", "demod", "pll", "mode"} \subseteq Settings
    BY DEF Settings
  <2>4. \A i \in DOMAIN prog' : prog'[i].reg = "route" => prog'[i].val = Route(freq)
    BY <1>1, <2>1, RestOfProgram DEF ITypes
  <2>5. certain /\ HasRoute => hw'["route"] = Route(freq)
    <3>1. Next1.reg = "route" => Next1.val = Route(freq)
      BY <1>1, <2>1, RestOfProgram DEF ITypes
    <3> QED BY <1>5, <2>1, <3>1, RecordWrites
  <2>6. (valid => Tuned(applied.f, Plan(applied.w)))'
    BY <1>1, <1>6, <1>7, <2>1
  <2> QED BY <1>1, <1>2, <2>1, <2>2, <2>3, <2>4, <2>5, <2>6 DEF AtRest, HomeMode, HasRoute
<1>9. AtNext'
  <2>1. (job.phase = "next" => Tuned(job.f, Plan(job.w)))'
    BY <1>1, <1>6, <1>7 DEF ISettings, AtNext
  <2> QED BY <1>1, <1>2, <1>3, <1>4, <1>5, <2>1 DEF ISettings, AtNext, HasRoute
<1>10. AtBack'
  <2>1. (job.phase = "back" => Tuned(applied.f, Plan(applied.w)))'
    BY <1>1, <1>6, <1>7 DEF ISettings, AtBack
  <2> QED BY <1>1, <1>4, <1>5, <2>1 DEF ISettings, AtBack
<1>11. AtPlain'
  <2> SUFFICES ASSUME job.phase = "plain" PROVE AtPlain'
    BY <1>1 DEF AtPlain
  <2> DEFINE f == job.f
  <2>1. /\ ~HasRoute
        /\ f \in Direct => Ends("mode", DirectIn) /\ Ends("demod", Nco(f))
        /\ f \notin Direct =>
              /\ Ends("mode", Native) /\ Ends("demod", Boot) /\ Ends("pll", At(f, Boot))
              /\ \E v \in Plans : Ends("filter", v)
        /\ job.kind = "retune" /\ (f \in Direct <=> freq \in Direct) =>
              /\ hw["mode"] = HomeMode(freq) /\ Spares(prog, "mode")
              /\ Restores /\ freq \notin Direct =>
                    /\ ~valid /\ hw["demod"] = Boot /\ hw["filter"] # Standby
                    /\ Spares(prog, "demod") /\ Spares(prog, "filter")
    BY DEF ISettings, AtPlain
  <2>2. (job.f \in Direct => Ends("mode", DirectIn) /\ Ends("demod", Nco(job.f)))'
    BY <1>1, <1>2, <1>3, <1>5, <2>1
  <2>3. (job.f \notin Direct =>
           /\ Ends("mode", Native) /\ Ends("demod", Boot) /\ Ends("pll", At(job.f, Boot))
           /\ \E v \in Plans : Ends("filter", v))'
    BY <1>1, <1>2, <1>3, <1>5, <2>1
  <2>4. (job.kind = "retune" /\ (job.f \in Direct <=> freq \in Direct) =>
           /\ hw["mode"] = HomeMode(freq) /\ Spares(prog, "mode")
           /\ Restores /\ freq \notin Direct =>
                 /\ ~valid /\ hw["demod"] = Boot /\ hw["filter"] # Standby
                 /\ Spares(prog, "demod") /\ Spares(prog, "filter"))'
    BY <1>1, <1>2, <1>4, <1>5, <2>1 DEF HomeMode
  <2> QED BY <1>1, <2>1, <2>2, <2>3, <2>4 DEF AtPlain, HasRoute
<1>12. E4000Filter'
  BY <1>1, <1>4, <1>5 DEF ISettings, E4000Filter
<1> QED BY <1>8, <1>9, <1>10, <1>11, <1>12 DEF ISettings

\* Every step keeps the settings.
LEMMA SettingsKept ==
  ASSUME Uncrossed, ITypes, ITypes', ShadowSound, ISettings, [Next]_vars
  PROVE  ISettings'
<1>1. CASE UNCHANGED vars
  BY <1>1, SettingsSame DEF vars
<1>2. CASE Next
  <2>1. CASE \E f \in Freqs : Start(f)
    BY <2>1, StartSettings
  <2>2. CASE \/ \E f \in Freqs : Retune(f)
             \/ \E w \in Widths : SetBandwidth(w)
             \/ SetAuto \/ SetGain
    BY <2>2, AskSettings
  <2>3. CASE Stop \/ Record
    BY <2>3, StopSettings, RecordSettings
  <2>4. CASE BeginRetune \/ BeginControls \/ BeginWidth
    BY <2>4, RetuneSettings, ControlsSettings, BeginWidthSettings
  <2>5. CASE FailStart \/ FailWidth \/ FailPlain \/ FailGain \/ FifoFails
    BY <2>5, FailStartSettings, FailWidthSettings, FailPlainSettings, FailGainSettings, FifoSettings
  <2>6. CASE GainRan \/ WidthRan \/ StartRan \/ RetuneRan \/ BackRan
    BY <2>6, GainRanSettings, WidthRanSettings, StartRanSettings, RetuneRanSettings, BackSettings
  <2> QED BY <1>2, <2>1, <2>2, <2>3, <2>4, <2>5, <2>6 DEF Next
<1> QED BY <1>1, <1>2

\* The settings hold in every reachable state ...
LEMMA SettingsHold == ASSUME Uncrossed PROVE Spec => [](ITypes /\ ISettings)
<1> DEFINE I == ITypes /\ ShadowSound /\ ISettings
<1>1. Init => I
  BY TypesStart, ShadowStart, SettingsStart
<1>2. I /\ [Next]_vars => I'
  BY TypesKept, ShadowKept, SettingsKept
<1> QED BY <1>1, <1>2, PTL DEF Spec

\* ... and say, when no job is about, that the reports are true.
LEMMA RestIsTrue == ASSUME ITypes, ISettings PROVE WidthHonest /\ LabelIsTrue
<1> SUFFICES ASSUME Steady PROVE WidthHonest /\ LabelIsTrue
  BY DEF WidthHonest, LabelIsTrue
<1>1. st = "streaming" /\ job.phase = "none" /\ prog = <<>>
  BY DEF Steady, NoJob, ITypes, JobFits
<1>2. /\ hw["mode"] = HomeMode(freq)
      /\ valid => Tuned(applied.f, Plan(applied.w))
      /\ certain => IF freq \in Direct THEN hw["demod"] = Nco(freq)
                    ELSE hw["pll"] = At(freq, hw["demod"]) /\ hw["filter"] # Standby
      /\ certain /\ HasRoute => hw["route"] = Route(freq)
  BY <1>1 DEF ISettings, AtRest
<1>3. valid => freq \notin Direct
  BY <1>1, Offers DEF ITypes, TypeOK, JobFits
<1>4. WidthHonest
  BY <1>1, <1>2, <1>3, EndsNow DEF WidthHonest, Tuned, HomeMode
<1>5. LabelIsTrue
  BY <1>2 DEF LabelIsTrue, HomeMode, HasRoute
<1> QED BY <1>4, <1>5

\* esp_rtl_sdr.h 1273-1276: when IQ flows, the width reported as applied is the
\* one in the filter, the PLL and the demodulator, unless a record failed on the
\* way into or out of direct sampling.
THEOREM WidthIsHonest == ASSUME Uncrossed PROVE Spec => []WidthHonest
BY SettingsHold, RestIsTrue, PTL

\* esp_rtl_sdr_acquisition.h 57: a block that names its frequency was received
\* there, under the same condition.
THEOREM LabelsAreTrue == ASSUME Uncrossed PROVE Spec => []LabelIsTrue
BY SettingsHold, RestIsTrue, PTL

(***************************************************************************)
(* What was accepted, and what is certain: these speak of no register, and *)
(* hold with records that fail anywhere.                                   *)
(***************************************************************************)

\* The width last accepted waits, is at work, or is what is applied.
Served ==
    /\ st = "idle" => want = 0
    /\ job.kind = "start" => job.w \in {0, None}
    /\ job.kind = "retune" => want = job.old \/ asked
    /\ job.kind = "controls" /\ job.w # None => asked \/ job.w = want
    /\ st = "streaming" /\ certain /\ valid
       /\ (job.kind = "none" \/ (job.kind = "controls" /\ job.w = None)) => asked \/ applied.w = want

\* The E4000 is asked for no width, and what it streams is certain.
E4000Sure == board = "e4000" => /\ ~asked /\ job.w = None /\ job.ok
                                /\ st = "streaming" => certain

\* A failed job leaves what it was asked for or says that it is not certain.
LEMMA FailedServed ==
  ASSUME ITypes, Served, job.kind # "start", Fault \/ Failed
  PROVE  Served'
<1>1. job.kind # "none" => st = "streaming"
  BY DEF ITypes, JobTyped, JobFits
<1>2. job'.kind = "none" /\ st' \in {"fault", st}
  BY DEF Fault, Failed, Done, NoJob
<1>3. CASE Fault
  BY <1>3 DEF Fault, Done, NoJob, Served, requests
<1>4. CASE Failed
  BY <1>4, <1>2 DEF Failed, Done, NoJob, Served
<1> QED BY <1>3, <1>4

\* A request, or the beginning of a job.
LEMMA AskServed ==
  ASSUME ITypes, Served,
         \/ \E f \in Freqs : Start(f)
         \/ \E f \in Freqs : Retune(f)
         \/ \E w \in Widths : SetBandwidth(w)
         \/ SetAuto \/ SetGain \/ Stop \/ BeginRetune \/ BeginControls
  PROVE  Served'
<1>1. CASE \E f \in Freqs : Start(f)
  BY <1>1 DEF Start, NoJob, Served, requests, ITypes, JobFits
<1>2. CASE \/ \E f \in Freqs : Retune(f)
           \/ SetAuto \/ SetGain
  BY <1>2 DEF Retune, SetAuto, SetGain, Ask, Served
<1>3. CASE \E w \in Widths : SetBandwidth(w)
  BY <1>3 DEF SetBandwidth, Ask, Served
<1>4. CASE Stop
  BY <1>4 DEF Stop, NoJob, Served
<1>5. CASE BeginRetune
  BY <1>5 DEF BeginRetune, NoJob, Served, requests
<1>6. CASE BeginControls
  <2>1. /\ job = NoJob /\ UNCHANGED <<st, want, applied, valid>> /\ st = "streaming" /\ asked' = FALSE
        /\ want \in Widths
    BY <1>6 DEF BeginControls, ITypes, TypeOK
  <2>2. CASE job' = job /\ certain' = FALSE
    BY <2>1, <2>2 DEF NoJob, Served
  <2>3. CASE job'.kind = "controls" /\ UNCHANGED certain /\ job'.w = IF asked THEN want ELSE None
    <3>1. job.kind = "none"
      BY <2>1 DEF NoJob
    <3>2. CASE asked
      BY <2>1, <2>3, <3>2, TunerBounds, Offers DEF Served
    <3>3. CASE ~asked
      BY <2>1, <2>3, <3>1, <3>3 DEF Served
    <3> QED BY <3>2, <3>3
  <2>4. (job' = job /\ certain' = FALSE)
        \/ (job'.kind = "controls" /\ UNCHANGED certain /\ job'.w = IF asked THEN want ELSE None)
    <3>1. CASE job' = job /\ certain' = FALSE
      BY <3>1
    <3>2. CASE UNCHANGED certain /\ \E g, n : job' = [NoJob EXCEPT !.kind = "controls", !.f = freq,
                 !.gain = gain, !.w = IF asked THEN want ELSE None, !.phase = g, !.n = n]
      BY <3>2 DEF NoJob
    <3> QED BY <1>6, <3>1, <3>2 DEF BeginControls, NoJob
  <2> QED BY <2>2, <2>3, <2>4
<1> QED BY <1>1, <1>2, <1>3, <1>4, <1>5, <1>6

\* A record, or the end of a job.
LEMMA RanServed ==
  ASSUME ITypes, Served, Record \/ GainRan \/ BeginWidth \/ WidthRan \/ StartRan \/ RetuneRan
  PROVE  Served'
<1>1. CASE Record
  BY <1>1 DEF Record, Served, requests
<1>2. CASE GainRan
  <2>1. job.kind = "controls" /\ UNCHANGED <<st, requests, applied, valid>>
    BY <1>2 DEF GainRan, Ran, ITypes, JobTyped, JobFits
  <2>2. CASE job' = [job EXCEPT !.phase = "width"] /\ UNCHANGED certain
    BY <2>1, <2>2 DEF Served, requests, ITypes, JobTyped
  <2>3. CASE Done /\ certain' = (certain /\ job.ok /\ job.w = None)
    BY <2>1, <2>3 DEF Done, NoJob, Served, requests, ITypes, JobTyped, TypeOK
  <2> QED BY <1>2, <2>2, <2>3 DEF GainRan
<1>3. CASE BeginWidth
  BY <1>3 DEF BeginWidth, Served, requests, ITypes, JobTyped
<1>4. CASE WidthRan
  <2>1. job.w # None
    BY <1>4, Offers DEF WidthRan, Ran, ITypes, JobTyped
  <2> QED BY <1>4, <2>1 DEF WidthRan, Ran, Done, NoJob, Served, requests, ITypes, JobFits, JobTyped
<1>5. CASE StartRan
  <2>1. want = 0 /\ ~valid /\ UNCHANGED <<want, asked>>
    BY <1>5 DEF StartRan, Served, ITypes, JobFits
  <2>2. job.w \in {0, None}
    BY <1>5 DEF StartRan, Served, ITypes, JobFits
  <2> QED BY <1>5, <2>1, <2>2 DEF StartRan, Done, NoJob, Served
<1>6. CASE RetuneRan
  BY <1>6 DEF RetuneRan, Ran, Done, NoJob, Served, ITypes, JobFits, JobTyped
<1> QED BY <1>1, <1>2, <1>3, <1>4, <1>5, <1>6

\* A record that fails, or a FIFO reset.
LEMMA FailServed ==
  ASSUME ITypes, Served, FailStart \/ FailWidth \/ FailPlain \/ FailGain \/ BackRan \/ FifoFails
  PROVE  Served'
<1>1. CASE FailStart
  BY <1>1 DEF FailStart, Done, NoJob, Served, requests, ITypes, JobFits
<1>2. CASE FailWidth
  <2>1. CASE job.phase = "back" \/ ~valid
    BY <1>2, <2>1, FailedServed DEF FailWidth
  <2>2. CASE ~(job.phase = "back" \/ ~valid)
    <3>1. job.phase = "next" /\ job' = [job EXCEPT !.phase = "back"] /\ job.w # None
      BY <1>2, <2>2, Offers DEF FailWidth, ITypes, JobTyped
    <3>2. UNCHANGED <<st, requests, applied, valid, certain>>
      BY <1>2, <2>2 DEF FailWidth
    <3> QED BY <3>1, <3>2 DEF Served, requests, ITypes, JobTyped
  <2> QED BY <2>1, <2>2
<1>3. CASE FailPlain
  BY <1>3, FailedServed DEF FailPlain
<1>4. CASE FailGain
  <2>1. job.kind # "start"
    BY <1>4 DEF FailGain, ITypes, JobFits
  <2>2. CASE Fault
    BY <2>1, <2>2, FailedServed
  <2>3. CASE job'.kind = job.kind /\ job'.w = job.w /\ job'.old = job.old
             /\ UNCHANGED <<st, requests, applied, valid, certain>>
    BY <2>3 DEF Served, requests
  <2> QED BY <1>4, <2>2, <2>3 DEF FailGain, ITypes, JobTyped
<1>5. CASE BackRan
  BY <1>5, FailedServed DEF BackRan, Ran, ITypes, JobFits
<1>6. CASE FifoFails
  BY <1>6 DEF FifoFails, Done, NoJob, Served
<1> QED BY <1>1, <1>2, <1>3, <1>4, <1>5, <1>6

\* Every step keeps it.
LEMMA ServedKept == ASSUME ITypes, Served, [Next]_vars PROVE Served'
<1>1. CASE UNCHANGED vars
  BY <1>1 DEF vars, Served
<1>2. CASE Next
  BY <1>2, AskServed, RanServed, FailServed DEF Next
<1> QED BY <1>1, <1>2

\* API_REFERENCE.md 1267: a width that was accepted is queued, at work or
\* applied whenever the stream's configuration is certain.
THEOREM WidthIsServed == Spec => []WidthServed
<1>1. Init => Served
  BY DEF Init, Served, NoJob
<1>2. Served => WidthServed
  BY DEF Served, WidthServed, Steady, NoJob
<1> QED BY <1>1, <1>2, TypesStart, TypesKept, ServedKept, PTL DEF Spec

\* A request is none of a width, for the board offers none.
LEMMA AskSure ==
  ASSUME ITypes, E4000Sure, board = "e4000",
         \/ \E f \in Freqs : Start(f)
         \/ \E f \in Freqs : Retune(f)
         \/ \E w \in Widths : SetBandwidth(w)
         \/ SetAuto \/ SetGain \/ Stop \/ BeginRetune \/ BeginControls
  PROVE  ~asked' /\ job'.w = None /\ job'.ok /\ (st' = "streaming" => certain')
<1>1. \A f \in Freqs : Offered(f) = {}
  BY DEF Offered, HasWidths
<1>2. ~asked /\ job.w = None /\ job.ok /\ (st = "streaming" => certain)
  BY DEF E4000Sure
<1>3. CASE \E f \in Freqs : Start(f)
  <2>1. PICK f \in Freqs : Start(f)
    BY <1>3
  <2>2. Offered(f) = {}
    BY <1>1
  <2>3. job' = [NoJob EXCEPT !.kind = "start", !.f = f, !.phase = "plain", !.w = None]
    BY <2>1, <2>2 DEF Start
  <2>4. st' = "idle" /\ UNCHANGED asked
    BY <2>1 DEF Start, requests
  <2> QED BY <1>2, <2>3, <2>4 DEF NoJob
<1>4. CASE \/ \E f \in Freqs : Retune(f)
           \/ SetAuto \/ SetGain
  BY <1>2, <1>4 DEF Retune, SetAuto, SetGain, Ask
<1>5. ~\E w \in Widths : SetBandwidth(w)
  BY <1>1 DEF SetBandwidth, Ahead, ITypes, TypeOK
<1>6. CASE Stop
  BY <1>2, <1>6 DEF Stop
<1>7. CASE BeginRetune
  BY <1>1, <1>2, <1>7 DEF BeginRetune, Measured, NoJob, requests, ITypes, TypeOK
<1>8. CASE BeginControls
  <2>1. job = NoJob /\ gain # "none" /\ asked' = FALSE /\ UNCHANGED <<st, certain>>
    BY <1>2, <1>8 DEF BeginControls
  <2>2. job' = [NoJob EXCEPT !.kind = "controls", !.f = freq, !.gain = gain, !.w = None,
                             !.phase = "gain", !.n = 1]
    BY <1>2, <1>8, <2>1 DEF BeginControls
  <2> QED BY <1>2, <2>1, <2>2 DEF NoJob
<1> QED BY <1>3, <1>4, <1>5, <1>6, <1>7, <1>8

\* The steps of a job without a width, whose failure is a fault.
LEMMA JobSure ==
  ASSUME ITypes, E4000Sure, board = "e4000", ~BackRan,
         \/ Record \/ FailStart \/ FailWidth \/ FailPlain \/ FailGain
         \/ GainRan \/ BeginWidth \/ WidthRan \/ StartRan \/ RetuneRan \/ FifoFails
  PROVE  ~asked' /\ job'.w = None /\ job'.ok /\ (st' = "streaming" => certain')
<1>1. ~asked /\ job.w = None /\ job.ok /\ (st = "streaming" => certain)
  BY DEF E4000Sure
<1>2. job.phase \notin {"width", "next", "back"}
  BY <1>1, Offers DEF ITypes, JobTyped
<1>3. CASE Record \/ FailStart
  BY <1>1, <1>3 DEF Record, FailStart, Done, NoJob, requests, ITypes, JobFits
<1>4. CASE FailPlain \/ FailGain
  BY <1>1, <1>4 DEF FailPlain, FailGain, Fault, Done, NoJob, requests
<1>5. ~(FailWidth \/ BeginWidth \/ WidthRan)
  BY <1>2 DEF FailWidth, BeginWidth, WidthRan, Ran
<1>6. CASE GainRan
  BY <1>1, <1>6 DEF GainRan, Ran, Done, NoJob, requests, ITypes, JobFits, JobTyped
<1>7. CASE StartRan \/ RetuneRan
  BY <1>1, <1>2, <1>7 DEF StartRan, RetuneRan, Ran, Done, NoJob
<1>8. CASE FifoFails
  BY <1>1, <1>8 DEF FifoFails, Done, NoJob, requests
<1> QED BY <1>3, <1>4, <1>5, <1>6, <1>7, <1>8

\* The dongle is the same throughout.
LEMMA BoardStays == ASSUME Next PROVE board' = board
<1>1. CASE \E f \in Freqs : Start(f) \/ Retune(f)
  BY <1>1 DEF Start, Retune, Ask
<1>2. CASE \E w \in Widths : SetBandwidth(w)
  BY <1>2 DEF SetBandwidth, Ask
<1>3. CASE SetAuto \/ SetGain \/ Stop \/ BeginRetune \/ BeginControls
  BY <1>3 DEF SetAuto, SetGain, Ask, Stop, BeginRetune, BeginControls
<1>4. CASE Record \/ FailStart \/ FailWidth \/ FailPlain \/ FailGain
  BY <1>4 DEF Record, FailStart, FailWidth, FailPlain, FailGain
<1>5. CASE GainRan \/ BeginWidth \/ WidthRan \/ StartRan \/ RetuneRan \/ BackRan \/ FifoFails
  BY <1>5 DEF GainRan, BeginWidth, WidthRan, StartRan, RetuneRan, BackRan, FifoFails
<1> QED BY <1>1, <1>2, <1>3, <1>4, <1>5 DEF Next

\* Every step keeps it.
LEMMA SureKept == ASSUME ITypes, E4000Sure, [Next]_vars PROVE E4000Sure'
<1>1. CASE UNCHANGED vars
  BY <1>1 DEF vars, E4000Sure
<1>2. CASE Next
  <2>1. board' = board
    BY <1>2, BoardStays
  <2>2. SUFFICES ASSUME board = "e4000"
                 PROVE  ~asked' /\ job'.w = None /\ job'.ok /\ (st' = "streaming" => certain')
    BY <2>1 DEF E4000Sure
  <2>3. ~BackRan
    BY <2>2, Offers DEF E4000Sure, BackRan, Ran, ITypes, JobTyped
  <2> QED BY <1>2, <2>2, <2>3, AskSure, JobSure DEF Next
<1> QED BY <1>1, <1>2

\* E4000_GAIN_CONTROLS.md 33: on that board a failure ends the stream; whatever
\* is received afterwards was configured with success.
THEOREM E4000IsCertain == Spec => []E4000Certain
<1>1. Init => E4000Sure
  BY DEF Init, E4000Sure, NoJob
<1>2. E4000Sure => E4000Certain
  BY DEF E4000Sure, E4000Certain, Steady
<1> QED BY <1>1, <1>2, TypesStart, TypesKept, SureKept, PTL DEF Spec
=============================================================================
