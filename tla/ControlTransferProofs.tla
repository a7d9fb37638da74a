----------------------- MODULE ControlTransferProofs -----------------------
(***************************************************************************)
(* Proofs about ControlTransfer, for any number of devices and callers,    *)
(* attempts and places for parked devices:                                 *)
(*   - the transfer is at rest when it is filled in (XferAtRest), an OK is *)
(*     the answer to the caller's own request (OkIsAnswered), and no       *)
(*     device is closed under its transfer (ClosedAtRest);                 *)
(*   - if the application selects alone: types, no use of a closed device  *)
(*     (OpenWhenUsed) and no device lost (NoneLost).                       *)
(***************************************************************************)
EXTENDS ControlTransfer, FiniteSetTheorems, TLAPS

----------------------------------------------------------------------------
(* The request path.                                                       *)

Jobs == {"none", "control", "probe", "unplug", "select"}
TaskRec == [pc: PCs, dev: Devs \cup {None}, n: 0..Tries,
            ret: {"none", "ok", "usb", "timeout"}, job: Jobs]
XferRec == [dev: Devs, by: Tasks, st: {"wire"} \cup Answers]

PathTypes ==
  /\ mutex \in Tasks \cup {None}
  /\ inflight \in BOOLEAN /\ giving \in BOOLEAN
  /\ xfer \in XferRec \cup {NoXfer}
  /\ sem \in 0..1 /\ status \in Answers
  /\ dev \in Devs \cup {None}
  /\ task \in [Tasks -> TaskRec]
  /\ answer \in [Tasks -> Answers \cup {"none"}]

\* The mutex is held by whoever is between Lock and Release, or closing.
Sole == \A t \in Tasks : task[t].pc \in Held <=> mutex = t

\* ctrl_inflight is exact, and while it is set the status is the one that
\* Submit left; a STALL is only seen once the transfer is back.
FlagIsExact ==
  /\ inflight <=> xfer # NoXfer
  /\ inflight => status = "fail"
  /\ \A t \in Tasks : task[t].pc \in {"submit", "backoff"} => ~inflight /\ task[t].n < Tries
  /\ \A t \in Tasks : task[t].pc \in {"submit", "wait", "backoff"} => task[t].dev # None

\* What a waiting caller can be woken with is the answer to its own request.
Answered ==
  \A t \in Tasks :
    /\ task[t].pc = "wait" /\ inflight => xfer.by = t
    /\ task[t].pc = "wait" /\ status # "fail" => answer[t] = status
    /\ task[t].pc = "unlock" /\ task[t].ret = "ok" => answer[t] \in {"ok", "stall"}

IPath == PathTypes /\ Sole /\ FlagIsExact /\ Answered

LEMMA Names ==
  /\ None \notin Devs /\ None \notin Tasks /\ App \in Tasks /\ Client \in Tasks
  /\ App # Client /\ First \in Devs /\ Tries \in Nat /\ 0 < Tries
  /\ NoXfer \notin XferRec
BY ControlTasks, ControlBounds DEF Tasks, Probers, XferRec, NoXfer

LEMMA IdleFits == Idle \in TaskRec /\ Idle.pc = "idle" /\ Idle.job = "none" /\ Idle.dev = None
BY Names DEF Idle, TaskRec, PCs, Jobs

LEMMA PathInit == Init => IPath
<1> SUFFICES ASSUME Init PROVE IPath
  OBVIOUS
<1> USE Names, IdleFits DEF Init
<1>1. PathTypes
  <2>1. mutex \in Tasks \cup {None} /\ xfer \in XferRec \cup {NoXfer} /\ dev \in Devs \cup {None}
    OBVIOUS
  <2>2. inflight \in BOOLEAN /\ giving \in BOOLEAN
    OBVIOUS
  <2>3. sem \in 0..1
    OBVIOUS
  <2>4. status \in Answers
    BY DEF Answers
  <2>5. task \in [Tasks -> TaskRec]
    OBVIOUS
  <2>6. answer \in [Tasks -> Answers \cup {"none"}]
    OBVIOUS
  <2> QED
    BY <2>1, <2>2, <2>3, <2>4, <2>5, <2>6 DEF PathTypes
<1>2. Sole
  BY DEF Sole, Held
<1>3. FlagIsExact /\ Answered
  BY DEF FlagIsExact, Answered, NoXfer
<1> QED
  BY <1>1, <1>2, <1>3 DEF IPath

\* A task that moves outside the mutex disturbs nothing of the path.
LEMMA MoveKeeps ==
  ASSUME IPath, NEW t \in Tasks, NEW r \in TaskRec, Put(t, r),
         task[t].pc \notin Held, r.pc \notin Held, UNCHANGED path, dev' \in Devs \cup {None}
  PROVE  IPath'
BY DEF IPath, PathTypes, Sole, FlagIsExact, Answered, Put, path, Held, PCs, TaskRec

LEMMA StayKeeps ==
  ASSUME IPath, UNCHANGED <<path, task>>, dev' \in Devs \cup {None}
  PROVE  IPath'
BY DEF IPath, PathTypes, Sole, FlagIsExact, Answered, path

\* What the ways to change one task's record do.
OthersStay(t) == \A u \in Tasks \ {t} : task'[u] = task[u]

LEMMA PutMoves ==
  ASSUME PathTypes, NEW t \in Tasks, NEW r \in TaskRec, Put(t, r)
  PROVE  task' \in [Tasks -> TaskRec] /\ task'[t] = r /\ OthersStay(t)
BY DEF PathTypes, Put, OthersStay

LEMMA GoMoves ==
  ASSUME PathTypes, NEW t \in Tasks, NEW l \in PCs, Go(t, l)
  PROVE  /\ task' \in [Tasks -> TaskRec] /\ task'[t].pc = l /\ OthersStay(t)
         /\ task'[t].dev = task[t].dev /\ task'[t].n = task[t].n
         /\ task'[t].ret = task[t].ret /\ task'[t].job = task[t].job
BY DEF PathTypes, Go, Put, OthersStay, TaskRec

LEMMA UnlockMoves ==
  ASSUME PathTypes, NEW t \in Tasks, NEW r \in {"ok", "usb", "timeout"}, Unlock(t, r)
  PROVE  /\ task' \in [Tasks -> TaskRec] /\ task'[t].pc = "unlock" /\ OthersStay(t)
         /\ task'[t].ret = r /\ task'[t].dev = task[t].dev /\ task'[t].job = task[t].job
BY DEF PathTypes, Unlock, Put, OthersStay, TaskRec, PCs

LEMMA AgainKeeps == ASSUME IPath, NEW t \in Tasks, Again(t) PROVE IPath'
<1> USE Names DEF IPath, Again, At, bus, path
<1>1. task' \in [Tasks -> TaskRec] /\ OthersStay(t) /\ task'[t].pc = "submit"
     /\ task'[t].n = task[t].n /\ task'[t].dev = task[t].dev
  BY GoMoves DEF PCs
<1>2. PathTypes'
  BY <1>1, SMT DEF PathTypes
<1>3. Sole'
  BY <1>1, SMT DEF PathTypes, Sole, Held, OthersStay
<1>4. FlagIsExact'
  BY <1>1, SMT DEF PathTypes, FlagIsExact, Sole, Held, OthersStay
<1>5. Answered'
  BY <1>1, SMT DEF PathTypes, FlagIsExact, Answered, Sole, Held, OthersStay
<1> QED
  BY <1>2, <1>3, <1>4, <1>5

LEMMA GiveUpKeeps == ASSUME IPath, NEW t \in Tasks, GiveUp(t) PROVE IPath'
<1> USE Names DEF IPath, GiveUp, At, bus, path
<1>1. task' \in [Tasks -> TaskRec] /\ OthersStay(t) /\ task'[t].pc = "unlock"
     /\ task'[t].ret = "timeout"
  BY UnlockMoves
<1>2. PathTypes'
  BY <1>1, SMT DEF PathTypes
<1>3. Sole'
  BY <1>1, SMT DEF PathTypes, Sole, Held, OthersStay
<1>4. FlagIsExact'
  BY <1>1, SMT DEF PathTypes, FlagIsExact, Sole, Held, OthersStay
<1>5. Answered'
  BY <1>1, SMT DEF PathTypes, FlagIsExact, Answered, Sole, Held, OthersStay
<1> QED
  BY <1>2, <1>3, <1>4, <1>5

LEMMA NoteMoves ==
  ASSUME PathTypes, NEW t \in Tasks, NEW a \in Answers \cup {"none"},
         answer' = [answer EXCEPT ![t] = a]
  PROVE  /\ answer' \in [Tasks -> Answers \cup {"none"}] /\ answer'[t] = a
         /\ \A u \in Tasks \ {t} : answer'[u] = answer[u]
<1>1. answer \in [Tasks -> Answers \cup {"none"}]
  BY DEF PathTypes
<1> QED
  BY <1>1

LEMMA LockKeeps == ASSUME IPath, NEW t \in Tasks, Lock(t) PROVE IPath'
<1> USE Names DEF IPath
<1>1. task[t].pc = "lock" /\ mutex = None /\ mutex' = t
     /\ UNCHANGED <<inflight, xfer, sem, status, giving, dev>>
  BY DEF Lock, At, bus
<1>2. answer' \in [Tasks -> Answers \cup {"none"}] /\ answer'[t] = "none"
     /\ \A u \in Tasks \ {t} : answer'[u] = answer[u]
  BY NoteMoves DEF Lock
<1>3. task' \in [Tasks -> TaskRec] /\ OthersStay(t)
     /\ \/ task'[t].pc = "unlock" /\ task'[t].ret \in {"usb", "timeout"}
        \/ task'[t].pc = "submit" /\ task'[t].n = 0 /\ ~inflight /\ task'[t].dev # None
  <2> DEFINE l == [task[t] EXCEPT !.dev = Target(t), !.n = 0]
  <2>1. task[t] \in TaskRec /\ Target(t) \in Devs \cup {None} /\ 0 \in 0..Tries
    BY DEF Target, PathTypes, TaskRec
  <2>2. l \in TaskRec /\ l.n = 0 /\ l.dev = Target(t)
    BY <2>1 DEF TaskRec
  <2>3. \/ Put(t, [l EXCEPT !.pc = "unlock", !.ret = "usb"])
        \/ Put(t, [l EXCEPT !.pc = "unlock", !.ret = "timeout"])
        \/ ~inflight /\ Target(t) # None /\ Put(t, [l EXCEPT !.pc = "submit"])
    BY DEF Lock
  <2> HIDE DEF l
  <2>4. ASSUME NEW e \in {"usb", "timeout"}, Put(t, [l EXCEPT !.pc = "unlock", !.ret = e])
        PROVE  task' \in [Tasks -> TaskRec] /\ OthersStay(t)
               /\ task'[t].pc = "unlock" /\ task'[t].ret = e
    <3>1. /\ [l EXCEPT !.pc = "unlock", !.ret = e] \in TaskRec
          /\ [l EXCEPT !.pc = "unlock", !.ret = e].pc = "unlock"
          /\ [l EXCEPT !.pc = "unlock", !.ret = e].ret = e
      BY <2>2 DEF TaskRec, PCs
    <3> QED
      BY <2>4, <3>1, PutMoves
  <2>5. CASE ~inflight /\ Target(t) # None /\ Put(t, [l EXCEPT !.pc = "submit"])
    <3>1. /\ [l EXCEPT !.pc = "submit"] \in TaskRec /\ [l EXCEPT !.pc = "submit"].pc = "submit"
          /\ [l EXCEPT !.pc = "submit"].n = 0 /\ [l EXCEPT !.pc = "submit"].dev = Target(t)
      BY <2>2 DEF TaskRec, PCs
    <3> QED
      BY <2>5, <3>1, PutMoves
  <2> QED
    BY <2>3, <2>4, <2>5
<1>4. PathTypes'
  BY <1>1, <1>2, <1>3, SMT DEF PathTypes
<1>5. Sole'
  BY <1>1, <1>2, <1>3, SMT DEF PathTypes, Sole, Held, OthersStay
<1>6. FlagIsExact'
  BY <1>1, <1>2, <1>3, SMT DEF PathTypes, FlagIsExact, Sole, Held, OthersStay
<1>7. Answered'
  BY <1>1, <1>2, <1>3, SMT DEF PathTypes, FlagIsExact, Answered, Sole, Held, OthersStay
<1> QED
  BY <1>4, <1>5, <1>6, <1>7

LEMMA SubmitKeeps == ASSUME IPath, NEW t \in Tasks, Submit(t) PROVE IPath'
<1> USE Names DEF IPath
<1>1. task[t].pc = "submit" /\ status' = "fail" /\ sem' = 0
     /\ UNCHANGED <<mutex, giving, dev>> /\ "fail" \in Answers
  BY DEF Submit, At, bus, Answers
<1>2. answer' \in [Tasks -> Answers \cup {"none"}] /\ answer'[t] = "none"
     /\ \A u \in Tasks \ {t} : answer'[u] = answer[u]
  BY NoteMoves DEF Submit
<1>3. task' \in [Tasks -> TaskRec] /\ OthersStay(t)
     /\ \/ /\ task'[t].pc = "wait" /\ task'[t].dev # None /\ inflight' = TRUE
           /\ xfer' \in XferRec /\ xfer'.by = t
        \/ /\ task'[t].pc = "unlock" /\ task'[t].ret = "usb"
           /\ inflight' = FALSE /\ UNCHANGED xfer
  <2>1. CASE inflight' = TRUE /\ xfer' = [dev |-> task[t].dev, by |-> t, st |-> "wire"]
              /\ Put(t, [task[t] EXCEPT !.pc = "wait", !.n = @ + 1])
    <3>1. task[t] \in TaskRec /\ task[t].dev \in Devs /\ task[t].n + 1 \in 0..Tries
      BY <1>1 DEF PathTypes, FlagIsExact, TaskRec
    <3>2. /\ [task[t] EXCEPT !.pc = "wait", !.n = @ + 1] \in TaskRec
          /\ [task[t] EXCEPT !.pc = "wait", !.n = @ + 1].pc = "wait"
          /\ [task[t] EXCEPT !.pc = "wait", !.n = @ + 1].dev = task[t].dev
      BY <3>1 DEF TaskRec, PCs
    <3> QED
      BY <2>1, <3>1, <3>2, PutMoves DEF XferRec
  <2>2. CASE inflight' = FALSE /\ Unlock(t, "usb") /\ UNCHANGED xfer
    BY <2>2, UnlockMoves
  <2> QED
    BY <2>1, <2>2 DEF Submit
<1>4. inflight' \in BOOLEAN /\ xfer' \in XferRec \cup {NoXfer}
  BY <1>3 DEF PathTypes
<1>5. PathTypes'
  BY <1>1, <1>2, <1>3, <1>4, SMT DEF PathTypes
<1>6. Sole'
  BY <1>1, <1>2, <1>3, SMT DEF PathTypes, Sole, Held, OthersStay
<1>7. FlagIsExact'
  BY <1>1, <1>2, <1>3, SMT DEF PathTypes, FlagIsExact, Sole, Held, OthersStay
<1>8. Answered'
  BY <1>1, <1>2, <1>3, SMT DEF PathTypes, FlagIsExact, Answered, Sole, Held, OthersStay
<1> QED
  BY <1>5, <1>6, <1>7, <1>8

LEMMA WakeKeeps == ASSUME IPath, NEW t \in Tasks, Wake(t) PROVE IPath'
<1> USE Names DEF IPath
<1>1. task[t].pc = "wait" /\ sem' = 0
     /\ UNCHANGED <<mutex, inflight, xfer, status, giving, answer, dev>>
  BY DEF Wake, At, bus
<1>2. task' \in [Tasks -> TaskRec] /\ OthersStay(t) /\ task'[t].dev = task[t].dev
     /\ \/ task'[t].pc = "unlock" /\ (task'[t].ret = "ok" => status # "fail")
        \/ task'[t].pc = "backoff" /\ task'[t].n < Tries /\ status = "stall"
  <2>1. \/ status # "fail" /\ Unlock(t, "ok")
        \/ Unlock(t, "usb")
        \/ status = "stall" /\ task[t].n < Tries /\ Go(t, "backoff")
    BY DEF Wake, PathTypes, Answers
  <2>2. CASE status # "fail" /\ Unlock(t, "ok")
    BY <2>2, UnlockMoves
  <2>3. CASE Unlock(t, "usb")
    BY <2>3, UnlockMoves
  <2>4. CASE status = "stall" /\ task[t].n < Tries /\ Go(t, "backoff")
    BY <2>4, GoMoves DEF PCs
  <2> QED
    BY <2>1, <2>2, <2>3, <2>4
<1>3. status \in Answers => (status # "fail" => status \in {"ok", "stall"})
  BY DEF Answers
<1>4. PathTypes'
  BY <1>1, <1>2, <1>3, SMT DEF PathTypes
<1>5. Sole'
  BY <1>1, <1>2, <1>3, SMT DEF PathTypes, Sole, Held, OthersStay
<1>6. FlagIsExact'
  BY <1>1, <1>2, <1>3, SMT DEF PathTypes, FlagIsExact, Sole, Held, OthersStay
<1>7. Answered'
  BY <1>1, <1>2, <1>3, SMT DEF PathTypes, FlagIsExact, Answered, Sole, Held, OthersStay
<1> QED
  BY <1>4, <1>5, <1>6, <1>7

LEMMA ReleaseKeeps == ASSUME IPath, NEW t \in Tasks, Release(t) PROVE IPath'
<1> USE Names DEF IPath
<1>1. task[t].pc = "unlock" /\ mutex' = None
     /\ UNCHANGED <<inflight, xfer, sem, status, giving, answer, dev>>
  BY DEF Release, At, bus
<1>2. task' \in [Tasks -> TaskRec] /\ OthersStay(t) /\ task'[t].pc \in {"idle", "keep", "drain"}
  <2>1. CASE task[t].job = "probe"
    BY <2>1, GoMoves DEF Release, PCs
  <2>2. CASE task[t].job # "probe"
    <3>1. [Idle EXCEPT !.ret = task[t].ret] \in TaskRec /\ [Idle EXCEPT !.ret = task[t].ret].pc = "idle"
      BY DEF PathTypes, Idle, TaskRec, PCs, Jobs
    <3> QED
      BY <2>2, <3>1, PutMoves DEF Release
  <2> QED
    BY <2>1, <2>2
<1>3. PathTypes'
  BY <1>1, <1>2, SMT DEF PathTypes
<1>4. Sole'
  BY <1>1, <1>2, SMT DEF PathTypes, Sole, Held, OthersStay
<1>5. FlagIsExact'
  BY <1>1, <1>2, SMT DEF PathTypes, FlagIsExact, Sole, Held, OthersStay
<1>6. Answered'
  BY <1>1, <1>2, SMT DEF PathTypes, FlagIsExact, Answered, Sole, Held, OthersStay
<1> QED
  BY <1>3, <1>4, <1>5, <1>6

LEMMA TakeForCloseKeeps == ASSUME IPath, NEW t \in Tasks, TakeForClose(t) PROVE IPath'
<1> USE Names DEF IPath
<1>1. task[t].pc = "take" /\ UNCHANGED <<inflight, xfer, sem, status, giving, answer, dev>>
  BY DEF TakeForClose, At, bus
<1>2. task' \in [Tasks -> TaskRec] /\ OthersStay(t)
     /\ \/ mutex = None /\ mutex' = t /\ task'[t].pc = "close"
        \/ UNCHANGED mutex /\ task'[t].pc = "park"
  BY GoMoves DEF TakeForClose, PCs
<1>3. PathTypes'
  BY <1>1, <1>2, SMT DEF PathTypes
<1>4. Sole'
  BY <1>1, <1>2, SMT DEF PathTypes, Sole, Held, OthersStay
<1>5. FlagIsExact'
  BY <1>1, <1>2, SMT DEF PathTypes, FlagIsExact, Sole, Held, OthersStay
<1>6. Answered'
  BY <1>1, <1>2, SMT DEF PathTypes, FlagIsExact, Answered, Sole, Held, OthersStay
<1> QED
  BY <1>3, <1>4, <1>5, <1>6

LEMMA CloseKeeps == ASSUME IPath, NEW t \in Tasks, Close(t) PROVE IPath'
<1> USE Names DEF IPath
<1>1. task[t].pc = "close" /\ mutex' = None
     /\ UNCHANGED <<inflight, xfer, sem, status, giving, answer, dev>>
  BY DEF Close, At
<1>2. task' \in [Tasks -> TaskRec] /\ OthersStay(t) /\ task'[t].pc \in {"forget", "park"}
  BY GoMoves DEF Close, PCs
<1>3. PathTypes'
  BY <1>1, <1>2, SMT DEF PathTypes
<1>4. Sole'
  BY <1>1, <1>2, SMT DEF PathTypes, Sole, Held, OthersStay
<1>5. FlagIsExact'
  BY <1>1, <1>2, SMT DEF PathTypes, FlagIsExact, Sole, Held, OthersStay
<1>6. Answered'
  BY <1>1, <1>2, SMT DEF PathTypes, FlagIsExact, Answered, Sole, Held, OthersStay
<1> QED
  BY <1>3, <1>4, <1>5, <1>6

LEMMA CallbackKeeps == ASSUME IPath, Callback PROVE IPath'
<1> USE Names DEF IPath
<1>1. xfer.st \in Answers /\ status' = xfer.st /\ inflight' = FALSE
     /\ xfer' = NoXfer /\ UNCHANGED <<mutex, sem, task, dev>>
  BY DEF Callback, bus
<1>2. inflight' \in BOOLEAN /\ giving' \in BOOLEAN
  BY DEF Callback
<1>3. xfer \in XferRec /\ xfer.by \in Tasks
  BY <1>1 DEF PathTypes, NoXfer, XferRec, Answers
<1>4. inflight
  BY <1>3 DEF FlagIsExact
<1>5. /\ answer' \in [Tasks -> Answers \cup {"none"}]
      /\ task[xfer.by].pc = "wait" => answer'[xfer.by] = xfer.st
      /\ task[xfer.by].pc # "wait" => answer'[xfer.by] = answer[xfer.by]
      /\ \A u \in Tasks \ {xfer.by} : answer'[u] = answer[u]
  BY <1>1, <1>3 DEF Callback, At, PathTypes
<1>6. PathTypes'
  <2>1. xfer' \in XferRec \cup {NoXfer} /\ status' \in Answers
    BY <1>1
  <2> QED
    BY <1>1, <1>2, <1>5, <2>1, SMT DEF PathTypes
<1>7. Sole'
  BY <1>1, <1>2, <1>3, <1>4, <1>5, SMT DEF PathTypes, Sole, Held
<1>8. FlagIsExact'
  BY <1>1, <1>2, <1>3, <1>4, <1>5, SMT DEF PathTypes, FlagIsExact, Sole, Held
<1>9. Answered'
  <2>1. \A t \in Tasks : task[t].pc = "wait" => answer'[t] = status'
    BY <1>1, <1>4, <1>5 DEF Answered
  <2>2. \A t \in Tasks : task[t].pc = "unlock" => answer'[t] = answer[t]
    BY <1>3, <1>5
  <2> QED
    BY <1>1, <2>1, <2>2 DEF Answered
<1> QED
  BY <1>6, <1>7, <1>8, <1>9

LEMMA FinishKeeps == ASSUME IPath, Finish PROVE IPath'
<1> USE Names DEF IPath
<1>1. xfer.st = "wire" /\ UNCHANGED <<mutex, inflight, sem, status, giving, answer, dev, task>>
  BY DEF Finish, bus
<1>2. xfer \in XferRec
  BY <1>1 DEF PathTypes, NoXfer
<1>3. xfer' \in XferRec /\ xfer'.by = xfer.by
  BY <1>2 DEF Finish, XferRec
<1>4. PathTypes'
  BY <1>1, <1>2, <1>3, SMT DEF PathTypes
<1>5. Sole'
  BY <1>1, <1>2, <1>3, SMT DEF PathTypes, Sole, Held
<1>6. FlagIsExact'
  BY <1>1, <1>2, <1>3, SMT DEF PathTypes, FlagIsExact, Sole, Held
<1>7. Answered'
  BY <1>1, <1>2, <1>3, SMT DEF PathTypes, FlagIsExact, Answered, Sole, Held
<1> QED
  BY <1>4, <1>5, <1>6, <1>7

LEMMA GiveSemKeeps == ASSUME IPath, GiveSem PROVE IPath'
<1> USE Names DEF IPath
<1>1. UNCHANGED <<mutex, inflight, xfer, status, answer, dev, task>>
  BY DEF GiveSem, bus
<1>2. giving' \in BOOLEAN
  BY DEF GiveSem
<1>3. sem' \in 0..1
  BY DEF GiveSem
<1>4. PathTypes' /\ Sole' /\ FlagIsExact' /\ Answered'
  BY <1>1, <1>2, <1>3 DEF PathTypes, Sole, FlagIsExact, Answered
<1> QED
  BY <1>4

\* The devices are those of the bus; one is opened where it is plugged in.
KnownBus == here \subseteq Devs /\ opens \subseteq Devs

LEMMA BusStays == KnownBus /\ [Next]_vars => KnownBus'
<1> SUFFICES ASSUME KnownBus, [Next]_vars PROVE KnownBus'
  OBVIOUS
<1>1. here' \subseteq here /\ opens' \subseteq opens \cup here
  BY DEF Next, vars, bus, Request, Lock, Submit, Wake, Again, GiveUp, Release, Call, Probe, Closing,
     Keep, DrainEnds, TakeForClose, Close, Park, Forget, CloseGone, RetryParked, SelectOther,
     Finish, Callback, GiveSem, Unplug, GoneEvent
<1> QED
  BY <1>1 DEF KnownBus

\* The steps of a task outside the mutex, and those that move no task.
LEMMA TasksKeep ==
  ASSUME IPath, KnownBus, NEW t \in Tasks,
         Call(t) \/ Probe(t) \/ Keep(t) \/ DrainEnds(t) \/ Park(t) \/ Forget(t)
  PROVE  IPath'
<1> USE Names, IdleFits
<1>1. task[t] \in TaskRec /\ dev \in Devs \cup {None}
  BY DEF IPath, PathTypes
<1>2. CASE Call(t)
  <2>1. [Idle EXCEPT !.pc = "lock", !.job = "control"] \in TaskRec
        /\ [Idle EXCEPT !.pc = "lock", !.job = "control"].pc = "lock"
    BY DEF Idle, TaskRec, PCs, Jobs
  <2> QED
    BY <1>1, <1>2, <2>1, MoveKeeps DEF Call, At, Held, bus
<1>3. CASE Probe(t)
  <2>1. PICK d \in here \ opens : Put(t, [Idle EXCEPT !.pc = "lock", !.dev = d, !.job = "probe"])
    BY <1>3 DEF Probe
  <2>2. [Idle EXCEPT !.pc = "lock", !.dev = d, !.job = "probe"] \in TaskRec
        /\ [Idle EXCEPT !.pc = "lock", !.dev = d, !.job = "probe"].pc = "lock"
    BY DEF Idle, TaskRec, PCs, Jobs, KnownBus
  <2> QED
    BY <1>1, <1>3, <2>1, <2>2, MoveKeeps DEF Probe, At, Held
<1>4. ASSUME NEW l \in {"drain", "take", "forget"}, task[t].pc \notin Held, Go(t, l),
             UNCHANGED path, UNCHANGED dev
      PROVE  IPath'
  <2>1. [task[t] EXCEPT !.pc = l] \in TaskRec /\ [task[t] EXCEPT !.pc = l].pc = l
    BY <1>1 DEF TaskRec, PCs
  <2> QED
    BY <1>1, <1>4, <2>1, MoveKeeps DEF Go, Held
<1>5. ASSUME task[t].pc \notin Held, Put(t, Idle), UNCHANGED path, dev' \in Devs \cup {None}
      PROVE  IPath'
  BY <1>5, MoveKeeps DEF Held
<1>6. CASE Keep(t)
  <2>1. task[t].pc \notin Held /\ UNCHANGED path
    BY <1>6 DEF Keep, At, Held
  <2>2. \/ Put(t, Idle) /\ dev' = task[t].dev
        \/ Go(t, "drain") /\ UNCHANGED dev
    BY <1>6 DEF Keep
  <2>3. task[t].dev \in Devs \cup {None}
    BY <1>1 DEF TaskRec
  <2> QED
    BY <1>4, <1>5, <2>1, <2>2, <2>3
<1>7. CASE DrainEnds(t)
  BY <1>4, <1>7 DEF DrainEnds, At, Held, bus
<1>8. CASE Park(t)
  BY <1>4, <1>8 DEF Park, At, Held
<1>9. CASE Forget(t)
  BY <1>1, <1>5, <1>9 DEF Forget, At, Held
<1> QED
  BY <1>2, <1>3, <1>6, <1>7, <1>8, <1>9

LEMMA OthersKeep ==
  ASSUME IPath, CloseGone \/ SelectOther \/ RetryParked \/ UNCHANGED vars
                \/ \E d \in Devs : Unplug(d) \/ GoneEvent(d)
  PROVE  IPath'
<1> USE Names, IdleFits
<1>1. dev \in Devs \cup {None}
  BY DEF IPath, PathTypes
<1>2. ASSUME NEW t \in Probers, NEW j \in {"unplug", "select"}, task[t].pc = "idle",
             Put(t, [Idle EXCEPT !.pc = "drain", !.dev = dev, !.job = j]), UNCHANGED <<path, dev>>
      PROVE  IPath'
  <2>1. [Idle EXCEPT !.pc = "drain", !.dev = dev, !.job = j] \in TaskRec
        /\ [Idle EXCEPT !.pc = "drain", !.dev = dev, !.job = j].pc = "drain"
    BY <1>1 DEF Idle, TaskRec, PCs, Jobs
  <2> QED
    BY <1>1, <1>2, <2>1, MoveKeeps DEF Held, Probers, Tasks
<1>3. CASE CloseGone
  <2>1. UNCHANGED <<path, dev>>
    BY <1>3 DEF CloseGone
  <2>2. CASE dev = None
    BY <1>1, <1>3, <2>1, <2>2, StayKeeps DEF CloseGone
  <2>3. CASE dev # None
    BY <1>2, <1>3, <2>1, <2>3 DEF CloseGone, At, Probers
  <2> QED
    BY <2>2, <2>3
<1>4. CASE SelectOther
  BY <1>2, <1>4 DEF SelectOther, At, bus, Probers
<1>5. CASE RetryParked
  BY <1>1, <1>5, StayKeeps DEF RetryParked
<1>6. CASE UNCHANGED vars
  BY <1>1, <1>6, StayKeeps DEF vars, path
<1>7. CASE \E d \in Devs : Unplug(d) \/ GoneEvent(d)
  BY <1>1, <1>7, StayKeeps DEF Unplug, GoneEvent
<1> QED
  BY <1>3, <1>4, <1>5, <1>6, <1>7

LEMMA PathStep == IPath /\ KnownBus /\ [Next]_vars => IPath'
<1> SUFFICES ASSUME IPath, KnownBus, [Next]_vars PROVE IPath'
  OBVIOUS
<1>1. ASSUME NEW t \in Tasks, Request(t) PROVE IPath'
  BY <1>1, LockKeeps, SubmitKeeps, WakeKeeps, AgainKeeps, GiveUpKeeps, ReleaseKeeps DEF Request
<1>2. ASSUME NEW t \in Users, Call(t) PROVE IPath'
  BY <1>2, TasksKeep DEF Tasks
<1>3. ASSUME NEW t \in Probers, Probe(t) \/ Closing(t) PROVE IPath'
  BY <1>3, TasksKeep, TakeForCloseKeeps, CloseKeeps DEF Tasks, Closing
<1>4. CASE CloseGone \/ SelectOther \/ RetryParked \/ UNCHANGED vars
           \/ \E d \in Devs : Unplug(d) \/ GoneEvent(d)
  BY <1>4, OthersKeep
<1>5. CASE Finish \/ Callback \/ GiveSem
  BY <1>5, FinishKeeps, CallbackKeeps, GiveSemKeeps
<1> QED
  BY <1>1, <1>2, <1>3, <1>4, <1>5 DEF Next

\* The request path keeps its types and its invariant, for any number of
\* devices and of callers, with and without the application alone.
THEOREM PathHolds == Spec => [](IPath /\ KnownBus)
<1>1. Init => IPath /\ KnownBus
  BY PathInit, Names DEF Init, KnownBus
<1>2. IPath /\ KnownBus /\ [Next]_vars => (IPath /\ KnownBus)'
  BY PathStep, BusStays
<1> QED
  BY <1>1, <1>2, PTL DEF Spec

\* esp_rtl_sdr.cpp 940, "ctrl_xfer cannot be reused": the transfer object is
\* at rest whenever a caller is about to fill it in.
THEOREM AtRestWhenFilled == Spec => []XferAtRest
<1>1. IPath => XferAtRest
  BY DEF IPath, FlagIsExact, XferAtRest, At
<1> QED
  BY <1>1, PathHolds, PTL

\* A request that reports success was answered: neither the answer to an
\* earlier request nor the semaphore given late for it is taken for its own.
THEOREM AnswersAreOwn == Spec => []OkIsAnswered
<1>1. IPath => OkIsAnswered
  BY DEF IPath, Answered, OkIsAnswered, At
<1> QED
  BY <1>1, PathHolds, PTL

\* 850-854: no device is closed while a transfer is in flight on it, by a
\* close or by the retry of the parked ones.
THEOREM ClosesAtRest == Spec => ClosedAtRest
<1>1. IPath /\ KnownBus /\ [Next]_vars => [\A d \in opens \ opens' : xfer.dev # d]_vars
  <2> SUFFICES ASSUME IPath, KnownBus, Next, NEW d \in opens \ opens' PROVE xfer.dev # d
    BY DEF vars, bus
  <2>1. ~inflight
    BY DEF Next, bus, Request, Lock, Submit, Wake, Again, GiveUp, Release, Call, Probe, Closing,
       Keep, DrainEnds, TakeForClose, Close, Park, Forget, CloseGone, RetryParked, SelectOther,
       Finish, Callback, GiveSem, Unplug, GoneEvent
  <2> QED
    BY <2>1, Names DEF IPath, FlagIsExact, NoXfer, KnownBus
<1> QED
  BY <1>1, PathHolds, PTL DEF Spec, ClosedAtRest

----------------------------------------------------------------------------
(* The devices, when the application selects alone.                        *)

\* While the application works on a device nobody else does, and nothing is gone.
Turns ==
  ~At(App, "idle") => told = {} /\ ~gone /\ \A t \in Tasks \ {App} : At(t, "idle")

Asking == {"lock", "submit", "wait", "backoff", "unlock"}

\* Callers only ask; the client probes or closes a device that is gone, the
\* application probes or selects.
Roles ==
  /\ \A t \in Users : task[t].pc \in Asking \cup {"idle"} /\ task[t].job # "probe"
  /\ \A t \in Probers : task[t].pc \in Asking \cup {"keep"} => task[t].job = "probe"
  /\ ~At(Client, "idle") => task[Client].job = "probe" \/ (task[Client].job = "unplug" /\ gone)

\* Between a device's first use and its end it is open and not parked; who
\* asks for another's device still finds it open, for it holds the mutex.
Working ==
  /\ \A t \in Users : task[t].pc \in {"submit", "wait", "backoff"} => task[t].dev \in opens
  /\ \A t \in Probers : task[t].pc \notin {"idle", "forget"} =>
        /\ task[t].dev \in opens \ parked
        /\ (task[t].job = "probe") <=> (task[t].dev # dev)

\* The handle's device is open until the moment it is about to be forgotten.
Kept ==
  /\ dev \in (opens \ parked) \cup {None}
     \/ \E t \in Probers : At(t, "forget") /\ task[t].job # "probe"
  /\ \A t \in Probers : At(t, "forget") =>
        /\ task[t].job # "probe" => task[t].dev = dev
        /\ task[t].dev \in opens => task[t].dev \in parked \cup leaked

BusTypes ==
  /\ gone \in BOOLEAN
  /\ parked \subseteq opens /\ opens \subseteq Devs /\ here \subseteq Devs
  /\ told \subseteq opens /\ leaked \subseteq Devs

IBus == BusTypes /\ Turns /\ Roles /\ Working /\ Kept /\ NoneLost

LEMMA BusInit == Init => IBus
<1> SUFFICES ASSUME Init PROVE IBus
  OBVIOUS
<1> USE Names, IdleFits DEF Init
<1>1. \A t \in Tasks : task[t] = Idle
  OBVIOUS
<1>2. BusTypes
  <2>1. gone \in BOOLEAN
    OBVIOUS
  <2> QED
    BY <2>1 DEF BusTypes
<1>3. Turns
  BY <1>1 DEF Turns, At
<1>4. Roles
  BY <1>1 DEF Roles, At, Tasks, Probers, Asking
<1>5. Working
  BY <1>1 DEF Working, Tasks
<1>6. Kept /\ NoneLost
  BY <1>1 DEF Kept, NoneLost, At, Tasks
<1> QED
  BY <1>2, <1>3, <1>4, <1>5, <1>6 DEF IBus

\* Steps that change no device: a caller moves, a prober moves, nobody does.
LEMMA CallerMoves ==
  ASSUME IBus, NEW t \in Users, UNCHANGED bus, OthersStay(t),
         At(App, "idle"), task'[t].pc \in Asking \cup {"idle"}, task'[t].job # "probe",
         task'[t].pc \in {"submit", "wait", "backoff"} => task'[t].dev \in opens
  PROVE  IBus'
<1> USE Names DEF IBus, bus
<1>1. \A u \in Probers : u \in Tasks \ {t}
  BY ControlTasks DEF Tasks, Probers
<1>2. \A u \in Probers : task'[u] = task[u]
  BY <1>1 DEF OthersStay
<1>3. Turns' /\ BusTypes'
  BY <1>2 DEF Turns, BusTypes, At, Probers
<1>4. Roles' /\ Working'
  BY <1>2 DEF Roles, Working, At, OthersStay, Tasks, Probers
<1>5. Kept'
  BY <1>2 DEF Kept, At
<1>6. NoneLost'
  BY <1>2 DEF NoneLost, At
<1> QED
  BY <1>3, <1>4, <1>5, <1>6

LEMMA ProberMoves ==
  ASSUME IBus, NEW t \in Probers, UNCHANGED bus, OthersStay(t),
         task[t].pc \notin {"idle", "forget"}, task'[t].pc \notin {"idle", "forget"},
         task'[t].dev = task[t].dev, task'[t].job = task[t].job,
         task'[t].pc \in Asking \cup {"keep"} => task[t].job = "probe"
  PROVE  IBus'
<1> USE Names DEF IBus, bus
<1>1. t \in Tasks /\ Probers \subseteq Tasks /\ Users \subseteq Tasks \ {t}
  BY ControlTasks DEF Tasks, Probers
<1>2. Turns' /\ BusTypes'
  BY <1>1 DEF Turns, BusTypes, At, OthersStay
<1>3. Roles'
  BY <1>1 DEF Roles, At, OthersStay, Probers
<1>4. Working'
  BY <1>1 DEF Working, OthersStay
<1>5. Kept'
  BY <1>1 DEF Kept, At, OthersStay
<1>6. NoneLost'
  BY <1>1 DEF NoneLost, At, OthersStay
<1> QED
  BY <1>2, <1>3, <1>4, <1>5, <1>6

LEMMA NobodyMoves == ASSUME IBus, UNCHANGED <<bus, task>> PROVE IBus'
BY DEF IBus, BusTypes, Turns, Roles, Working, Kept, NoneLost, At, bus

\* Where a request takes its task, and for which device.
Step(t, q) ==
  /\ q.pc \in Asking /\ q.job = task[t].job
  /\ \/ /\ q.dev = task[t].dev
        /\ q.pc \in {"submit", "wait", "backoff"} => task[t].pc \in {"submit", "wait", "backoff"}
     \/ task[t].pc = "lock" /\ q.dev = Target(t) /\ (q.pc = "unlock" \/ q.dev # None)

LEMMA RequestMoves ==
  ASSUME PathTypes, NEW t \in Tasks, Request(t)
  PROVE  /\ OthersStay(t) /\ UNCHANGED bus /\ task[t].pc \in Asking
         /\ \/ Step(t, task'[t])
            \/ /\ task[t].job = "probe" /\ task'[t].pc \in {"keep", "drain"}
               /\ task'[t].job = task[t].job /\ task'[t].dev = task[t].dev
            \/ task[t].job # "probe" /\ task'[t].pc = "idle" /\ task'[t].job = "none"
<1> USE Names
<1>1. OthersStay(t) /\ UNCHANGED bus /\ task[t].pc \in Asking
  <2>1. UNCHANGED bus
    BY DEF Request, Lock, Submit, Wake, Again, GiveUp, Release
  <2>2. task[t].pc \in Asking
    BY DEF Request, Lock, Submit, Wake, Again, GiveUp, Release, At, Asking
  <2>3. \E r : Put(t, r)
    BY DEF Request, Lock, Submit, Wake, Again, GiveUp, Release, Go, Unlock, PathTypes, Answers
  <2>4. OthersStay(t)
    BY <2>3 DEF Put, OthersStay, PathTypes
  <2> QED
    BY <2>1, <2>2, <2>4
<1>2. CASE Lock(t)
  <2> DEFINE l == [task[t] EXCEPT !.dev = Target(t), !.n = 0]
  <2>1. task[t] \in TaskRec /\ l.job = task[t].job /\ l.dev = Target(t)
        /\ l \in [pc: PCs, dev: {Target(t)}, n: {0}, ret: {"none", "ok", "usb", "timeout"}, job: Jobs]
    BY DEF PathTypes, TaskRec
  <2>2. \/ task'[t] = [l EXCEPT !.pc = "unlock", !.ret = "usb"]
        \/ task'[t] = [l EXCEPT !.pc = "unlock", !.ret = "timeout"]
        \/ Target(t) # None /\ task'[t] = [l EXCEPT !.pc = "submit"]
    BY <1>2 DEF Lock, Put, PathTypes
  <2> HIDE DEF l
  <2>3. /\ task'[t].pc \in {"unlock", "submit"} /\ task'[t].job = task[t].job
        /\ task'[t].dev = Target(t) /\ (task'[t].pc = "unlock" \/ Target(t) # None)
    BY <2>1, <2>2
  <2>4. task[t].pc = "lock"
    BY <1>2 DEF Lock, At
  <2> QED
    BY <1>1, <2>3, <2>4 DEF Step, Asking
<1>3. CASE Submit(t)
  <2>1. task[t].pc = "submit" /\ task[t] \in TaskRec
    BY <1>3 DEF Submit, At, PathTypes
  <2>2. \/ task'[t] = [task[t] EXCEPT !.pc = "wait", !.n = @ + 1]
        \/ task'[t] = [task[t] EXCEPT !.pc = "unlock", !.ret = "usb"]
    BY <1>3 DEF Submit, Put, Unlock, PathTypes
  <2>3. task'[t].pc \in {"wait", "unlock"} /\ task'[t].job = task[t].job /\ task'[t].dev = task[t].dev
    BY <2>1, <2>2 DEF TaskRec
  <2> QED
    BY <1>1, <2>1, <2>3 DEF Step, Asking
<1>4. CASE Wake(t)
  <2>1. task[t].pc = "wait"
    BY <1>4 DEF Wake, At
  <2>2. status \in Answers
    BY DEF PathTypes
  <2>3. (\E r \in {"ok", "usb"} : Unlock(t, r)) \/ Go(t, "backoff")
    BY <1>4, <2>2 DEF Wake, Answers
  <2>4. task'[t].pc \in {"backoff", "unlock"} /\ task'[t].job = task[t].job /\ task'[t].dev = task[t].dev
    BY <2>3, UnlockMoves, GoMoves DEF PCs
  <2> QED
    BY <1>1, <2>1, <2>4 DEF Step, Asking
<1>5. CASE Again(t)
  <2>1. task[t].pc = "backoff" /\ task'[t].pc = "submit"
        /\ task'[t].job = task[t].job /\ task'[t].dev = task[t].dev
    BY <1>5, GoMoves DEF Again, At, PCs
  <2> QED
    BY <1>1, <2>1 DEF Step, Asking
<1>6. CASE GiveUp(t)
  <2>1. task'[t].pc = "unlock" /\ task'[t].job = task[t].job /\ task'[t].dev = task[t].dev
    BY <1>6, UnlockMoves DEF GiveUp
  <2> QED
    BY <1>1, <2>1 DEF Step, Asking
<1>7. CASE Release(t)
  <2>1. CASE task[t].job = "probe"
    BY <1>1, <1>7, <2>1, GoMoves DEF Release, PCs
  <2>2. CASE task[t].job # "probe"
    <3>1. task'[t] = [Idle EXCEPT !.ret = task[t].ret]
      BY <1>7, <2>2 DEF Release, Put, PathTypes
    <3>2. task'[t].pc = "idle" /\ task'[t].job = "none"
      BY <3>1 DEF Idle
    <3> QED
      BY <1>1, <2>2, <3>2
  <2> QED
    BY <2>1, <2>2
<1> QED
  BY <1>2, <1>3, <1>4, <1>5, <1>6, <1>7 DEF Request

LEMMA RequestBus ==
  ASSUME IPath, IBus, NEW t \in Tasks, Request(t)
  PROVE  IBus'
<1> USE Names
<1>1. /\ OthersStay(t) /\ UNCHANGED bus /\ task[t].pc \in Asking
      /\ \/ Step(t, task'[t])
         \/ /\ task[t].job = "probe" /\ task'[t].pc \in {"keep", "drain"}
            /\ task'[t].job = task[t].job /\ task'[t].dev = task[t].dev
         \/ task[t].job # "probe" /\ task'[t].pc = "idle" /\ task'[t].job = "none"
  BY RequestMoves DEF IPath
<1>2. CASE t \in Users
  <2>1. task[t].job # "probe" /\ At(App, "idle")
    <3>1. task[t].pc # "idle" /\ t # App
      BY <1>1, <1>2, ControlTasks DEF Asking
    <3> QED
      BY <1>2, <3>1 DEF IBus, Roles, Turns, At
  <2>2. task[t].pc = "lock" /\ Target(t) # None => Target(t) \in opens
    <3>1. \A u \in Probers : At(u, "forget") /\ task[u].job # "probe" => u = Client /\ gone
      BY <2>1 DEF IBus, Roles, At, Probers
    <3> QED
      BY <2>1, <3>1 DEF Target, IBus, Kept
  <2>3. task[t].pc \in {"submit", "wait", "backoff"} => task[t].dev \in opens
    BY <1>2 DEF IBus, Working
  <2>4. task'[t].pc \in {"submit", "wait", "backoff"} => task'[t].dev \in opens
    <3>1. CASE Step(t, task'[t])
      BY <2>2, <2>3, <3>1 DEF Step
    <3>2. CASE task[t].job = "probe" \/ task'[t].pc = "idle"
      BY <2>1, <3>2
    <3> QED
      BY <1>1, <3>1, <3>2
  <2>5. task'[t].pc \in Asking \cup {"idle"} /\ task'[t].job # "probe"
    BY <1>1, <2>1 DEF Step, Asking
  <2> QED
    BY <1>1, <1>2, <2>1, <2>4, <2>5, CallerMoves
<1>3. CASE t \in Probers
  <2>1. task[t].job = "probe"
    BY <1>1, <1>3 DEF IBus, Roles
  <2>2. /\ task'[t].dev = task[t].dev /\ task'[t].job = task[t].job
        /\ task'[t].pc \in Asking \cup {"keep", "drain"}
    <3>1. CASE Step(t, task'[t])
      BY <2>1, <3>1 DEF Step, Target
    <3>2. CASE /\ task'[t].pc \in {"keep", "drain"}
               /\ task'[t].job = task[t].job /\ task'[t].dev = task[t].dev
      BY <3>2
    <3> QED
      BY <1>1, <2>1, <3>1, <3>2
  <2>3. task[t].pc \notin {"idle", "forget"} /\ task'[t].pc \notin {"idle", "forget"}
    BY <1>1, <2>2 DEF Asking
  <2> QED
    BY <1>1, <1>3, <2>1, <2>2, <2>3, ProberMoves
<1> QED
  BY <1>2, <1>3 DEF Tasks

LEMMA ClosingWaitsBus ==
  ASSUME IPath, IBus, NEW t \in Probers, DrainEnds(t) \/ TakeForClose(t)
  PROVE  IBus'
<1>1. PICK l \in {"take", "close", "park"} : Go(t, l)
  BY DEF DrainEnds, TakeForClose
<1>2. UNCHANGED bus /\ task[t].pc \in {"drain", "take"}
  BY DEF DrainEnds, TakeForClose, At
<1>3. /\ OthersStay(t) /\ task'[t].pc = l
      /\ task'[t].dev = task[t].dev /\ task'[t].job = task[t].job
  BY <1>1, GoMoves DEF IPath, PCs, Tasks
<1> QED
  BY <1>2, <1>3, ProberMoves DEF Asking

LEMMA CallBus == ASSUME IPath, IBus, AppAlone, NEW t \in Users, Call(t) PROVE IBus'
<1>1. task'[t] = [Idle EXCEPT !.pc = "lock", !.job = "control"] /\ OthersStay(t)
  BY DEF Call, Put, IPath, PathTypes, OthersStay, Tasks
<1>2. task'[t].pc = "lock" /\ task'[t].job = "control"
  BY <1>1 DEF Idle
<1> QED
  BY <1>1, <1>2, CallerMoves DEF Call, Calm, Asking

\* The two probers are never both at work.
LEMMA ProberAlone ==
  ASSUME IBus, NEW t \in Probers, AppAlone,
         ~At(t, "idle") \/ (At(App, "idle") /\ (t = App => Alone))
  PROVE  /\ \A u \in Probers \ {t} : task[u].pc = "idle"
         /\ t = App => ~gone /\ told = {} /\ \A u \in Users : task[u].pc = "idle"
<1> USE Names DEF Alone, At
<1>1. t = Client => \A u \in Probers \ {t} : task[u].pc = "idle"
  BY DEF IBus, Turns, Probers
<1>2. t = App => /\ \A u \in Probers \ {t} : task[u].pc = "idle"
                 /\ ~gone /\ told = {} /\ \A u \in Users : task[u].pc = "idle"
  BY ControlTasks DEF IBus, Turns, Probers, Tasks
<1> QED
  BY <1>1, <1>2 DEF Probers

LEMMA ProbeBus == ASSUME IPath, IBus, AppAlone, NEW t \in Probers, Probe(t) PROVE IBus'
<1> USE Names DEF IBus
<1>1. PICK d \in here \ opens :
        opens' = opens \cup {d} /\ Put(t, [Idle EXCEPT !.pc = "lock", !.dev = d, !.job = "probe"])
  BY DEF Probe
<1>2. /\ task[t].pc = "idle" /\ dev = None /\ At(App, "idle") /\ (t = App => Alone)
      /\ UNCHANGED <<dev, gone, parked, here, told, leaked>>
  BY DEF Probe, At, Calm
<1>3. task'[t].pc = "lock" /\ task'[t].dev = d /\ task'[t].job = "probe" /\ OthersStay(t)
  <2>1. task'[t] = [Idle EXCEPT !.pc = "lock", !.dev = d, !.job = "probe"] /\ OthersStay(t)
    BY <1>1 DEF Put, IPath, PathTypes, OthersStay, Tasks
  <2> QED
    BY <2>1 DEF Idle
<1>4. /\ \A u \in Probers \ {t} : task[u].pc = "idle"
      /\ t = App => ~gone /\ told = {} /\ \A u \in Users : task[u].pc = "idle"
  BY <1>2, ProberAlone
<1>5. \A u \in Users : u \in Tasks /\ task'[u] = task[u]
  BY <1>3, ControlTasks DEF OthersStay, Tasks, Probers
<1>6. \A u \in Probers \ {t} : u \in Tasks /\ task'[u] = task[u]
  BY <1>3 DEF OthersStay, Tasks
<1>7. BusTypes' /\ Roles'
  BY <1>1, <1>2, <1>3, <1>5, <1>6 DEF BusTypes, Roles, At, Probers
<1>8. Turns'
  <2>1. CASE t = App
    BY <1>2, <1>4, <1>5, <1>6, <2>1 DEF Turns, At, Tasks, Probers
  <2>2. CASE t # App
    BY <1>2, <1>6, <2>2 DEF Turns, At, Probers
  <2> QED
    BY <2>1, <2>2
<1>9. Working' /\ Kept' /\ NoneLost'
  <2>1. d \notin parked /\ d # None
    BY <1>1 DEF BusTypes
  <2>2. Working'
    BY <1>1, <1>2, <1>3, <1>4, <1>5, <1>6, <2>1 DEF Working
  <2>3. Kept'
    BY <1>1, <1>2, <1>3, <1>4, <1>6 DEF Kept, At
  <2>4. NoneLost'
    BY <1>1, <1>2, <1>3, <1>4, <1>6 DEF NoneLost, At
  <2> QED
    BY <2>2, <2>3, <2>4
<1> QED
  BY <1>7, <1>8, <1>9

LEMMA KeepBus == ASSUME IPath, IBus, AppAlone, NEW t \in Probers, Keep(t) PROVE IBus'
<1> USE Names, IdleFits DEF IBus
<1>1. task[t].pc = "keep" /\ UNCHANGED <<gone, parked, opens, here, told, leaked>>
  BY DEF Keep, At
<1>2. /\ OthersStay(t)
      /\ \/ dev' = task[t].dev /\ task'[t] = Idle /\ dev = None
         \/ dev' = dev /\ task'[t].pc = "drain" /\ task'[t].dev = task[t].dev /\ task'[t].job = task[t].job
  <2>1. CASE dev = None
    BY <2>1, IdleFits, PutMoves DEF Keep, IPath, Tasks
  <2>2. CASE dev # None
    BY <2>2, GoMoves DEF Keep, IPath, PCs, Tasks
  <2> QED
    BY <2>1, <2>2
<1>3. /\ \A u \in Probers \ {t} : task[u].pc = "idle"
      /\ t = App => ~gone /\ told = {} /\ \A u \in Users : task[u].pc = "idle"
  <2>1. ~At(t, "idle")
    BY <1>1 DEF At
  <2> QED
    BY <2>1, ProberAlone
<1>4. \A u \in Users \cup (Probers \ {t}) : u \in Tasks /\ task'[u] = task[u]
  BY <1>2, ControlTasks DEF OthersStay, Tasks, Probers
<1>5. task[t].dev \in Devs \cup {None}
  BY DEF IPath, PathTypes, TaskRec, Tasks
<1>6. BusTypes' /\ Roles'
  BY <1>1, <1>2, <1>3, <1>4, <1>5 DEF BusTypes, Roles, Working, At, Probers, Asking
<1>7. Turns'
  <2>1. CASE t = App
    BY <1>1, <1>2, <1>3, <1>4, <2>1 DEF Turns, At, Tasks, Probers
  <2>2. CASE t # App
    BY <1>1, <1>3, <1>4, <2>2 DEF Turns, At, Probers
  <2> QED
    BY <2>1, <2>2
<1>8. Working'
  BY <1>1, <1>2, <1>3, <1>4 DEF Working, Roles, Kept, At
<1>9. Kept'
  BY <1>1, <1>2, <1>3, <1>4 DEF Kept, Working, At
<1>10. NoneLost'
  BY <1>1, <1>2, <1>3, <1>4 DEF NoneLost, Kept, Working, BusTypes, At
<1> QED
  BY <1>6, <1>7, <1>8, <1>9, <1>10

LEMMA CloseBus == ASSUME IPath, IBus, AppAlone, NEW t \in Probers, Close(t) PROVE IBus'
<1> USE Names, IdleFits DEF IBus
<1>1. /\ task[t].pc = "close" /\ UNCHANGED <<dev, gone, parked, here, leaked>>
      /\ \A u \in Users : task[u].pc \notin {"submit", "wait", "backoff"}
  <2>1. task[t].pc = "close" /\ UNCHANGED <<dev, gone, parked, here, leaked>>
    BY DEF Close, At
  <2>2. mutex = t
    BY <2>1 DEF IPath, Sole, Held, Tasks
  <2>3. \A u \in Users : u \in Tasks /\ mutex # u
    BY <2>2, ControlTasks DEF Tasks, Probers
  <2>4. \A u \in Users : task[u].pc \notin Held
    BY <2>3 DEF IPath, Sole
  <2> QED
    BY <2>1, <2>4 DEF Held
<1>2. /\ OthersStay(t) /\ task'[t].dev = task[t].dev /\ task'[t].job = task[t].job
      /\ \/ /\ opens' = opens \ {task[t].dev} /\ told' = told \ {task[t].dev}
            /\ task'[t].pc = "forget"
         \/ UNCHANGED <<opens, told>> /\ task'[t].pc = "park"
  BY GoMoves DEF Close, IPath, PCs, Tasks
<1>3. /\ \A u \in Probers \ {t} : task[u].pc = "idle"
      /\ t = App => ~gone /\ told = {} /\ \A u \in Users : task[u].pc = "idle"
  <2>1. ~At(t, "idle")
    BY <1>1 DEF At
  <2> QED
    BY <2>1, ProberAlone
<1>4. \A u \in Users \cup (Probers \ {t}) : u \in Tasks /\ task'[u] = task[u]
  BY <1>2, ControlTasks DEF OthersStay, Tasks, Probers
<1>5. task[t].dev \in Devs \cup {None}
  BY DEF IPath, PathTypes, TaskRec, Tasks
<1>6. BusTypes' /\ Roles'
  BY <1>1, <1>2, <1>3, <1>4, <1>5 DEF BusTypes, Roles, Working, At, Probers, Asking
<1>7. Turns'
  <2>1. CASE t = App
    BY <1>1, <1>2, <1>3, <1>4, <2>1 DEF Turns, At, Tasks, Probers
  <2>2. CASE t # App
    BY <1>1, <1>3, <1>4, <2>2 DEF Turns, At, Probers
  <2> QED
    BY <2>1, <2>2
<1>8. Working'
  BY <1>1, <1>2, <1>3, <1>4 DEF Working, Roles, Kept, At
<1>9. Kept'
  BY <1>1, <1>2, <1>3, <1>4 DEF Kept, Working, At
<1>10. NoneLost'
  BY <1>1, <1>2, <1>3, <1>4 DEF NoneLost, Kept, Working, BusTypes, At
<1> QED
  BY <1>6, <1>7, <1>8, <1>9, <1>10

LEMMA ParkBus == ASSUME IPath, IBus, AppAlone, NEW t \in Probers, Park(t) PROVE IBus'
<1> USE Names, IdleFits DEF IBus
<1>1. task[t].pc = "park" /\ UNCHANGED <<dev, gone, opens, here, told>>
  BY DEF Park, At
<1>2. /\ OthersStay(t) /\ task'[t].dev = task[t].dev /\ task'[t].job = task[t].job
      /\ task'[t].pc = "forget"
      /\ \/ parked' = parked \cup {task[t].dev} /\ UNCHANGED leaked
         \/ leaked' = leaked \cup {task[t].dev} /\ UNCHANGED parked
  BY GoMoves DEF Park, IPath, PCs, Tasks
<1>3. /\ \A u \in Probers \ {t} : task[u].pc = "idle"
      /\ t = App => ~gone /\ told = {} /\ \A u \in Users : task[u].pc = "idle"
  <2>1. ~At(t, "idle")
    BY <1>1 DEF At
  <2> QED
    BY <2>1, ProberAlone
<1>4. \A u \in Users \cup (Probers \ {t}) : u \in Tasks /\ task'[u] = task[u]
  BY <1>2, ControlTasks DEF OthersStay, Tasks, Probers
<1>5. task[t].dev \in Devs \cup {None}
  BY DEF IPath, PathTypes, TaskRec, Tasks
<1>6. BusTypes' /\ Roles'
  BY <1>1, <1>2, <1>3, <1>4, <1>5 DEF BusTypes, Roles, Working, At, Probers, Asking
<1>7. Turns'
  <2>1. CASE t = App
    BY <1>1, <1>2, <1>3, <1>4, <2>1 DEF Turns, At, Tasks, Probers
  <2>2. CASE t # App
    BY <1>1, <1>3, <1>4, <2>2 DEF Turns, At, Probers
  <2> QED
    BY <2>1, <2>2
<1>8. Working'
  BY <1>1, <1>2, <1>3, <1>4 DEF Working, Roles, Kept, At
<1>9. Kept'
  BY <1>1, <1>2, <1>3, <1>4 DEF Kept, Working, At
<1>10. NoneLost'
  BY <1>1, <1>2, <1>3, <1>4 DEF NoneLost, Kept, Working, BusTypes, At
<1> QED
  BY <1>6, <1>7, <1>8, <1>9, <1>10

LEMMA ForgetBus == ASSUME IPath, IBus, AppAlone, NEW t \in Probers, Forget(t) PROVE IBus'
<1> USE Names, IdleFits DEF IBus
<1>1. task[t].pc = "forget" /\ UNCHANGED <<parked, opens, here, told, leaked>>
  BY DEF Forget, At
<1>2. /\ OthersStay(t) /\ task'[t] = Idle
      /\ dev' = IF task[t].job = "probe" THEN dev ELSE None
      /\ gone' = (gone /\ task[t].job # "unplug")
  BY IdleFits, PutMoves DEF Forget, IPath, Tasks
<1>3. /\ \A u \in Probers \ {t} : task[u].pc = "idle"
      /\ t = App => ~gone /\ told = {} /\ \A u \in Users : task[u].pc = "idle"
  <2>1. ~At(t, "idle")
    BY <1>1 DEF At
  <2> QED
    BY <2>1, ProberAlone
<1>4. \A u \in Users \cup (Probers \ {t}) : u \in Tasks /\ task'[u] = task[u]
  BY <1>2, ControlTasks DEF OthersStay, Tasks, Probers
<1>5. task[t].dev \in Devs \cup {None}
  BY DEF IPath, PathTypes, TaskRec, Tasks
<1>6. BusTypes' /\ Roles'
  BY <1>1, <1>2, <1>3, <1>4, <1>5 DEF BusTypes, Roles, Working, At, Probers, Asking
<1>7. Turns'
  <2>1. CASE t = App
    BY <1>1, <1>2, <1>3, <1>4, <2>1 DEF Turns, At, Tasks, Probers
  <2>2. CASE t # App
    BY <1>1, <1>3, <1>4, <2>2 DEF Turns, At, Probers
  <2> QED
    BY <2>1, <2>2
<1>8. Working'
  BY <1>1, <1>2, <1>3, <1>4 DEF Working, Roles, Kept, At
<1>9. Kept'
  BY <1>1, <1>2, <1>3, <1>4 DEF Kept, Working, At
<1>10. NoneLost'
  BY <1>1, <1>2, <1>3, <1>4 DEF NoneLost, Kept, Working, BusTypes, At
<1> QED
  BY <1>6, <1>7, <1>8, <1>9, <1>10

\* A prober begins to close the handle's device.
LEMMA BeginCloseBus ==
  ASSUME IPath, IBus, AppAlone, CloseGone \/ SelectOther
  PROVE  IBus'
<1> USE Names, IdleFits DEF IBus
<1>1. CASE UNCHANGED task
  <2>1. CloseGone /\ dev = None /\ gone' = FALSE /\ UNCHANGED <<dev, parked, opens, here, told, leaked, task>>
    <3>1. ~SelectOther
      <4>1. SUFFICES ASSUME SelectOther PROVE FALSE
        OBVIOUS
      <4>2. task[App].pc = "idle" /\ task'[App] = [Idle EXCEPT !.pc = "drain", !.dev = dev, !.job = "select"]
        BY <4>1 DEF SelectOther, At, Put, IPath, PathTypes
      <4>3. task'[App].pc = "drain"
        BY <4>2 DEF Idle
      <4> QED
        BY <1>1, <4>2, <4>3
    <3>2. CloseGone /\ task[Client].pc = "idle"
      BY <3>1 DEF CloseGone, At
    <3>3. CASE dev = None
      BY <3>2, <3>3, <1>1 DEF CloseGone
    <3>4. CASE dev # None
      <4>1. task'[Client] = [Idle EXCEPT !.pc = "drain", !.dev = dev, !.job = "unplug"]
        BY <3>2, <3>4 DEF CloseGone, Put, IPath, PathTypes
      <4>2. task'[Client].pc = "drain"
        BY <4>1 DEF Idle
      <4> QED
        BY <1>1, <3>2, <4>2
    <3> QED
      BY <3>3, <3>4
  <2>2. task[Client].pc = "idle"
    BY <2>1 DEF CloseGone, At
  <2>3. BusTypes'
    <3>1. gone' \in BOOLEAN
      BY <2>1
    <3> QED
      BY <2>1, <3>1 DEF BusTypes
  <2>4. Turns' /\ Roles'
    BY <2>1, <2>2 DEF Turns, Roles, At
  <2>5. Working' /\ Kept' /\ NoneLost'
    BY <2>1 DEF Working, Kept, NoneLost, At
  <2> QED
    BY <2>3, <2>4, <2>5
<1>2. CASE task' # task
  <2>1. PICK t \in Probers : \E j \in {"unplug", "select"} :
          /\ (t = Client /\ j = "unplug" /\ gone) \/ (t = App /\ j = "select" /\ Alone)
          /\ task[t].pc = "idle" /\ dev # None
          /\ Put(t, [Idle EXCEPT !.pc = "drain", !.dev = dev, !.job = j]) /\ UNCHANGED bus
    BY <1>2 DEF CloseGone, SelectOther, At, Probers, bus
  <2>2. PICK j \in {"unplug", "select"} :
          /\ (t = Client /\ j = "unplug" /\ gone) \/ (t = App /\ j = "select" /\ Alone)
          /\ Put(t, [Idle EXCEPT !.pc = "drain", !.dev = dev, !.job = j])
    BY <2>1
  <2>3. task'[t].pc = "drain" /\ task'[t].dev = dev /\ task'[t].job = j /\ OthersStay(t)
    <3>1. task'[t] = [Idle EXCEPT !.pc = "drain", !.dev = dev, !.job = j] /\ OthersStay(t)
      BY <2>2 DEF Put, IPath, PathTypes, OthersStay, Tasks
    <3> QED
      BY <3>1 DEF Idle
  <2>4. /\ \A u \in Probers \ {t} : task[u].pc = "idle"
        /\ t = App => ~gone /\ told = {} /\ \A u \in Users : task[u].pc = "idle"
    <3>1. At(App, "idle")
      BY <2>1, <2>2 DEF Turns, At
    <3> QED
      BY <2>2, <3>1, ProberAlone
  <2>5. \A u \in Users \cup (Probers \ {t}) : u \in Tasks /\ task'[u] = task[u]
    BY <2>3, ControlTasks DEF OthersStay, Tasks, Probers
  <2>6. \A u \in Probers : ~At(u, "forget")
    BY <2>1, <2>4 DEF At
  <2>7. BusTypes' /\ Roles'
    BY <2>1, <2>2, <2>3, <2>5 DEF BusTypes, Roles, At, Probers, Asking, bus
  <2>8. Turns'
    <3>1. CASE t = App
      BY <2>1, <2>3, <2>4, <2>5, <3>1 DEF Turns, At, Tasks, Probers, bus
    <3>2. CASE t # App
      BY <2>4, <2>5, <3>2 DEF Turns, At, Probers
    <3> QED
      BY <3>1, <3>2
  <2>9. Working' /\ Kept' /\ NoneLost'
    <3>1. dev \in opens \ parked
      BY <2>1, <2>6 DEF Kept
    <3>2. j # "probe"
      BY <2>2
    <3>3. Working'
      BY <2>1, <2>2, <2>3, <2>4, <2>5, <3>1 DEF Working, bus
    <3>4. Kept'
      BY <2>1, <2>3, <2>4, <2>5, <3>1 DEF Kept, At, bus
    <3>5. NoneLost'
      BY <2>1, <2>3, <2>4, <2>5 DEF NoneLost, At, bus
    <3> QED
      BY <3>3, <3>4, <3>5
  <2> QED
    BY <2>7, <2>8, <2>9
<1> QED
  BY <1>1, <1>2

\* The parked are closed only while nobody has the mutex; none is in use.
LEMMA RetryBus == ASSUME IPath, IBus, RetryParked PROVE IBus'
<1> USE Names DEF IBus
<1>1. PICK ds \in SUBSET parked :
        parked' = parked \ ds /\ opens' = opens \ ds /\ told' = told \ ds
  BY DEF RetryParked
<1>2. mutex = None /\ UNCHANGED <<dev, gone, here, leaked, task>>
  BY DEF RetryParked
<1>3. \A u \in Users : task[u].pc \notin {"submit", "wait", "backoff"}
  BY <1>2 DEF IPath, Sole, Held, Tasks
<1>4. BusTypes' /\ Turns' /\ Roles'
  BY <1>1, <1>2 DEF BusTypes, Turns, Roles, At
<1>5. Working'
  BY <1>1, <1>2, <1>3 DEF Working
<1>6. Kept' /\ NoneLost'
  BY <1>1, <1>2 DEF Kept, NoneLost, At
<1> QED
  BY <1>4, <1>5, <1>6

LEMMA EventBus ==
  ASSUME IPath, IBus, AppAlone, NEW d \in Devs, Unplug(d) \/ GoneEvent(d)
  PROVE  IBus'
<1> USE Names DEF IBus
<1>1. UNCHANGED <<dev, parked, opens, leaked, task>>
  BY DEF Unplug, GoneEvent
<1>2. here' \subseteq here /\ told' \subseteq opens /\ gone' \in BOOLEAN
  <2>1. here' \subseteq here /\ told' \subseteq opens
    BY DEF Unplug, GoneEvent, BusTypes
  <2>2. gone' \in BOOLEAN
    BY DEF Unplug, GoneEvent, BusTypes
  <2> QED
    BY <2>1, <2>2
<1>3. At(App, "idle") /\ (gone => gone')
  <2>1. CASE Unplug(d)
    BY <2>1 DEF Unplug, Calm
  <2>2. CASE GoneEvent(d)
    <3>1. told # {} /\ gone' = (gone \/ d = dev)
      BY <2>2 DEF GoneEvent
    <3>2. At(App, "idle")
      BY <3>1 DEF Turns
    <3> QED
      BY <3>1, <3>2
  <2> QED
    BY <2>1, <2>2
<1>4. BusTypes' /\ Turns' /\ Roles'
  BY <1>1, <1>2, <1>3 DEF BusTypes, Turns, Roles, At
<1>5. Working' /\ Kept' /\ NoneLost'
  BY <1>1 DEF Working, Kept, NoneLost, At
<1> QED
  BY <1>4, <1>5

LEMMA BusStep ==
  ASSUME AppAlone, IPath, IBus, [Next]_vars
  PROVE  IBus'
<1>1. ASSUME NEW t \in Tasks, Request(t) PROVE IBus'
  BY <1>1, RequestBus
<1>2. ASSUME NEW t \in Users, Call(t) PROVE IBus'
  BY <1>2, CallBus
<1>3. ASSUME NEW t \in Probers, Probe(t) \/ Closing(t) PROVE IBus'
  BY <1>3, ProbeBus, KeepBus, ClosingWaitsBus, CloseBus, ParkBus, ForgetBus DEF Closing
<1>4. CASE CloseGone \/ SelectOther
  BY <1>4, BeginCloseBus
<1>5. CASE RetryParked
  BY <1>5, RetryBus
<1>6. ASSUME NEW d \in Devs, Unplug(d) \/ GoneEvent(d) PROVE IBus'
  BY <1>6, EventBus
<1>7. CASE Finish \/ Callback \/ GiveSem \/ UNCHANGED vars
  BY <1>7, NobodyMoves DEF Finish, Callback, GiveSem, vars, bus
<1> QED
  BY <1>1, <1>2, <1>3, <1>4, <1>5, <1>6, <1>7 DEF Next

THEOREM BusHolds == ASSUME AppAlone PROVE Spec => [](IPath /\ IBus)
<1>1. Init => IBus
  BY BusInit
<1>2. IPath /\ IBus /\ [Next]_vars => IBus'
  BY BusStep
<1> QED
  BY <1>1, <1>2, PathHolds, PTL DEF Spec

\* 1052-1055: if nothing else goes on while the application selects, then no
\* transfer is submitted to a device that was closed and none is closed twice.
THEOREM NoUseAfterClose == ASSUME AppAlone PROVE Spec => []OpenWhenUsed
<1>1. IPath /\ IBus => OpenWhenUsed
  BY DEF IBus, Working, Roles, Asking, OpenWhenUsed, Tasks
<1> QED
  BY <1>1, BusHolds, PTL

\* 855, "rather than crash or lose it": every open device is the handle's, at
\* work, or parked, until the list of the parked is full.
THEOREM DevicesAccounted == ASSUME AppAlone PROVE Spec => []NoneLost
<1>1. IBus => NoneLost
  BY DEF IBus
<1> QED
  BY <1>1, BusHolds, PTL

\* The list of parked devices never outgrows kMaxDeferredClose.
Counted == Cardinality(parked) <= Slots /\ calls \in 0..MaxCalls

LEMMA CountedStep == IBus /\ Counted /\ [Next]_vars => Counted'
<1> SUFFICES ASSUME IBus, Counted, [Next]_vars PROVE Counted'
  OBVIOUS
<1>1. IsFiniteSet(parked) /\ Cardinality(parked) \in Nat
  BY ControlTasks, FS_Subset, FS_CardinalityType DEF IBus, BusTypes
<1>2. calls' = calls \/ (calls < MaxCalls /\ calls' = calls + 1)
  BY DEF Next, vars, Request, Lock, Submit, Wake, Again, GiveUp, Release, Call, Probe, Closing,
     Keep, DrainEnds, TakeForClose, Close, Park, Forget, CloseGone, RetryParked, SelectOther,
     Finish, Callback, GiveSem, Unplug, GoneEvent
<1>3. calls' \in 0..MaxCalls
  BY <1>2, ControlBounds DEF Counted
<1>4. \/ parked' \subseteq parked
      \/ \E d : parked' = parked \cup {d} /\ (d \in parked \/ Cardinality(parked) < Slots)
  BY DEF Next, vars, bus, Request, Lock, Submit, Wake, Again, GiveUp, Release, Call, Probe, Closing,
     Keep, DrainEnds, TakeForClose, Close, Park, Forget, CloseGone, RetryParked, SelectOther,
     Finish, Callback, GiveSem, Unplug, GoneEvent
<1>5. CASE parked' \subseteq parked
  <2>1. Cardinality(parked') <= Cardinality(parked) /\ Cardinality(parked') \in Nat
    BY <1>1, <1>5, FS_Subset, FS_CardinalityType
  <2> QED
    BY <1>1, <1>3, <2>1, ControlBounds DEF Counted
<1>6. ASSUME NEW d, parked' = parked \cup {d}, d \in parked \/ Cardinality(parked) < Slots
      PROVE  Counted'
  <2>1. CASE d \in parked
    BY <1>3, <1>6, <2>1 DEF Counted
  <2>2. CASE d \notin parked
    <3>1. Cardinality(parked') = Cardinality(parked) + 1
      BY <1>1, <1>6, <2>2, FS_AddElement
    <3> QED
      BY <1>1, <1>3, <1>6, <2>2, <3>1, ControlBounds DEF Counted
  <2> QED
    BY <2>1, <2>2
<1> QED
  BY <1>4, <1>5, <1>6

\* Types, with the bound on the parked devices, if the application selects alone.
THEOREM TypeCorrect == ASSUME AppAlone PROVE Spec => []TypeOK
<1>1. Init => Counted
  BY ControlBounds, FS_EmptySet DEF Init, Counted
<1>2. IPath /\ IBus /\ Counted => TypeOK
  <2> SUFFICES ASSUME IPath, IBus, Counted PROVE TypeOK
    OBVIOUS
  <2>1. /\ mutex \in Tasks \cup {None} /\ xfer \in XferRec \cup {NoXfer} /\ sem \in 0..1
        /\ status \in Answers /\ dev \in Devs \cup {None}
        /\ task \in [Tasks -> TaskRec] /\ answer \in [Tasks -> Answers \cup {"none"}]
    BY DEF IPath, PathTypes
  <2>2. {inflight, giving, gone} \subseteq BOOLEAN
    BY DEF IPath, PathTypes, IBus, BusTypes
  <2>3. \A t \in Tasks : task[t].pc \in Held <=> mutex = t
    BY DEF IPath, Sole
  <2> QED
    BY <2>1, <2>2, <2>3 DEF TypeOK, IBus, BusTypes, Counted, TaskRec, XferRec, Jobs
<1> QED
  BY <1>1, <1>2, CountedStep, BusHolds, PTL DEF Spec
=============================================================================
