---------------------------- MODULE DevicesProofs ----------------------------
(***************************************************************************)
(* Proofs about Devices, for any number of handles, addresses and calls: a *)
(* claim does not outlive its reason (ClaimHasReason), whatever the        *)
(* application does; and if it calls while nothing else of its handle runs,*)
(* no two handles have the same dongle (NoSharing).  Every step is brought *)
(* to one of six kinds, by what it does to the claims and to the open      *)
(* devices; the invariants are then proved of the kinds.                   *)
(***************************************************************************)
EXTENDS Devices, FiniteSetTheorems, WellFoundedInduction, TLAPS

Fields == DOMAIN Locals

\* What the proofs need of the types: the shapes.
Shape ==
  /\ DOMAIN task = Tasks /\ \A t \in Tasks : DOMAIN task[t] = Fields
  /\ owner \in [Addrs -> Handles \cup {Nobody}]
  /\ DOMAIN dev = Handles

Keeping == {"kidentify", "asking", "answered"}
Taking == {"kopen", "release"} \cup Keeping

LEMMA FieldNames ==
  /\ Fields = {"pc", "a", "todo", "cands", "first", "stage", "after", "idx"}
  /\ NoAddr \notin Addrs /\ Nobody \notin Handles
  /\ \A t \in Tasks : t[1] \in Handles /\ t[2] \in {"client", "app"}
  /\ \A h \in Handles : Client(h) \in Tasks /\ App(h) \in Tasks
                        /\ Client(h)[1] = h /\ App(h)[1] = h /\ Client(h) # App(h)
BY AddrSet, HandleSet DEF Fields, Locals, NoAddr, Tasks, Client, App

\* Task t moves and no other.
Moved(t) == /\ DOMAIN task' = Tasks /\ DOMAIN task'[t] = Fields
            /\ \A u \in Tasks : u # t => task'[u] = task[u]

LEMMA PutMoves ==
  ASSUME Shape, NEW t \in Tasks
  PROVE  \A l : Put(t, l) => task'[t] = l /\ (DOMAIN l = Fields => Moved(t))
BY DEF Put, Moved, Shape

LEMMA Constructors ==
  ASSUME Shape, NEW t \in Tasks
  PROVE  /\ DOMAIN Locals = Fields /\ DOMAIN Back(t) = Fields /\ Back(t).pc \in {"idle", "drain"}
         /\ \A todo, stage : \A r : DOMAIN r = Fields =>
              /\ DOMAIN Listing(r, todo, stage) = Fields
              /\ Listing(r, todo, stage).pc = "list"
BY FieldNames DEF Fields, Back, Listing, Locals

(***************************************************************************)
(* The kinds of steps of a task.                                           *)
(***************************************************************************)

Looks(t) == /\ task[t].pc \notin Taking /\ task'[t].pc \notin Taking
            /\ UNCHANGED <<owner, dev>>

Claims(t) == /\ task[t].pc = "claim" /\ task'[t].pc = "kopen" /\ task'[t].a = task[t].a
             /\ dev[t[1]] # task[t].a /\ owner[task[t].a] \in {Nobody, t[1]}
             /\ owner' = [owner EXCEPT ![task[t].a] = t[1]] /\ UNCHANGED dev

Holds(t) == /\ task[t].pc \in {"kopen"} \cup Keeping /\ task'[t].pc \in Taking
            /\ task'[t].a = task[t].a /\ UNCHANGED <<owner, dev>>

Keeps(t) == /\ task[t].pc \in Keeping /\ task'[t].pc \notin Taking
            /\ dev[t[1]] = NoAddr /\ dev' = [dev EXCEPT ![t[1]] = task[t].a]
            /\ UNCHANGED owner

Gives(t) == /\ task[t].pc = "release" /\ task'[t].pc \notin Taking /\ UNCHANGED dev
            /\ owner' = IF task[t].a # NoAddr /\ owner[task[t].a] = t[1]
                        THEN [owner EXCEPT ![task[t].a] = Nobody] ELSE owner

Drops(t) == /\ task[t].pc = "drop" /\ task'[t].pc = "release" /\ task'[t].a = dev[t[1]]
            /\ dev' = [dev EXCEPT ![t[1]] = NoAddr] /\ UNCHANGED owner

Kind(t) == /\ Moved(t)
           /\ Looks(t) \/ Claims(t) \/ Holds(t) \/ Keeps(t) \/ Gives(t) \/ Drops(t)

\* The steps of a task that has claimed nothing.
Seeks(t) == \/ ListStep(t) \/ ProbeIdentify(t) \/ ListDone(t) \/ Select(t)
            \/ t[2] = "client" /\ (ClientTop(t[1]) \/ ClientTake(t[1]))
            \/ t[2] = "app" /\ (AppListed(t[1]) \/ \E op \in AppOps : AppCall(t[1], op))

LEMMA SeekMoves ==
  ASSUME Shape, NEW t \in Tasks, Seeks(t)
  PROVE  /\ task[t].pc \notin Taking /\ UNCHANGED <<owner, dev>>
         /\ Moved(t) /\ task'[t].pc \notin Taking
<1> USE FieldNames, Constructors, PutMoves DEF Go, Return, Take, At, Taking, Keeping
<1>0. DOMAIN task[t] = Fields
  BY DEF Shape
<1>1. CASE ListStep(t)
  <2> DEFINE a == Head(task[t].todo)
             listed == [task[t] EXCEPT !.todo = Tail(@), !.cands = Append(@, a)]
             opened == [task[t] EXCEPT !.pc = "identify", !.a = a, !.todo = Tail(@)]
             passed == [task[t] EXCEPT !.todo = Tail(@)]
  <2>1. /\ task[t].pc = "list" /\ UNCHANGED <<owner, dev>>
        /\ Put(t, listed) \/ Put(t, opened) \/ Put(t, passed)
    BY <1>1 DEF ListStep
  <2>2. /\ DOMAIN listed = Fields /\ listed.pc = task[t].pc
        /\ DOMAIN opened = Fields /\ opened.pc = "identify"
        /\ DOMAIN passed = Fields /\ passed.pc = task[t].pc
    BY <1>0
  <2> HIDE DEF listed, opened, passed
  <2> QED
    BY <2>1, <2>2
<1>2. CASE ProbeIdentify(t)
  <2> DEFINE a == task[t].a
             listed == [task[t] EXCEPT !.pc = "list", !.a = NoAddr, !.cands = Append(@, a)]
             passed == [task[t] EXCEPT !.pc = "list", !.a = NoAddr]
  <2>1. /\ task[t].pc = "identify" /\ UNCHANGED <<owner, dev>>
        /\ Put(t, listed) \/ Put(t, passed)
    BY <1>2 DEF ProbeIdentify
  <2>2. /\ DOMAIN listed = Fields /\ listed.pc = "list"
        /\ DOMAIN passed = Fields /\ passed.pc = "list"
    BY <1>0
  <2> HIDE DEF listed, passed
  <2> QED
    BY <2>1, <2>2
<1>3. CASE ListDone(t)
  <2> DEFINE i == IndexIn(task[t].cands, task[t].first)
             again == Listing(task[t], Listed, "list")
             takes == [Locals EXCEPT !.pc = "claim", !.a = task[t].first, !.idx = i]
             selects == [task[t] EXCEPT !.pc = "select"]
  <2>1. /\ task[t].pc = "list" /\ UNCHANGED <<owner, dev>>
        /\ Put(t, Back(t)) \/ Put(t, again) \/ Put(t, takes) \/ Put(t, selects)
    BY <1>3 DEF ListDone
  <2>3. DOMAIN again = Fields /\ again.pc = "list"
    <3> DEFINE l == task[t]
    <3>1. DOMAIN l = Fields
      BY <1>0
    <3> HIDE DEF l
    <3>2. DOMAIN Listing(l, Listed, "list") = Fields /\ Listing(l, Listed, "list").pc = "list"
      BY ONLY <3>1, Constructors, Shape, t \in Tasks
    <3> QED
      BY <3>2 DEF l
  <2>4. DOMAIN takes = Fields /\ takes.pc = "claim"
    OBVIOUS
  <2>2. DOMAIN selects = Fields /\ selects.pc = "select"
    BY <1>0
  <2> HIDE DEF again, takes, selects
  <2> QED
    BY <2>1, <2>2, <2>3, <2>4
<1>4. CASE Select(t)
  <2>1. task[t].pc = "select" /\ UNCHANGED <<owner, dev>>
    BY <1>4 DEF Select
  <2>2. Put(t, Back(t)) \/ \E a, i : Put(t, [Locals EXCEPT !.pc = "claim", !.a = a, !.idx = i])
    BY <1>4 DEF Select
  <2>3. ASSUME NEW a, NEW i, Put(t, [Locals EXCEPT !.pc = "claim", !.a = a, !.idx = i])
        PROVE  Moved(t) /\ task'[t].pc = "claim"
    <3> DEFINE l == [Locals EXCEPT !.pc = "claim", !.a = a, !.idx = i]
    <3>1. DOMAIN l = Fields /\ l.pc = "claim" /\ Put(t, l)
      BY <2>3
    <3> HIDE DEF l
    <3> QED
      BY <3>1
  <2> QED
    BY <2>1, <2>2, <2>3
<1>5. CASE t[2] = "client" /\ ClientTop(t[1])
  <2>1. Client(t[1]) = t
    BY <1>5 DEF Client, Tasks
  <2> QED
    <3> DEFINE drops == [Locals EXCEPT !.pc = "drop", !.after = "gone"]
               drains == [task[t] EXCEPT !.pc = "drain"]
    <3>1. /\ task[t].pc = "idle" /\ UNCHANGED <<owner, dev>>
          /\ Put(t, drops) \/ Put(t, drains)
      BY <1>5, <2>1 DEF ClientTop
    <3>2. DOMAIN drops = Fields /\ drops.pc = "drop"
      OBVIOUS
    <3>3. DOMAIN drains = Fields /\ drains.pc = "drain"
      BY <1>0
    <3> HIDE DEF drops, drains
    <3> QED
      BY <3>1, <3>2, <3>3
<1>6. CASE t[2] = "client" /\ ClientTake(t[1])
  <2>1. Client(t[1]) = t
    BY <1>6 DEF Client, Tasks
  <2> QED
    <3> DEFINE rescan == Listing(Locals, Listed, "list")
               drained == [task[t] EXCEPT !.pc = "idle"]
               b == Head(probeQ[t[1]])
    <3>1. task[t].pc = "drain" /\ UNCHANGED <<owner, dev>>
      BY <1>6, <2>1 DEF ClientTake
    <3>2. \/ Put(t, drained) \/ Put(t, rescan) \/ UNCHANGED task
          \/ Put(t, [Listing(Locals, <<b>>, "first") EXCEPT !.first = b])
      BY <1>6, <2>1 DEF ClientTake
    <3>3. /\ DOMAIN drained = Fields /\ drained.pc = "idle"
          /\ DOMAIN rescan = Fields /\ rescan.pc = "list"
      BY <1>0
    <3>4. ASSUME NEW a, Put(t, [Listing(Locals, <<a>>, "first") EXCEPT !.first = a])
          PROVE  Moved(t) /\ task'[t].pc = "list"
      <4> DEFINE r == Listing(Locals, <<a>>, "first")
      <4>1. DOMAIN r = Fields /\ r.pc = "list"
        OBVIOUS
      <4> HIDE DEF r
      <4>2. DOMAIN [r EXCEPT !.first = a] = Fields /\ [r EXCEPT !.first = a].pc = "list"
        BY <4>1
      <4> QED
        BY <3>4, <4>2 DEF r
    <3>5. CASE UNCHANGED task
      BY <3>1, <3>5 DEF Moved, Shape
    <3> HIDE DEF rescan, drained, b
    <3> QED
      BY <3>1, <3>2, <3>3, <3>4, <3>5
<1>7. CASE t[2] = "app" /\ AppListed(t[1])
  <2>1. App(t[1]) = t
    BY <1>7 DEF App, Tasks
  <2> QED
    <3> DEFINE drops == [task[t] EXCEPT !.todo = <<>>, !.pc = "drop", !.after = @]
               selects == [task[t] EXCEPT !.todo = <<>>, !.pc = "select", !.after = "return"]
    <3>1. /\ task[t].pc = "list" /\ UNCHANGED <<owner, dev>>
          /\ Put(t, Back(t)) \/ Put(t, drops) \/ Put(t, selects)
      BY <1>7, <2>1 DEF AppListed
    <3>2. /\ DOMAIN drops = Fields /\ drops.pc = "drop"
          /\ DOMAIN selects = Fields /\ selects.pc = "select"
      BY <1>0
    <3> HIDE DEF drops, selects
    <3> QED
      BY <3>1, <3>2
<1>8. CASE t[2] = "app" /\ \E op \in AppOps : AppCall(t[1], op)
  <2>1. App(t[1]) = t
    BY <1>8 DEF App, Tasks
  <2> QED
    <3>1. PICK op \in AppOps : AppCall(t[1], op)
      BY <1>8
    <3> DEFINE r == Listing(Locals, Listed, IF op = "hub" THEN "hub" ELSE "list")
               l == [r EXCEPT !.after = IF op = "select" THEN "select" ELSE "return"]
    <3>2. task[t].pc = "idle" /\ UNCHANGED <<owner, dev>> /\ Put(t, l)
      BY <2>1, <3>1 DEF AppCall
    <3>3. DOMAIN r = Fields /\ r.pc = "list"
      OBVIOUS
    <3> HIDE DEF r
    <3>4. DOMAIN l = Fields /\ l.pc = "list"
      BY <3>3
    <3> HIDE DEF l
    <3> QED
      BY <3>2, <3>4
<1> QED
  BY <1>1, <1>2, <1>3, <1>4, <1>5, <1>6, <1>7, <1>8 DEF Seeks

LEMMA ClaimMoves ==
  ASSUME Shape, NEW t \in Tasks, Claim(t)
  PROVE  Kind(t)
<1> DEFINE h == t[1]
           a == task[t].a
           going == [task[t] EXCEPT !.pc = "kopen"]
<1>1. task[t].pc = "claim" /\ UNCHANGED dev
  BY DEF Claim, At
<1>2. \/ Put(t, Back(t)) /\ UNCHANGED owner
      \/ /\ Put(t, going) /\ dev[h] # a /\ owner[a] \in {Nobody, h}
         /\ owner' = [owner EXCEPT ![a] = h]
  BY DEF Claim, CanClaim, Return, Go
<1>3. DOMAIN going = Fields /\ going.pc = "kopen" /\ going.a = a
  BY FieldNames DEF Shape
<1> HIDE DEF going
<1>4. CASE Put(t, Back(t)) /\ UNCHANGED owner
  BY <1>1, <1>4, Constructors, PutMoves DEF Kind, Looks, Taking, Keeping
<1>5. CASE /\ Put(t, going) /\ dev[h] # a /\ owner[a] \in {Nobody, h}
           /\ owner' = [owner EXCEPT ![a] = h]
  BY <1>1, <1>3, <1>5, PutMoves DEF Kind, Claims
<1> QED
  BY <1>2, <1>4, <1>5

LEMMA HoldMoves ==
  ASSUME Shape, NEW t \in Tasks, KeepOpen(t) \/ Answer(t) \/ KeepIdentify(t)
  PROVE  Kind(t)
<1> DEFINE To(l) == [task[t] EXCEPT !.pc = l]
<1>1. ASSUME NEW l, Put(t, To(l))
      PROVE  Moved(t) /\ task'[t].pc = l /\ task'[t].a = task[t].a
  <2> DEFINE r == To(l)
  <2>1. DOMAIN r = Fields /\ r.pc = l /\ r.a = task[t].a
    BY FieldNames DEF Shape
  <2> HIDE DEF r
  <2> QED
    BY <1>1, <2>1, PutMoves DEF r
<1>2. CASE KeepOpen(t)
  <2>1. /\ task[t].pc = "kopen" /\ UNCHANGED <<owner, dev>>
        /\ Put(t, To("kidentify")) \/ Put(t, To("asking")) \/ Put(t, To("release"))
    BY <1>2 DEF KeepOpen, At, Go
  <2> HIDE DEF To
  <2> QED
    BY <1>1, <2>1 DEF Kind, Holds, Taking, Keeping
<1>3. CASE Answer(t)
  <2>1. task[t].pc = "asking" /\ UNCHANGED <<owner, dev>> /\ Put(t, To("answered"))
    BY <1>3 DEF Answer, At, Go
  <2> HIDE DEF To
  <2> QED
    BY <1>1, <2>1 DEF Kind, Holds, Taking, Keeping
<1>4. CASE KeepIdentify(t)
  <2>1. task[t].pc \in Keeping /\ UNCHANGED owner
    BY <1>4 DEF KeepIdentify, Keeping
  <2>2. \/ Put(t, To("release")) /\ UNCHANGED dev
        \/ /\ dev[t[1]] = NoAddr /\ dev' = [dev EXCEPT ![t[1]] = task[t].a]
           /\ Put(t, Back(t))
    BY <1>4 DEF KeepIdentify, Return
  <2>3. CASE Put(t, To("release")) /\ UNCHANGED dev
    <3> HIDE DEF To
    <3> QED
      BY <1>1, <2>1, <2>3 DEF Kind, Holds, Taking
  <2>4. CASE /\ dev[t[1]] = NoAddr /\ dev' = [dev EXCEPT ![t[1]] = task[t].a]
             /\ Put(t, Back(t))
    BY <2>1, <2>4, Constructors, PutMoves DEF Kind, Keeps, Taking, Keeping
  <2> QED
    BY <2>2, <2>3, <2>4
<1> QED
  BY <1>2, <1>3, <1>4

LEMMA GiveMoves ==
  ASSUME Shape, NEW t \in Tasks, Release(t)
  PROVE  Kind(t)
<1> DEFINE back == [task[t] EXCEPT !.pc = "select", !.a = NoAddr, !.after = "return"]
<1>1. /\ task[t].pc = "release" /\ UNCHANGED dev
      /\ owner' = IF task[t].a # NoAddr /\ owner[task[t].a] = t[1]
                  THEN [owner EXCEPT ![task[t].a] = Nobody] ELSE owner
  BY DEF Release, At
<1>2. Put(t, back) \/ Put(t, Back(t))
  BY DEF Release, Return
<1>3. DOMAIN back = Fields /\ back.pc = "select"
  BY FieldNames DEF Shape
<1> HIDE DEF back
<1>4. Moved(t) /\ task'[t].pc \notin Taking
  BY <1>2, <1>3, Constructors, PutMoves DEF Taking, Keeping
<1> QED
  BY <1>1, <1>4 DEF Kind, Gives

LEMMA DropMoves ==
  ASSUME Shape, NEW t \in Tasks, Drop(t)
  PROVE  Kind(t)
<1> DEFINE back == [task[t] EXCEPT !.pc = "release", !.a = dev[t[1]]]
<1>1. /\ task[t].pc = "drop" /\ UNCHANGED owner
      /\ dev' = [dev EXCEPT ![t[1]] = NoAddr] /\ Put(t, back)
  BY DEF Drop, At
<1>2. DOMAIN back = Fields /\ back.pc = "release" /\ back.a = dev[t[1]]
  BY FieldNames DEF Shape
<1> HIDE DEF back
<1> QED
  BY <1>1, <1>2, PutMoves DEF Kind, Drops

Taken(t) == Claim(t) \/ KeepOpen(t) \/ Answer(t) \/ KeepIdentify(t) \/ Release(t) \/ Drop(t)

LEMMA StepMoves ==
  ASSUME Shape, NEW t \in Tasks, Seeks(t) \/ Taken(t)
  PROVE  Kind(t)
<1>1. CASE Seeks(t)
  BY <1>1, SeekMoves DEF Kind, Looks
<1>2. CASE Taken(t)
  BY <1>2, ClaimMoves, HoldMoves, GiveMoves, DropMoves DEF Taken
<1> QED
  BY <1>1, <1>2

\* A step is one of a task, the handling of an event, or the bus's.
LEMMA StepCases ==
  ASSUME [Next]_vars
  PROVE  \/ UNCHANGED vars
         \/ \E t \in Tasks : Seeks(t) \/ Taken(t)
         \/ \E h \in Handles : ClientEvent(h)
         \/ \E a \in Addrs : Attach(a) \/ Unplug(a)
<1>1. CASE \E t \in Tasks : Probe(t)
  BY <1>1 DEF Probe, Seeks, Taken
<1>2. ASSUME NEW h \in Handles, ClientTop(h) \/ ClientTake(h)
      PROVE  Seeks(Client(h)) /\ Client(h) \in Tasks
  <2>1. Client(h)[1] = h /\ Client(h)[2] = "client"
    BY DEF Client
  <2> QED
    BY <1>2, <2>1, FieldNames DEF Seeks
<1>3. ASSUME NEW h \in Handles, AppListed(h) \/ \E op \in AppOps : AppCall(h, op)
      PROVE  Seeks(App(h)) /\ App(h) \in Tasks
  <2>1. App(h)[1] = h /\ App(h)[2] = "app"
    BY DEF App
  <2> QED
    BY <1>3, <2>1, FieldNames DEF Seeks
<1> QED
  BY <1>1, <1>2, <1>3 DEF Next

LEMMA StepKinds ==
  ASSUME Shape, [Next]_vars
  PROVE  \/ UNCHANGED <<task, owner, dev>>
         \/ \E t \in Tasks : (Seeks(t) \/ Taken(t)) /\ Kind(t)
<1>1. CASE \E t \in Tasks : Seeks(t) \/ Taken(t)
  BY <1>1, StepMoves
<1>2. CASE \E h \in Handles : ClientEvent(h)
  BY <1>2 DEF ClientEvent
<1>3. CASE \E a \in Addrs : Attach(a) \/ Unplug(a)
  BY <1>3 DEF Attach, Unplug
<1>4. CASE UNCHANGED vars
  BY <1>4 DEF vars
<1> QED
  BY <1>1, <1>2, <1>3, <1>4, StepCases

(***************************************************************************)
(* A claim does not outlive its reason.                                    *)
(***************************************************************************)

LEMMA ShapeStart == Init => Shape
BY FieldNames DEF Init, Shape, Fields

LEMMA ShapeKept ==
  ASSUME Shape, [Next]_vars
  PROVE  Shape'
<1>1. CASE UNCHANGED <<task, owner, dev>>
  BY <1>1 DEF Shape
<1>2. ASSUME NEW t \in Tasks, Kind(t)
      PROVE  Shape'
  <2>1. DOMAIN task' = Tasks /\ \A u \in Tasks : DOMAIN task'[u] = Fields
    BY <1>2 DEF Kind, Moved, Shape
  <2>2. owner' \in [Addrs -> Handles \cup {Nobody}] /\ DOMAIN dev' = Handles
    BY <1>2, FieldNames DEF Kind, Looks, Claims, Holds, Keeps, Gives, Drops, Shape
  <2> QED
    BY <2>1, <2>2 DEF Shape
<1> QED
  BY <1>1, <1>2, StepKinds

Reason(a) == \/ dev[owner[a]] = a
             \/ \E u \in Tasks : u[1] = owner[a] /\ task[u].a = a /\ task[u].pc \in Taking

LEMMA Reasons == ClaimHasReason <=> \A a \in Addrs : owner[a] # Nobody => Reason(a)
BY DEF ClaimHasReason, Reason, Taking, Keeping

\* Only task t moves: the reason of a claim stays unless it was t or the device.
LEMMA ReasonMoves ==
  ASSUME Shape, NEW t \in Tasks, Kind(t), NEW a \in Addrs,
         owner[a] # Nobody => Reason(a), owner'[a] # Nobody
  PROVE  Reason(a)'
<1> DEFINE h == t[1]
<1>1. h \in Handles /\ \A u \in Tasks : u # t => task'[u] = task[u]
  BY FieldNames DEF Kind, Moved
<1>2. CASE owner'[a] # owner[a]
  BY <1>1, <1>2 DEF Kind, Looks, Claims, Holds, Keeps, Gives, Drops, Shape, Reason, Taking
<1>3. CASE owner'[a] = owner[a] /\ dev[owner[a]] = a
  <2>1. owner[a] \in Handles
    BY <1>3 DEF Shape
  <2>2. CASE dev'[owner[a]] = a
    BY <1>3, <2>2 DEF Reason
  <2>3. CASE dev'[owner[a]] # a
    <3>1. Drops(t) \/ Keeps(t)
      BY <1>3, <2>3 DEF Kind, Looks, Claims, Holds, Gives
    <3>2. owner[a] = h
      BY <1>3, <2>1, <2>3, <3>1 DEF Drops, Keeps, Shape
    <3>3. ~Keeps(t)
      BY <1>3, <3>2, FieldNames DEF Keeps
    <3> QED
      BY <1>3, <3>1, <3>2, <3>3 DEF Drops, Reason, Taking
  <2> QED
    BY <2>2, <2>3
<1>4. CASE owner'[a] = owner[a] /\ dev[owner[a]] # a
  <2>1. PICK u \in Tasks : u[1] = owner[a] /\ task[u].a = a /\ task[u].pc \in Taking
    BY <1>4 DEF Reason
  <2>2. CASE u # t
    BY <1>1, <1>4, <2>1, <2>2 DEF Reason
  <2>3. CASE u = t
    <3>1. a # NoAddr
      BY FieldNames
    <3>2. Holds(t) \/ Keeps(t) \/ Gives(t)
      BY <2>1, <2>3 DEF Kind, Looks, Claims, Drops, Taking, Keeping
    <3>3. CASE Holds(t)
      BY <1>4, <2>1, <2>3, <3>3 DEF Holds, Reason
    <3>4. CASE Keeps(t)
      BY <1>1, <1>4, <2>1, <2>3, <3>4 DEF Keeps, Reason, Shape
    <3>5. CASE Gives(t)
      BY <1>4, <2>1, <2>3, <3>1, <3>5 DEF Gives, Shape
    <3> QED
      BY <3>2, <3>3, <3>4, <3>5
  <2> QED
    BY <2>2, <2>3
<1> QED
  BY <1>2, <1>3, <1>4

\* A claim in rtl_multi's table never outlives its reason: whoever has one has
\* the device open, or is in a step of taking it or of giving it back.
THEOREM ClaimsHaveReasons == Spec => []ClaimHasReason
<1>1. Init => Shape /\ ClaimHasReason
  BY ShapeStart DEF Init, ClaimHasReason
<1>2. ASSUME Shape, ClaimHasReason, [Next]_vars
      PROVE  Shape' /\ ClaimHasReason'
  <2>1. CASE UNCHANGED <<task, owner, dev>>
    BY <1>2, <2>1, ShapeKept DEF ClaimHasReason
  <2>2. ASSUME NEW t \in Tasks, Kind(t)
        PROVE  ClaimHasReason'
    <3>1. ASSUME NEW a \in Addrs, owner'[a] # Nobody
          PROVE  Reason(a)'
      <4>1. owner[a] # Nobody => Reason(a)
        BY <1>2, Reasons
      <4> QED
        BY <1>2, <2>2, <3>1, <4>1, ReasonMoves
    <3> QED
      BY <3>1 DEF ClaimHasReason, Reason, Taking, Keeping
  <2> QED
    BY <1>2, <2>1, <2>2, StepKinds, ShapeKept
<1> QED
  BY <1>1, <1>2, PTL DEF Spec

(***************************************************************************)
(* An application that calls while nothing else of its handle runs.        *)
(***************************************************************************)

\* Of the two tasks of a handle one is idle.
Alone == \A t, u \in Tasks : t[1] = u[1] /\ t # u => At(t, "idle") \/ At(u, "idle")

\* What a handle has is claimed by it.
Claimed == \A h \in Handles, a \in Addrs : dev[h] = a => owner[a] = h

\* What a task is taking or giving back the handle does not have yet or any
\* more; and until it gives it back, the claim on it stands.
Unkept == \A t \in Tasks, a \in Addrs :
            task[t].pc \in Taking /\ task[t].a = a =>
              /\ dev[t[1]] # a
              /\ task[t].pc # "release" => owner[a] = t[1]

ISharing == Shape /\ Alone /\ Claimed /\ Unkept

LEMMA SharingStart == Init => ISharing
<1> SUFFICES ASSUME Init
             PROVE  ISharing
  OBVIOUS
<1>1. \A t \in Tasks : task[t].pc = "idle"
  BY DEF Init, Locals
<1>2. \A h \in Handles : dev[h] = NoAddr
  BY DEF Init
<1> QED
  BY <1>1, <1>2, ShapeStart, FieldNames DEF ISharing, Alone, Claimed, Unkept, At, Taking, Keeping

\* A task that moves has the handle to itself.
Lone(t) == \A u \in Tasks : u[1] = t[1] /\ u # t => At(u, "idle")

LEMMA LoneMover ==
  ASSUME AppAlone, ISharing, NEW t \in Tasks, Seeks(t) \/ Taken(t)
  PROVE  Lone(t)
<1> USE DEF Lone
<1>0. \A u \in Tasks : u[1] = t[1] /\ u # t =>
        \/ t = Client(t[1]) /\ u = App(t[1])
        \/ t = App(t[1]) /\ u = Client(t[1])
  BY DEF Tasks, Client, App
<1>1. CASE task[t].pc # "idle"
  BY <1>1 DEF ISharing, Alone, At
<1>2. CASE task[t].pc = "idle"
  <2>1. \/ t[2] = "client" /\ ClientTop(t[1])
        \/ t[2] = "app" /\ \E op \in AppOps : AppCall(t[1], op)
    <3>1. t[2] = "client" => t = Client(t[1])
      BY DEF Tasks, Client
    <3>2. t[2] = "app" => t = App(t[1])
      BY DEF Tasks, App
    <3>3. ~Taken(t) /\ ~ListStep(t) /\ ~ProbeIdentify(t) /\ ~ListDone(t) /\ ~Select(t)
      BY <1>2 DEF Taken, Claim, KeepOpen, Answer, KeepIdentify, Release, Drop,
                  ListStep, ProbeIdentify, ListDone, Select, At
    <3>4. t[2] = "client" => ~ClientTake(t[1])
      BY <1>2, <3>1 DEF ClientTake, At
    <3>5. t[2] = "app" => ~AppListed(t[1])
      BY <1>2, <3>2 DEF AppListed, At
    <3> QED
      BY <3>3, <3>4, <3>5 DEF Seeks
  <2>2. CASE t[2] = "client" /\ ClientTop(t[1])
    <3>1. At(App(t[1]), "idle")
      BY <2>2 DEF ClientTop, Calm
    <3>2. t = Client(t[1])
      BY <2>2 DEF Tasks, Client
    <3> QED
      BY <1>0, <3>1, <3>2, FieldNames
  <2>3. CASE t[2] = "app" /\ \E op \in AppOps : AppCall(t[1], op)
    <3>1. At(Client(t[1]), "idle")
      BY <2>3 DEF AppCall, Resting
    <3>2. t = App(t[1])
      BY <2>3 DEF Tasks, App
    <3> QED
      BY <1>0, <3>1, <3>2, FieldNames
  <2> QED
    BY <2>1, <2>2, <2>3
<1> QED
  BY <1>1, <1>2

LEMMA AloneKept ==
  ASSUME AppAlone, ISharing, NEW t \in Tasks, Seeks(t) \/ Taken(t), Kind(t)
  PROVE  Alone'
<1>2. Lone(t)
  BY LoneMover
<1>5. \A u \in Tasks : u # t => task'[u] = task[u]
  BY DEF Kind, Moved
<1> SUFFICES ASSUME NEW u \in Tasks, NEW v \in Tasks, u[1] = v[1], u # v
             PROVE  task'[u].pc = "idle" \/ task'[v].pc = "idle"
  BY DEF Alone, At
<1> QED
  BY <1>2, <1>5 DEF Lone, ISharing, Alone, At

LEMMA ClaimedKept ==
  ASSUME ISharing, NEW t \in Tasks, Kind(t), NEW h \in Handles, NEW a \in Addrs, dev'[h] = a
  PROVE  owner'[a] = h
<1> USE FieldNames DEF ISharing, Shape
<1>1. CASE Looks(t) \/ Holds(t)
  BY <1>1 DEF Looks, Holds, Claimed
<1>2. CASE Claims(t)
  BY <1>2 DEF Claims, Claimed
<1>3. CASE Keeps(t)
  BY <1>3 DEF Keeps, Claimed, Unkept, Taking, Keeping
<1>4. CASE Gives(t)
  BY <1>4 DEF Gives, Claimed, Unkept, Taking
<1>5. CASE Drops(t)
  BY <1>5 DEF Drops, Claimed
<1> QED
  BY <1>1, <1>2, <1>3, <1>4, <1>5 DEF Kind

LEMMA TakenKept ==
  ASSUME ISharing, NEW t \in Tasks, Kind(t), NEW u \in Tasks, NEW a \in Addrs,
         task'[u].pc \in Taking, task'[u].a = a
  PROVE  dev'[u[1]] # a /\ (task'[u].pc # "release" => owner'[a] = u[1])
<1> USE FieldNames DEF ISharing, Shape
<1>1. CASE u = t
  <2>1. Claims(t) \/ Holds(t) \/ Drops(t)
    BY <1>1 DEF Kind, Looks, Keeps, Gives
  <2>2. CASE Claims(t)
    BY <1>1, <2>2 DEF Claims
  <2>3. CASE Holds(t)
    BY <1>1, <2>3 DEF Holds, Unkept, Taking, Keeping
  <2>4. CASE Drops(t)
    BY <1>1, <2>4 DEF Drops
  <2> QED
    BY <2>1, <2>2, <2>3, <2>4
<1>2. CASE u # t
  <2>1. task[u].pc \in Taking /\ task[u].a = a
    BY <1>2 DEF Kind, Moved
  <2>2. dev[u[1]] # a /\ (task[u].pc # "release" => owner[a] = u[1])
    BY <2>1 DEF Unkept
  <2>3. task'[u].pc = task[u].pc
    BY <1>2 DEF Kind, Moved
  <2>4. task[t].pc # "idle" => u[1] # t[1]
    BY <1>2, <2>1 DEF Alone, At, Taking, Keeping
  <2>5. CASE Looks(t) \/ Holds(t)
    BY <2>2, <2>3, <2>5 DEF Looks, Holds
  <2>6. CASE Claims(t)
    BY <2>2, <2>3, <2>4, <2>6 DEF Claims
  <2>7. CASE Keeps(t)
    BY <2>2, <2>3, <2>4, <2>7 DEF Keeps, Keeping
  <2>8. CASE Gives(t)
    BY <2>2, <2>3, <2>4, <2>8 DEF Gives
  <2>9. CASE Drops(t)
    BY <2>2, <2>3, <2>4, <2>9 DEF Drops
  <2> QED
    BY <2>5, <2>6, <2>7, <2>8, <2>9 DEF Kind
<1> QED
  BY <1>1, <1>2

LEMMA SharingKept ==
  ASSUME AppAlone, ISharing, [Next]_vars
  PROVE  ISharing'
<1>1. Shape'
  BY ShapeKept DEF ISharing
<1>2. CASE UNCHANGED <<task, owner, dev>>
  BY <1>1, <1>2 DEF ISharing, Alone, Claimed, Unkept, At
<1>3. ASSUME NEW t \in Tasks, Seeks(t) \/ Taken(t), Kind(t)
      PROVE  ISharing'
  <2>1. Alone'
    BY <1>3, AloneKept
  <2>2. Claimed'
    BY <1>3, ClaimedKept DEF Claimed
  <2>3. Unkept'
    BY <1>3, TakenKept DEF Unkept
  <2> QED
    BY <1>1, <2>1, <2>2, <2>3 DEF ISharing
<1> QED
  BY <1>2, <1>3, StepKinds DEF ISharing

\* Two handles never share a dongle (rtl_multi.hpp 6-8), if an application's
\* select and refresh run while nothing else of their handle does.
THEOREM HandlesShareNothing == ASSUME AppAlone PROVE Spec => []NoSharing
<1>1. AppAlone /\ ISharing /\ [Next]_vars => ISharing'
  BY SharingKept
<1>2. ISharing => NoSharing
  <2> SUFFICES ASSUME ISharing, NEW a \in Addrs, NEW g \in Handles, NEW h \in Handles,
                      dev[g] = a, dev[h] = a
               PROVE  g = h
    BY DEF NoSharing
  <2> QED
    BY DEF ISharing, Claimed
<1> QED
  BY <1>1, <1>2, SharingStart, PTL DEF Spec

(***************************************************************************)
(* The handle of a device that is gone.                                    *)
(***************************************************************************)

\* A set of numbers has a sorted list.
LEMMA SortedExists ==
  ASSUME NEW S, S \subseteq Nat, IsFiniteSet(S)
  PROVE  \E s \in [1..Cardinality(S) -> S] : Sorted(s)
<1> DEFINE n == Cardinality(S)
           upTo(a) == {b \in S : b <= a}
           rank == [a \in S |-> Cardinality(upTo(a))]
<1>1. n \in Nat
  BY FS_CardinalityType
<1>2. ASSUME NEW a \in S
      PROVE  IsFiniteSet(upTo(a)) /\ Cardinality(upTo(a)) \in 1..n
  <2>1. upTo(a) \in SUBSET S /\ a \in upTo(a)
    OBVIOUS
  <2>2. IsFiniteSet(upTo(a)) /\ Cardinality(upTo(a)) <= n
    BY <2>1, FS_Subset
  <2>3. Cardinality(upTo(a)) \in Nat /\ Cardinality(upTo(a)) # 0
    <3> HIDE DEF upTo
    <3> QED
      BY <2>1, <2>2, FS_CardinalityType, FS_EmptySet
  <2> QED
    BY <1>1, <2>2, <2>3
<1>3. ASSUME NEW a \in S, NEW b \in S, a < b
      PROVE  rank[a] < rank[b]
  <2>1. upTo(a) \in SUBSET upTo(b) /\ upTo(a) # upTo(b)
    <3>1. b \in upTo(b) /\ b \notin upTo(a)
      BY <1>3
    <3>2. ASSUME NEW c \in S, c <= a
          PROVE  c <= b
      <4>1. a \in Nat /\ b \in Nat /\ c \in Nat
        OBVIOUS
      <4> QED
        BY <1>3, <3>2, <4>1
    <3> QED
      BY <3>1, <3>2
  <2>2. Cardinality(upTo(a)) <= Cardinality(upTo(b)) /\ Cardinality(upTo(a)) # Cardinality(upTo(b))
    <3>1. IsFiniteSet(upTo(b))
      BY <1>2
    <3> HIDE DEF upTo
    <3> QED
      BY <2>1, <3>1, FS_Subset
  <2>3. Cardinality(upTo(a)) \in Nat /\ Cardinality(upTo(b)) \in Nat
    BY <1>2
  <2>4. rank[a] = Cardinality(upTo(a)) /\ rank[b] = Cardinality(upTo(b))
    OBVIOUS
  <2> HIDE DEF upTo, rank
  <2> QED
    BY <2>2, <2>3, <2>4
<1>4. rank \in [S -> 1..n]
  BY <1>2
<1> HIDE DEF rank
<1>5. rank \in Surjection(S, 1..n)
  <2>1. rank \in Injection(S, 1..n)
    <3>1. ASSUME NEW a \in S, NEW b \in S, rank[a] = rank[b]
          PROVE  a = b
      <4>1. rank[a] \in Nat /\ rank[b] \in Nat
        BY <1>1, <1>4
      <4>2. ~(a < b) /\ ~(b < a)
        BY <1>3, <3>1, <4>1
      <4> QED
        BY <4>2
    <3> QED
      BY <1>4, <3>1 DEF Injection, IsInjective
  <2>2. IsFiniteSet(1..n) /\ Cardinality(1..n) = n
    BY <1>1, FS_Interval
  <2> QED
    BY <2>1, <2>2, FS_Injection
<1>6. \A i \in 1..n : \E a \in S : rank[a] = i
  BY <1>5 DEF Surjection
<1> DEFINE s == [i \in 1..n |-> CHOOSE a \in S : rank[a] = i]
<1>7. \A i \in 1..n : s[i] \in S /\ rank[s[i]] = i
  BY <1>6
<1>8. s \in [1..n -> S] /\ DOMAIN s = 1..n
  BY <1>6
<1> HIDE DEF s
<1>9. ASSUME NEW i \in 1..n, NEW j \in 1..n, i < j
      PROVE  s[i] < s[j]
  <2>1. s[i] \in Nat /\ s[j] \in Nat /\ s[i] # s[j]
    <3>1. i # j
      BY <1>1, <1>9
    <3> QED
      BY <1>7, <3>1
  <2>2. ~(s[j] < s[i])
    <3>1. s[j] < s[i] => rank[s[j]] < rank[s[i]]
      BY <1>3, <1>7
    <3> QED
      BY <1>1, <1>7, <1>9, <3>1
  <2> QED
    BY <2>1, <2>2
<1> QED
  BY <1>8, <1>9 DEF Sorted

LEMMA ListedAddrs == Listed \in Seq(Addrs)
<1>1. Present \subseteq Nat /\ Present \subseteq Addrs /\ IsFiniteSet(Present)
  BY AddrSet, FS_Subset DEF Present
<1>2. Listed \in [1..Cardinality(Present) -> Present]
  BY <1>1, SortedExists DEF Listed
<1>3. Cardinality(Present) \in Nat
  BY <1>1, FS_CardinalityType
<1>4. Listed \in [1..Cardinality(Present) -> Addrs]
  BY <1>1, <1>2
<1> QED
  BY <1>3, <1>4

\* A set of numbers that is not empty has a least one.
LEMMA LeastExists ==
  ASSUME NEW S, S \subseteq Nat, S # {}
  PROVE  \E i \in S : \A j \in S : i <= j
<1> DEFINE R == OpToRel(<, Nat)
<1>1. IsWellFoundedOn(R, Nat)
  BY NatLessThanWellFounded
<1>2. \E i \in S : \A k \in S : ~ (<<k, i>> \in R)
  <2> HIDE DEF R
  <2> QED
    BY <1>1, WFMin
<1>3. PICK i \in S : \A k \in S : ~ (<<k, i>> \in R)
  BY <1>2
<1>4. ASSUME NEW k \in S
      PROVE  i <= k
  <2>1. ~ (<<k, i>> \in R)
    BY <1>3
  <2> QED
    BY <2>1 DEF OpToRel
<1> QED
  BY <1>4

Probing == {"identify"} \cup Keeping

\* What is in a task's locals are addresses.
Named(l) ==
  /\ l.todo \in Seq(Addrs) /\ l.cands \in Seq(Addrs) /\ l.first \in Addrs \cup {NoAddr}
  /\ l.pc \in {"claim", "kopen"} \cup Probing => l.a \in Addrs

World ==
  /\ obj \in [Addrs -> {"free", "here", "gone"}] /\ opens \subseteq Handles \X Addrs
  /\ dev \in [Handles -> Addrs \cup {NoAddr}] /\ gone \in [Handles -> BOOLEAN]
  /\ events \in [Handles -> Seq([new: BOOLEAN, a: Addrs])]
  /\ probeQ \in [Handles -> Seq(Addrs \cup {NoAddr})]

\* A DEV_GONE of this address is on its way to the handle.
Sent(h, a) == \E i \in DOMAIN events[h] : events[h][i] = [new |-> FALSE, a |-> a]

\* What a task probes it has open, and the handle has not got it.
Opened(t) == task[t].pc \in Probing => <<t[1], task[t].a>> \in opens /\ dev[t[1]] # task[t].a

\* A device that went away in the last stretch of its probe, in which no event
\* is handled, has its DEV_GONE on its way.
Told(t) == task[t].pc \in {"kidentify", "answered"} /\ obj[task[t].a] = "gone" => Sent(t[1], task[t].a)

\* device_gone is cleared when the device is.
Cleared(t) == task[t].after = "gone" =>
                \/ task[t].pc = "drop"
                \/ task[t].pc = "release" /\ dev[t[1]] = NoAddr

\* The handle's own part.
Has(h) == \A a \in Addrs : dev[h] = a =>
            /\ <<h, a>> \in opens
            /\ obj[a] = "gone" => gone[h] \/ Sent(h, a)

IKnown == /\ ISharing /\ World
          /\ \A t \in Tasks : Named(task[t]) /\ Opened(t) /\ Told(t) /\ Cleared(t)
          /\ \A h \in Handles : Has(h)

\* What a step of task t does to the rest.
Elsewhere(t) ==
  /\ \A g \in Handles : g # t[1] =>
       /\ dev'[g] = dev[g] /\ gone'[g] = gone[g] /\ events'[g] = events[g]
       /\ \A a \in Addrs : <<g, a>> \in opens' <=> <<g, a>> \in opens
  /\ \A a \in Addrs : obj'[a] = "gone" => obj[a] = "gone"

Good(t) == /\ World' /\ Elsewhere(t) /\ Has(t[1])'
           /\ Named(task'[t]) /\ Opened(t)' /\ Told(t)' /\ Cleared(t)'

LEMMA GoodKeeps ==
  ASSUME IKnown, NEW t \in Tasks, Moved(t), Lone(t), Good(t), ISharing'
  PROVE  IKnown'
<1> USE FieldNames
<1>1. ASSUME NEW u \in Tasks
      PROVE  Named(task'[u]) /\ Opened(u)' /\ Told(u)' /\ Cleared(u)'
  <2>1. CASE u = t
    BY <2>1 DEF Good
  <2>2. CASE u # t
    <3>1. /\ task'[u] = task[u] /\ Named(task[u]) /\ Opened(u) /\ Told(u) /\ Cleared(u)
      BY <2>2 DEF Moved, IKnown
    <3>2. CASE u[1] = t[1]
      <4>1. task[u].pc = "idle"
        BY <2>2, <3>2 DEF Lone, At
      <4> QED
        BY <3>1, <4>1 DEF Opened, Told, Cleared, Probing, Keeping
    <3>3. CASE u[1] # t[1]
      <4>1. /\ dev'[u[1]] = dev[u[1]] /\ events'[u[1]] = events[u[1]] /\ u[1] \in Handles
            /\ \A a \in Addrs : <<u[1], a>> \in opens' <=> <<u[1], a>> \in opens
            /\ \A a \in Addrs : obj'[a] = "gone" => obj[a] = "gone"
        BY <3>3 DEF Good, Elsewhere
      <4>2. task[u].pc \in Probing => task[u].a \in Addrs
        BY <3>1 DEF Named
      <4>3. Opened(u)'
        BY <3>1, <4>1, <4>2 DEF Opened
      <4>4. Told(u)'
        BY <3>1, <4>1, <4>2 DEF Told, Sent, Probing, Keeping
      <4>5. Cleared(u)'
        BY <3>1, <4>1 DEF Cleared
      <4> QED
        BY <3>1, <4>3, <4>4, <4>5
    <3> QED
      BY <3>2, <3>3
  <2> QED
    BY <2>1, <2>2
<1>2. ASSUME NEW g \in Handles
      PROVE  Has(g)'
  <2>1. CASE g = t[1]
    BY <2>1 DEF Good
  <2>2. CASE g # t[1]
    <3>1. /\ dev'[g] = dev[g] /\ gone'[g] = gone[g] /\ events'[g] = events[g] /\ Has(g)
          /\ \A a \in Addrs : <<g, a>> \in opens' <=> <<g, a>> \in opens
          /\ \A a \in Addrs : obj'[a] = "gone" => obj[a] = "gone"
      BY <2>2 DEF Good, Elsewhere, IKnown
    <3>2. ASSUME NEW a \in Addrs, dev'[g] = a
          PROVE  <<g, a>> \in opens' /\ (obj'[a] = "gone" => gone'[g] \/ Sent(g, a)')
      BY <3>1, <3>2 DEF Has, Sent
    <3> QED
      BY <3>2 DEF Has
  <2> QED
    BY <2>1, <2>2
<1> QED
  BY <1>1, <1>2 DEF IKnown, Good

\* A task that probes nothing and leaves the world alone.
LEMMA QuietMoves ==
  ASSUME IKnown, NEW t \in Tasks, UNCHANGED <<obj, opens, dev, gone, events>>,
         probeQ' \in [Handles -> Seq(Addrs \cup {NoAddr})],
         Named(task'[t]), task'[t].pc \notin Probing,
         task'[t].after = "gone" => task'[t].pc = "drop" \/ task'[t] = task[t]
  PROVE  Good(t)
<1> USE FieldNames
<1>1. World' /\ Elsewhere(t)
  BY DEF IKnown, World, Elsewhere
<1>2. Has(t[1])'
  <2>1. Has(t[1])
    BY DEF IKnown
  <2>2. ASSUME NEW a \in Addrs, dev'[t[1]] = a
        PROVE  <<t[1], a>> \in opens' /\ (obj'[a] = "gone" => gone'[t[1]] \/ Sent(t[1], a)')
    BY <2>1, <2>2 DEF Has, Sent
  <2> QED
    BY <2>2 DEF Has
<1>3. Opened(t)' /\ Told(t)'
  BY DEF Opened, Told, Probing, Keeping
<1>4. Cleared(t)'
  BY DEF IKnown, Cleared
<1> QED
  BY <1>1, <1>2, <1>3, <1>4 DEF Good

\* A task that had something open closes it, and gives back or goes on listing.
LEMMA CloseMoves ==
  ASSUME IKnown, NEW t \in Tasks, task[t].pc \in Probing, CloseAt(t[1], task[t].a),
         UNCHANGED <<dev, gone, events, probeQ>>,
         Named(task'[t]), task'[t].pc \notin Probing, task'[t].after # "gone"
  PROVE  Good(t)
<1> USE FieldNames
<1>1. /\ <<t[1], task[t].a>> \in opens /\ dev[t[1]] # task[t].a /\ World /\ Has(t[1])
  BY DEF IKnown, Opened
<1>2. /\ opens' = opens \ {<<t[1], task[t].a>>}
      /\ obj' \in [Addrs -> {"free", "here", "gone"}]
      /\ \A a \in Addrs : obj'[a] = "gone" => obj[a] = "gone"
  BY <1>1 DEF CloseAt, Swept, World
<1>3. World' /\ Elsewhere(t)
  BY <1>1, <1>2 DEF World, Elsewhere
<1>4. Has(t[1])'
  BY <1>1, <1>2 DEF Has, Sent
<1> QED
  BY <1>3, <1>4 DEF Good, Opened, Told, Cleared, Probing, Keeping

\* A task that opens what the handle has not open.
LEMMA OpenMoves ==
  ASSUME IKnown, NEW t \in Tasks, NEW a \in Addrs, CanOpen(t[1], a),
         opens' = opens \cup {<<t[1], a>>}, UNCHANGED <<obj, dev, gone, events, probeQ>>,
         Named(task'[t]), task'[t].a = a, task'[t].after # "gone"
  PROVE  Good(t)
<1> USE FieldNames
<1>1. World /\ Has(t[1]) /\ dev[t[1]] # a /\ obj[a] = "here"
  BY DEF IKnown, Has, CanOpen
<1>2. World'
  <2>1. <<t[1], a>> \in Handles \X Addrs
    OBVIOUS
  <2>2. opens' \subseteq Handles \X Addrs
    BY <1>1, <2>1 DEF World
  <2> QED
    BY <1>1, <2>2 DEF World
<1>4. Elsewhere(t)
  BY DEF Elsewhere
<1>3. Has(t[1])'
  BY <1>1 DEF Has, Sent
<1> QED
  BY <1>1, <1>2, <1>3, <1>4 DEF Good, Opened, Told, Cleared

LEMMA SeqFacts ==
  ASSUME NEW S, NEW s \in Seq(S)
  PROVE  /\ s # <<>> => Head(s) \in S /\ Tail(s) \in Seq(S)
         /\ \A e \in S : Append(s, e) \in Seq(S) /\ <<e>> \in Seq(S)
         /\ <<>> \in Seq(S) /\ DOMAIN s \subseteq Nat /\ \A i \in DOMAIN s : s[i] \in S
OBVIOUS

LEMMA NamedFacts ==
  ASSUME IKnown, NEW t \in Tasks
  PROVE  /\ Named(task[t]) /\ DOMAIN task[t] = Fields /\ World
         /\ task[t].pc \notin {"drop", "release"} => task[t].after # "gone"
         /\ Named(Locals) /\ Named(Back(t)) /\ Back(t).pc \in {"idle", "drain"} /\ Back(t).after # "gone"
         /\ Locals.after # "gone"
<1>1. Named(task[t]) /\ World /\ Cleared(t) /\ DOMAIN task[t] = Fields
  BY DEF IKnown, ISharing, Shape
<1>2. Named(Locals) /\ Named(Back(t)) /\ Back(t).pc \in {"idle", "drain"} /\ Back(t).after # "gone" /\ Locals.after # "gone"
  BY SeqFacts DEF Locals, Back, Named, Probing, Keeping
<1> QED
  BY <1>1, <1>2 DEF Cleared

LEMMA ListKnown ==
  ASSUME IKnown, NEW t \in Tasks, ListStep(t)
  PROVE  Good(t)
<1> USE FieldNames
<1> DEFINE h == t[1]
           a == Head(task[t].todo)
<1>1. /\ task[t].pc = "list" /\ task[t].todo # <<>> /\ UNCHANGED <<obj, dev, gone, events, probeQ>>
      /\ Named(task[t]) /\ DOMAIN task[t] = Fields /\ task[t].after # "gone" /\ World
  BY NamedFacts DEF ListStep, At
<1>2. a \in Addrs /\ Tail(task[t].todo) \in Seq(Addrs) /\ Append(task[t].cands, a) \in Seq(Addrs)
  BY <1>1, SeqFacts DEF Named
<1>3. PICK listed, opened, passed :
        /\ listed = [task[t] EXCEPT !.todo = Tail(@), !.cands = Append(@, a)]
        /\ opened = [task[t] EXCEPT !.pc = "identify", !.a = a, !.todo = Tail(@)]
        /\ passed = [task[t] EXCEPT !.todo = Tail(@)]
  OBVIOUS
<1>4. /\ listed.pc = "list" /\ listed.after # "gone" /\ Named(listed)
      /\ passed.pc = "list" /\ passed.after # "gone" /\ Named(passed)
      /\ opened.pc = "identify" /\ opened.a = a /\ opened.after # "gone" /\ Named(opened)
  BY <1>1, <1>2, <1>3 DEF Named, Probing, Keeping
<1>5. \/ UNCHANGED opens /\ (Put(t, listed) \/ Put(t, passed))
      \/ CanOpen(h, a) /\ opens' = opens \cup {<<h, a>>} /\ Put(t, opened)
  BY <1>3 DEF ListStep
<1>6. CASE UNCHANGED opens /\ (Put(t, listed) \/ Put(t, passed))
  <2>1. task'[t] \in {listed, passed}
    BY <1>6 DEF Put, IKnown, ISharing, Shape
  <2> QED
    BY <1>1, <1>4, <1>6, <2>1, QuietMoves DEF World, Probing, Keeping
<1>7. CASE CanOpen(h, a) /\ opens' = opens \cup {<<h, a>>} /\ Put(t, opened)
  <2>1. task'[t] = opened
    BY <1>7 DEF Put, IKnown, ISharing, Shape
  <2> QED
    BY <1>1, <1>2, <1>4, <1>7, <2>1, OpenMoves
<1> QED
  BY <1>5, <1>6, <1>7

LEMMA IdentifyKnown ==
  ASSUME IKnown, NEW t \in Tasks, ProbeIdentify(t)
  PROVE  Good(t)
<1> USE FieldNames
<1> DEFINE a == task[t].a
<1>1. /\ task[t].pc = "identify" /\ UNCHANGED <<dev, gone, events, probeQ>> /\ CloseAt(t[1], a)
      /\ Named(task[t]) /\ DOMAIN task[t] = Fields /\ task[t].after # "gone"
  BY NamedFacts DEF ProbeIdentify, At
<1>2. a \in Addrs /\ Append(task[t].cands, a) \in Seq(Addrs)
  BY <1>1, SeqFacts DEF Named, Probing
<1>3. PICK listed, passed :
        /\ listed = [task[t] EXCEPT !.pc = "list", !.a = NoAddr, !.cands = Append(@, a)]
        /\ passed = [task[t] EXCEPT !.pc = "list", !.a = NoAddr]
  OBVIOUS
<1>4. /\ listed.pc = "list" /\ listed.after # "gone" /\ Named(listed)
      /\ passed.pc = "list" /\ passed.after # "gone" /\ Named(passed)
  BY <1>1, <1>2, <1>3 DEF Named, Probing, Keeping
<1>5. Put(t, listed) \/ Put(t, passed)
  BY <1>3 DEF ProbeIdentify
<1>6. task'[t] \in {listed, passed}
  BY <1>5 DEF Put, IKnown, ISharing, Shape
<1> QED
  BY <1>1, <1>4, <1>6, CloseMoves DEF Probing, Keeping

LEMMA DoneKnown ==
  ASSUME IKnown, NEW t \in Tasks, ListDone(t)
  PROVE  Good(t)
<1> USE FieldNames
<1>1. /\ task[t].pc = "list" /\ UNCHANGED <<obj, opens, dev, gone, events, probeQ>>
      /\ Named(task[t]) /\ DOMAIN task[t] = Fields /\ task[t].after # "gone" /\ World
      /\ Named(Back(t)) /\ Back(t).pc \in {"idle", "drain"} /\ Back(t).after # "gone"
  BY NamedFacts DEF ListDone, At
<1>2. PICK i : i = IndexIn(task[t].cands, task[t].first)
  OBVIOUS
<1>3. PICK again, takes, selects :
        /\ again = Listing(task[t], Listed, "list")
        /\ takes = [Locals EXCEPT !.pc = "claim", !.a = task[t].first, !.idx = i]
        /\ selects = [task[t] EXCEPT !.pc = "select"]
  OBVIOUS
<1>4. /\ again.pc = "list" /\ again.after # "gone" /\ Named(again)
  BY <1>1, <1>3, ListedAddrs, SeqFacts DEF Named, Probing, Keeping, Listing
<1>5. /\ selects.pc = "select" /\ selects.after # "gone" /\ Named(selects)
  BY <1>1, <1>3 DEF Named, Probing, Keeping
<1>6. /\ takes.pc = "claim" /\ takes.after # "gone" /\ (task[t].first # NoAddr => Named(takes))
  BY <1>1, <1>3, SeqFacts DEF Named, Probing, Keeping, Locals
<1>7. \/ Put(t, Back(t)) \/ Put(t, again) \/ Put(t, selects)
      \/ task[t].first # NoAddr /\ Put(t, takes)
  BY <1>2, <1>3 DEF ListDone, Go, Return, Take
<1>8. task'[t] \in {Back(t), again, selects} \/ (task[t].first # NoAddr /\ task'[t] = takes)
  BY <1>7 DEF Put, IKnown, ISharing, Shape
<1> QED
  BY <1>1, <1>4, <1>5, <1>6, <1>8, QuietMoves DEF World, Probing, Keeping

LEMMA SelectKnown ==
  ASSUME IKnown, NEW t \in Tasks, Select(t)
  PROVE  Good(t)
<1> USE FieldNames
<1> DEFINE h == t[1]
           c == task[t].cands
           ready == {j \in DOMAIN c : ~TakenByOther(h, c[j])}
           least == CHOOSE j \in ready : \A k \in ready : j <= k
<1>1. /\ task[t].pc = "select" /\ UNCHANGED <<obj, opens, dev, gone, events, probeQ>>
      /\ Named(task[t]) /\ World
      /\ Named(Back(t)) /\ Back(t).pc \in {"idle", "drain"} /\ Back(t).after # "gone"
  BY NamedFacts DEF Select, At
<1>2. c \in Seq(Addrs) /\ DOMAIN c \subseteq Nat /\ \A j \in DOMAIN c : c[j] \in Addrs
  BY <1>1, SeqFacts DEF Named
<1>3. ready # {} => least \in DOMAIN c
  <2>1. ready \subseteq Nat
    BY <1>2
  <2>2. ready \subseteq DOMAIN c
    OBVIOUS
  <2> HIDE DEF ready
  <2> QED
    BY <2>1, <2>2, LeastExists
<1>4. Put(t, Back(t)) \/ \E j \in DOMAIN c : Take(t, c[j], j)
  <2> DEFINE any == pref[h] = BindAny \/ pref[h] > Len(c)
  <2>1. \/ Put(t, Back(t))
        \/ /\ ready # {} /\ (any \/ pref[h] \in ready)
           /\ Take(t, c[IF any THEN least ELSE pref[h]], IF any THEN least ELSE pref[h])
    BY DEF Select, Return
  <2>2. ready \subseteq DOMAIN c
    OBVIOUS
  <2> HIDE DEF ready, least, any, c
  <2> QED
    BY <1>3, <2>1, <2>2
<1>5. CASE Put(t, Back(t))
  <2>1. task'[t] = Back(t)
    BY <1>5 DEF Put, IKnown, ISharing, Shape
  <2> QED
    BY <1>1, <2>1, QuietMoves DEF World, Probing, Keeping
<1>6. ASSUME NEW j \in DOMAIN c, Take(t, c[j], j)
      PROVE  Good(t)
  <2>1. PICK takes : takes = [Locals EXCEPT !.pc = "claim", !.a = c[j], !.idx = j]
    OBVIOUS
  <2>2. takes.pc = "claim" /\ takes.after # "gone" /\ Named(takes)
    BY <1>2, <2>1, SeqFacts DEF Named, Probing, Keeping, Locals
  <2>3. task'[t] = takes
    BY <1>6, <2>1 DEF Take, Put, IKnown, ISharing, Shape
  <2> QED
    BY <1>1, <2>2, <2>3, QuietMoves DEF World, Probing, Keeping
<1> QED
  BY <1>4, <1>5, <1>6

LEMMA ClaimKnown ==
  ASSUME IKnown, NEW t \in Tasks, Claim(t)
  PROVE  Good(t)
<1> USE FieldNames
<1>1. /\ task[t].pc = "claim" /\ UNCHANGED <<obj, opens, dev, gone, events, probeQ>>
      /\ Named(task[t]) /\ DOMAIN task[t] = Fields /\ task[t].after # "gone" /\ World
      /\ Named(Back(t)) /\ Back(t).pc \in {"idle", "drain"} /\ Back(t).after # "gone"
  BY NamedFacts DEF Claim, At
<1>2. PICK going : going = [task[t] EXCEPT !.pc = "kopen"]
  OBVIOUS
<1>3. going.pc = "kopen" /\ going.after # "gone" /\ Named(going)
  BY <1>1, <1>2 DEF Named, Probing, Keeping
<1>4. Put(t, Back(t)) \/ Put(t, going)
  BY <1>2 DEF Claim, Return, Go
<1>5. task'[t] \in {Back(t), going}
  BY <1>4 DEF Put, IKnown, ISharing, Shape
<1> QED
  BY <1>1, <1>3, <1>5, QuietMoves DEF World, Probing, Keeping

LEMMA OpenKnown ==
  ASSUME IKnown, NEW t \in Tasks, KeepOpen(t)
  PROVE  Good(t)
<1> USE FieldNames
<1> DEFINE a == task[t].a
<1>1. /\ task[t].pc = "kopen" /\ UNCHANGED <<obj, dev, gone, events, probeQ>>
      /\ Named(task[t]) /\ DOMAIN task[t] = Fields /\ task[t].after # "gone" /\ World /\ a \in Addrs
  BY NamedFacts DEF KeepOpen, At, Named
<1>2. PICK known, asks, gives :
        /\ known = [task[t] EXCEPT !.pc = "kidentify"]
        /\ asks = [task[t] EXCEPT !.pc = "asking"]
        /\ gives = [task[t] EXCEPT !.pc = "release"]
  OBVIOUS
<1>3. /\ known.after # "gone" /\ known.a = a /\ Named(known)
      /\ asks.after # "gone" /\ asks.a = a /\ Named(asks)
      /\ gives.pc = "release" /\ gives.after # "gone" /\ Named(gives)
  BY <1>1, <1>2 DEF Named, Probing, Keeping
<1>4. \/ CanOpen(t[1], a) /\ opens' = opens \cup {<<t[1], a>>} /\ (Put(t, known) \/ Put(t, asks))
      \/ Put(t, gives) /\ UNCHANGED opens
  BY <1>2 DEF KeepOpen, Go
<1>5. CASE CanOpen(t[1], a) /\ opens' = opens \cup {<<t[1], a>>} /\ (Put(t, known) \/ Put(t, asks))
  <2>1. task'[t] \in {known, asks}
    BY <1>5 DEF Put, IKnown, ISharing, Shape
  <2> QED
    BY <1>1, <1>3, <1>5, <2>1, OpenMoves
<1>6. CASE Put(t, gives) /\ UNCHANGED opens
  <2>1. task'[t] = gives
    BY <1>6 DEF Put, IKnown, ISharing, Shape
  <2> QED
    BY <1>1, <1>3, <1>6, <2>1, QuietMoves DEF World, Probing, Keeping
<1> QED
  BY <1>4, <1>5, <1>6

LEMMA AnswerKnown ==
  ASSUME IKnown, NEW t \in Tasks, Answer(t)
  PROVE  Good(t)
<1> USE FieldNames
<1>1. /\ task[t].pc = "asking" /\ UNCHANGED <<obj, opens, dev, gone, events, probeQ>>
      /\ Named(task[t]) /\ DOMAIN task[t] = Fields /\ task[t].after # "gone" /\ World
      /\ obj[task[t].a] = "here" /\ Opened(t) /\ Has(t[1])
  BY NamedFacts DEF Answer, At, IKnown
<1>2. PICK heard : heard = [task[t] EXCEPT !.pc = "answered"]
  OBVIOUS
<1>3. heard.pc = "answered" /\ heard.after # "gone" /\ heard.a = task[t].a /\ Named(heard)
  BY <1>1, <1>2 DEF Named, Probing, Keeping
<1>4. task'[t] = heard
  BY <1>2 DEF Answer, Go, Put, IKnown, ISharing, Shape
<1>5. World' /\ Elsewhere(t)
  BY <1>1 DEF World, Elsewhere
<1>6. Has(t[1])'
  <2>1. ASSUME NEW b \in Addrs, dev'[t[1]] = b
        PROVE  <<t[1], b>> \in opens' /\ (obj'[b] = "gone" => gone'[t[1]] \/ Sent(t[1], b)')
    BY <1>1, <2>1 DEF Has, Sent
  <2> QED
    BY <2>1 DEF Has
<1> QED
  BY <1>1, <1>3, <1>4, <1>5, <1>6 DEF Good, Opened, Told, Cleared, Probing, Keeping

LEMMA KeepKnown ==
  ASSUME IKnown, NEW t \in Tasks, KeepIdentify(t)
  PROVE  Good(t)
<1> USE FieldNames
<1> DEFINE a == task[t].a
<1>1. /\ task[t].pc \in Keeping /\ UNCHANGED <<gone, events, probeQ>>
      /\ Named(task[t]) /\ DOMAIN task[t] = Fields /\ task[t].after # "gone" /\ World /\ a \in Addrs
      /\ Named(Back(t)) /\ Back(t).pc \in {"idle", "drain"} /\ Back(t).after # "gone"
      /\ Opened(t) /\ Told(t) /\ Has(t[1])
  BY NamedFacts DEF KeepIdentify, Keeping, Probing, Named, IKnown
<1>2. PICK gives : gives = [task[t] EXCEPT !.pc = "release"]
  OBVIOUS
<1>3. gives.pc = "release" /\ gives.after # "gone" /\ Named(gives)
  BY <1>1, <1>2 DEF Named, Probing, Keeping
<1>4. \/ /\ task[t].pc # "asking" /\ dev[t[1]] = NoAddr /\ dev' = [dev EXCEPT ![t[1]] = a]
         /\ Put(t, Back(t)) /\ UNCHANGED <<obj, opens>>
      \/ Put(t, gives) /\ CloseAt(t[1], a) /\ UNCHANGED dev
  BY <1>2 DEF KeepIdentify, At, Return
<1>5. CASE /\ task[t].pc # "asking" /\ dev[t[1]] = NoAddr /\ dev' = [dev EXCEPT ![t[1]] = a]
           /\ Put(t, Back(t)) /\ UNCHANGED <<obj, opens>>
  <2>1. task'[t] = Back(t) /\ dev'[t[1]] = a
    BY <1>1, <1>5 DEF Put, IKnown, ISharing, Shape
  <2>2. World' /\ Elsewhere(t)
    BY <1>1, <1>5 DEF World, Elsewhere
  <2>3. <<t[1], a>> \in opens /\ (obj[a] = "gone" => Sent(t[1], a))
    BY <1>1, <1>5 DEF Opened, Told, Probing, Keeping
  <2>4. Has(t[1])'
    BY <1>1, <1>5, <2>1, <2>3 DEF Has, Sent
  <2> QED
    BY <1>1, <2>1, <2>2, <2>4 DEF Good, Opened, Told, Cleared, Probing, Keeping
<1>6. CASE Put(t, gives) /\ CloseAt(t[1], a) /\ UNCHANGED dev
  <2>1. task'[t] = gives
    BY <1>6 DEF Put, IKnown, ISharing, Shape
  <2> QED
    BY <1>1, <1>3, <1>6, <2>1, CloseMoves DEF Probing, Keeping
<1> QED
  BY <1>4, <1>5, <1>6

LEMMA ReleaseKnown ==
  ASSUME IKnown, NEW t \in Tasks, Release(t)
  PROVE  Good(t)
<1> USE FieldNames
<1> DEFINE h == t[1]
<1>1. /\ task[t].pc = "release" /\ UNCHANGED <<obj, opens, dev, events>>
      /\ Named(task[t]) /\ DOMAIN task[t] = Fields /\ World
      /\ Named(Back(t)) /\ Back(t).pc \in {"idle", "drain"} /\ Back(t).after # "gone"
      /\ Cleared(t)
  BY NamedFacts DEF Release, At, IKnown
<1>2. PICK back : back = [task[t] EXCEPT !.pc = "select", !.a = NoAddr, !.after = "return"]
  OBVIOUS
<1>3. back.pc = "select" /\ back.after # "gone" /\ Named(back)
  BY <1>1, <1>2 DEF Named, Probing, Keeping
<1>4. Put(t, back) \/ Put(t, Back(t))
  BY <1>2 DEF Release, Return
<1>5. task'[t] \in {back, Back(t)}
  BY <1>4 DEF Put, IKnown, ISharing, Shape
<1>6. probeQ' \in [Handles -> Seq(Addrs \cup {NoAddr})]
  <2>1. probeQ[h] \in Seq(Addrs \cup {NoAddr}) /\ Append(probeQ[h], NoAddr) \in Seq(Addrs \cup {NoAddr})
    BY <1>1, SeqFacts DEF World
  <2>2. probeQ' = probeQ \/ probeQ' = [probeQ EXCEPT ![h] = Append(@, NoAddr)]
    BY DEF Release
  <2> QED
    BY <1>1, <2>1, <2>2 DEF World
<1>7. CASE task[t].after # "gone"
  <2>1. UNCHANGED gone
    BY <1>7 DEF Release
  <2> QED
    BY <1>1, <1>3, <1>5, <1>6, <2>1, QuietMoves DEF Probing, Keeping
<1>8. CASE task[t].after = "gone"
  <2>1. gone' = [gone EXCEPT ![h] = FALSE] /\ dev[h] = NoAddr
    BY <1>1, <1>8 DEF Release, Cleared
  <2>2. World' /\ Elsewhere(t)
    BY <1>1, <1>6, <2>1 DEF World, Elsewhere
  <2>3. Has(h)'
    BY <1>1, <2>1 DEF Has
  <2> QED
    BY <1>1, <1>3, <1>5, <2>2, <2>3 DEF Good, Opened, Told, Cleared, Probing, Keeping
<1> QED
  BY <1>7, <1>8

LEMMA DropKnown ==
  ASSUME IKnown, NEW t \in Tasks, Drop(t)
  PROVE  Good(t)
<1> USE FieldNames
<1> DEFINE h == t[1]
<1>1. /\ task[t].pc = "drop" /\ UNCHANGED <<gone, events, probeQ>> /\ dev' = [dev EXCEPT ![h] = NoAddr]
      /\ Named(task[t]) /\ DOMAIN task[t] = Fields /\ World
  BY NamedFacts DEF Drop, At
<1>2. PICK gives : gives = [task[t] EXCEPT !.pc = "release", !.a = dev[h]]
  OBVIOUS
<1>3. gives.pc = "release" /\ Named(gives)
  BY <1>1, <1>2 DEF Named, Probing, Keeping
<1>4. task'[t] = gives
  BY <1>2 DEF Drop, Put, IKnown, ISharing, Shape
<1>5. /\ opens' \subseteq opens /\ \A p \in opens : p[1] # h => p \in opens'
      /\ obj' \in [Addrs -> {"free", "here", "gone"}]
      /\ \A a \in Addrs : obj'[a] = "gone" => obj[a] = "gone"
  <2>1. CASE dev[h] = NoAddr
    BY <1>1, <2>1 DEF Drop, World
  <2>2. CASE dev[h] # NoAddr
    <3>1. CloseAt(h, dev[h])
      BY <2>2 DEF Drop
    <3>2. opens' = opens \ {<<h, dev[h]>>} /\ obj' = Swept(opens')
      BY <3>1 DEF CloseAt
    <3>3. ASSUME NEW p \in opens, p[1] # h
          PROVE  p \in opens'
      <4>1. p # <<h, dev[h]>>
        BY <3>3
      <4> QED
        BY <3>2, <4>1
    <3>4. /\ obj' \in [Addrs -> {"free", "here", "gone"}]
          /\ \A a \in Addrs : obj'[a] = "gone" => obj[a] = "gone"
      BY <1>1, <3>2 DEF Swept, World
    <3> QED
      BY <3>2, <3>3, <3>4
  <2> QED
    BY <2>1, <2>2
<1>6. World'
  BY <1>1, <1>5 DEF World
<1>7. Elsewhere(t)
  <2>1. ASSUME NEW g \in Handles, g # h, NEW a \in Addrs
        PROVE  <<g, a>> \in opens' <=> <<g, a>> \in opens
    <3>1. <<g, a>>[1] = g
      OBVIOUS
    <3> QED
      BY <1>5, <2>1, <3>1
  <2> QED
    BY <1>1, <1>5, <2>1 DEF Elsewhere, World
<1>8. Has(h)' /\ dev'[h] = NoAddr
  BY <1>1 DEF Has, World
<1> QED
  BY <1>3, <1>4, <1>6, <1>7, <1>8 DEF Good, Opened, Told, Cleared, Probing, Keeping

LEMMA TopKnown ==
  ASSUME IKnown, NEW h \in Handles, ClientTop(h)
  PROVE  Good(Client(h))
<1> USE FieldNames
<1> DEFINE t == Client(h)
<1>1. /\ t \in Tasks /\ task[t].pc = "idle" /\ UNCHANGED <<obj, opens, dev, gone, events, probeQ>>
      /\ Named(task[t]) /\ DOMAIN task[t] = Fields /\ task[t].after # "gone" /\ World
  BY NamedFacts DEF ClientTop, At
<1>2. PICK drops, drains :
        /\ drops = [Locals EXCEPT !.pc = "drop", !.after = "gone"]
        /\ drains = [task[t] EXCEPT !.pc = "drain"]
  OBVIOUS
<1>3. /\ drops.pc = "drop" /\ Named(drops)
      /\ drains.pc = "drain" /\ drains.after # "gone" /\ Named(drains)
  BY <1>1, <1>2, SeqFacts DEF Named, Probing, Keeping, Locals
<1>4. Put(t, drops) \/ Put(t, drains)
  BY <1>2 DEF ClientTop, Go
<1>5. task'[t] \in {drops, drains}
  BY <1>1, <1>4 DEF Put, IKnown, ISharing, Shape
<1>6. task'[t].after = "gone" => task'[t].pc = "drop" \/ task'[t] = task[t]
  BY <1>3, <1>5
<1>7. Named(task'[t]) /\ task'[t].pc \notin Probing
  BY <1>3, <1>5 DEF Probing, Keeping
<1>8. probeQ' \in [Handles -> Seq(Addrs \cup {NoAddr})]
  BY <1>1 DEF World
<1> QED
  BY <1>1, <1>6, <1>7, <1>8, QuietMoves

LEMMA TakeKnown ==
  ASSUME IKnown, NEW h \in Handles, ClientTake(h)
  PROVE  Good(Client(h))
<1> USE FieldNames
<1> DEFINE t == Client(h)
           a == Head(probeQ[h])
<1>1. /\ t \in Tasks /\ task[t].pc = "drain" /\ UNCHANGED <<obj, opens, dev, gone, events>>
      /\ Named(task[t]) /\ DOMAIN task[t] = Fields /\ task[t].after # "gone" /\ World
  BY NamedFacts DEF ClientTake, At
<1>2. probeQ[h] \in Seq(Addrs \cup {NoAddr})
  BY <1>1 DEF World
<1>3. probeQ[h] # <<>> => a \in Addrs \cup {NoAddr} /\ Tail(probeQ[h]) \in Seq(Addrs \cup {NoAddr})
  BY <1>2, SeqFacts
<1>4. PICK rests, scans, given :
        /\ rests = [task[t] EXCEPT !.pc = "idle"]
        /\ scans = Listing(Locals, Listed, "list")
        /\ given = [Listing(Locals, <<a>>, "first") EXCEPT !.first = a]
  OBVIOUS
<1>5. /\ rests.pc = "idle" /\ rests.after # "gone" /\ Named(rests)
      /\ scans.pc = "list" /\ scans.after # "gone" /\ Named(scans)
  <2>1. rests.pc = "idle" /\ rests.after # "gone" /\ Named(rests)
    BY <1>1, <1>4 DEF Named, Probing, Keeping
  <2>2. /\ scans.pc = "list" /\ scans.after # "gone" /\ scans.todo = Listed
        /\ scans.cands = <<>> /\ scans.first = NoAddr
    BY <1>4 DEF Listing, Locals
  <2>3. <<>> \in Seq(Addrs)
    OBVIOUS
  <2> QED
    BY <2>1, <2>2, <2>3, ListedAddrs DEF Named, Probing, Keeping
<1>6. a \in Addrs => given.pc = "list" /\ given.after # "gone" /\ Named(given)
  <2>1. /\ given.pc = "list" /\ given.after # "gone" /\ given.todo = <<a>>
        /\ given.cands = <<>> /\ given.first = a
    BY <1>4 DEF Listing, Locals
  <2>2. a \in Addrs => <<a>> \in Seq(Addrs) /\ <<>> \in Seq(Addrs)
    OBVIOUS
  <2> QED
    BY <2>1, <2>2 DEF Named, Probing, Keeping
<1>7. \/ probeQ' = probeQ /\ Put(t, rests)
      \/ /\ probeQ[h] # <<>> /\ probeQ' = [probeQ EXCEPT ![h] = Tail(@)]
         /\ \/ Put(t, scans) \/ UNCHANGED task
            \/ a # NoAddr /\ Put(t, given)
  BY <1>4 DEF ClientTake, Go
<1>8. probeQ' \in [Handles -> Seq(Addrs \cup {NoAddr})]
  BY <1>1, <1>3, <1>7 DEF World
<1>9. \/ task'[t] \in {rests, scans, task[t]}
      \/ a \in Addrs /\ task'[t] = given
  BY <1>1, <1>3, <1>7 DEF Put, IKnown, ISharing, Shape
<1>10. Named(task'[t]) /\ task'[t].pc \notin Probing /\ task'[t].after # "gone"
  BY <1>1, <1>5, <1>6, <1>9 DEF Probing, Keeping
<1> QED
  BY <1>1, <1>8, <1>10, QuietMoves

LEMMA ListedKnown ==
  ASSUME IKnown, NEW h \in Handles, AppListed(h)
  PROVE  Good(App(h))
<1> USE FieldNames
<1> DEFINE t == App(h)
<1>1. /\ t \in Tasks /\ task[t].pc = "list" /\ UNCHANGED <<obj, opens, dev, gone, events, probeQ>>
      /\ Named(task[t]) /\ DOMAIN task[t] = Fields /\ task[t].after # "gone" /\ World
      /\ Named(Back(t)) /\ Back(t).pc \in {"idle", "drain"} /\ Back(t).after # "gone"
  BY NamedFacts DEF AppListed, At
<1>2. PICK next : next = [task[t] EXCEPT !.todo = <<>>, !.pc = IF dev[h] = NoAddr THEN "select" ELSE "drop",
                                         !.after = IF dev[h] = NoAddr THEN "return" ELSE @]
  OBVIOUS
<1>3. next.pc \in {"select", "drop"} /\ next.after # "gone" /\ Named(next)
  <2>1. /\ next.pc \in {"select", "drop"} /\ next.after # "gone" /\ next.todo = <<>>
        /\ next.cands = task[t].cands /\ next.first = task[t].first
    BY <1>1, <1>2 DEF Fields, Locals
  <2>2. <<>> \in Seq(Addrs)
    OBVIOUS
  <2> QED
    BY <1>1, <2>1, <2>2 DEF Named, Probing, Keeping
<1>4. Put(t, Back(t)) \/ Put(t, next)
  BY <1>2 DEF AppListed, Return
<1>5. task'[t] \in {Back(t), next}
  BY <1>1, <1>4 DEF Put, IKnown, ISharing, Shape
<1>6. Named(task'[t]) /\ task'[t].pc \notin Probing /\ task'[t].after # "gone"
  BY <1>1, <1>3, <1>5 DEF Probing, Keeping
<1>7. probeQ' \in [Handles -> Seq(Addrs \cup {NoAddr})]
  BY <1>1 DEF World
<1> QED
  BY <1>1, <1>6, <1>7, QuietMoves

LEMMA CallKnown ==
  ASSUME IKnown, NEW h \in Handles, NEW op, AppCall(h, op)
  PROVE  Good(App(h))
<1> USE FieldNames
<1> DEFINE t == App(h)
<1>1. /\ t \in Tasks /\ UNCHANGED <<obj, opens, dev, gone, events, probeQ>> /\ World
  BY NamedFacts DEF AppCall
<1>2. PICK begins : begins = [Listing(Locals, Listed, IF op = "hub" THEN "hub" ELSE "list")
                                EXCEPT !.after = IF op = "select" THEN "select" ELSE "return"]
  OBVIOUS
<1>3. /\ begins.pc = "list" /\ begins.after # "gone" /\ begins.todo = Listed
      /\ begins.cands = <<>> /\ begins.first = NoAddr
  BY <1>2 DEF Listing, Locals
<1>4. <<>> \in Seq(Addrs)
  OBVIOUS
<1>5. Named(begins)
  BY <1>3, <1>4, ListedAddrs DEF Named, Probing, Keeping
<1>6. task'[t] = begins
  BY <1>1, <1>2 DEF AppCall, Put, IKnown, ISharing, Shape
<1>7. probeQ' \in [Handles -> Seq(Addrs \cup {NoAddr})]
  BY <1>1 DEF World
<1> QED
  BY <1>1, <1>3, <1>5, <1>6, <1>7, QuietMoves DEF Probing, Keeping

\* A step of a task is one of those.
LEMMA TaskKnown ==
  ASSUME AppAlone, IKnown, NEW t \in Tasks, Seeks(t) \/ Taken(t)
  PROVE  Good(t)
<1>1. t[2] = "client" => t = Client(t[1])
  BY DEF Tasks, Client
<1>2. t[2] = "app" => t = App(t[1])
  BY DEF Tasks, App
<1>3. t[1] \in Handles
  BY FieldNames
<1>4. CASE ListStep(t) \/ ProbeIdentify(t) \/ ListDone(t) \/ Select(t)
  BY <1>4, ListKnown, IdentifyKnown, DoneKnown, SelectKnown
<1>5. CASE t[2] = "client" /\ (ClientTop(t[1]) \/ ClientTake(t[1]))
  BY <1>1, <1>3, <1>5, TopKnown, TakeKnown
<1>6. CASE t[2] = "app" /\ (AppListed(t[1]) \/ \E op \in AppOps : AppCall(t[1], op))
  BY <1>2, <1>3, <1>6, ListedKnown, CallKnown
<1>7. CASE Taken(t)
  BY <1>7, ClaimKnown, OpenKnown, AnswerKnown, KeepKnown, ReleaseKnown, DropKnown DEF Taken
<1> QED
  BY <1>4, <1>5, <1>6, <1>7 DEF Seeks

\* What happens outside the tasks: the events' handling, and the bus.
LEMMA EventKnown ==
  ASSUME AppAlone, ~EventAtAnswer, IKnown, NEW h \in Handles, ClientEvent(h), ISharing'
  PROVE  IKnown'
<1> USE FieldNames
<1> DEFINE e == Head(events[h])
<1>1. /\ UNCHANGED <<obj, opens, owner, dev, pref, task>> /\ World /\ events[h] # <<>>
      /\ events' = [events EXCEPT ![h] = Tail(@)]
      /\ gone' = [gone EXCEPT ![h] = @ \/ (~e.new /\ dev[h] = e.a)]
      /\ task[Client(h)].pc \in {"idle", "identify", "asking"} /\ task[App(h)].pc = "idle"
  BY DEF ClientEvent, IKnown, At, Calm
<1>2. /\ events[h] \in Seq([new: BOOLEAN, a: Addrs])
      /\ probeQ[h] \in Seq(Addrs \cup {NoAddr})
  BY <1>1 DEF World
<1>3. e \in [new: BOOLEAN, a: Addrs] /\ Tail(events[h]) \in Seq([new: BOOLEAN, a: Addrs])
  BY <1>1, <1>2, SeqFacts
<1>4. probeQ' \in [Handles -> Seq(Addrs \cup {NoAddr})]
  <2>1. probeQ' = probeQ \/ probeQ' = [probeQ EXCEPT ![h] = Append(@, e.a)]
    BY DEF ClientEvent
  <2>2. Append(probeQ[h], e.a) \in Seq(Addrs \cup {NoAddr})
    BY <1>2, <1>3, SeqFacts
  <2> QED
    BY <1>1, <2>1, <2>2 DEF World
<1>5. gone' \in [Handles -> BOOLEAN] /\ events' \in [Handles -> Seq([new: BOOLEAN, a: Addrs])]
  BY <1>1, <1>3 DEF World
<1>6. World'
  BY <1>1, <1>4, <1>5 DEF World
<1>7. \A g \in Handles : g # h => gone'[g] = gone[g] /\ events'[g] = events[g]
  BY <1>1 DEF World
<1>8. ASSUME NEW a \in Addrs, Sent(h, a)
      PROVE  Sent(h, a)' \/ e = [new |-> FALSE, a |-> a]
  <2>1. PICK i \in DOMAIN events[h] : events[h][i] = [new |-> FALSE, a |-> a]
    BY <1>8 DEF Sent
  <2>2. CASE i = 1
    BY <1>2, <2>1, <2>2
  <2>3. CASE i # 1
    <3>1. i - 1 \in DOMAIN Tail(events[h]) /\ Tail(events[h])[i - 1] = events[h][i]
      BY <1>1, <1>2, <2>1, <2>3
    <3>2. events'[h] = Tail(events[h])
      BY <1>1 DEF World
    <3> QED
      BY <2>1, <3>1, <3>2 DEF Sent
  <2> QED
    BY <2>2, <2>3
<1>9. ASSUME NEW g \in Handles
      PROVE  Has(g)'
  <2>1. Has(g)
    BY DEF IKnown
  <2>2. CASE g # h
    <3>1. UNCHANGED <<obj, opens, dev>> /\ gone'[g] = gone[g] /\ events'[g] = events[g]
      BY <1>1, <1>7, <2>2
    <3>2. \A a \in Addrs : Sent(g, a) => Sent(g, a)'
      BY <3>1 DEF Sent
    <3> QED
      BY <2>1, <3>1, <3>2 DEF Has
  <2>3. CASE g = h
    <3>1. ASSUME NEW a \in Addrs, dev[h] = a, obj[a] = "gone"
          PROVE  gone'[h] \/ Sent(h, a)'
      <4>1. gone[h] \/ Sent(h, a)
        BY <2>1, <2>3, <3>1 DEF Has
      <4>2. gone'[h] = (gone[h] \/ (~e.new /\ dev[h] = e.a))
        BY <1>1 DEF World
      <4>3. CASE gone[h]
        BY <4>2, <4>3
      <4>4. CASE Sent(h, a)
        <5>1. CASE Sent(h, a)'
          BY <5>1
        <5>2. CASE e = [new |-> FALSE, a |-> a]
          <6>1. ~e.new /\ e.a = a
            BY <5>2
          <6> HIDE DEF e
          <6> QED
            BY <3>1, <4>2, <6>1
        <5> QED
          BY <1>8, <4>4, <5>1, <5>2
      <4> QED
        BY <4>1, <4>3, <4>4
    <3> QED
      BY <1>1, <2>1, <2>3, <3>1 DEF Has
  <2> QED
    BY <2>2, <2>3
<1>10. ASSUME NEW u \in Tasks
       PROVE  Named(task'[u]) /\ Opened(u)' /\ Told(u)' /\ Cleared(u)'
  <2>1. Named(task[u]) /\ Opened(u) /\ Told(u) /\ Cleared(u)
    BY DEF IKnown
  <2>2. Named(task'[u]) /\ Opened(u)' /\ Cleared(u)'
    BY <1>1, <2>1 DEF Opened, Cleared
  <2>3. CASE u[1] # h
    <3>1. UNCHANGED <<obj, task>> /\ events'[u[1]] = events[u[1]]
      BY <1>1, <1>7, <2>3
    <3>2. \A a : Sent(u[1], a) => Sent(u[1], a)'
      BY <3>1 DEF Sent
    <3>3. Told(u)'
      BY <2>1, <3>1, <3>2 DEF Told
    <3> QED
      BY <2>2, <3>3
  <2>4. CASE u[1] = h
    <3>1. u = Client(h) \/ u = App(h)
      BY <2>4 DEF Tasks, Client, App
    <3> QED
      BY <1>1, <2>2, <3>1 DEF Told
  <2> QED
    BY <2>2, <2>3, <2>4
<1> QED
  BY <1>6, <1>9, <1>10 DEF IKnown

LEMMA BusKnown ==
  ASSUME IKnown, NEW a \in Addrs, Attach(a) \/ Unplug(a), ISharing'
  PROVE  IKnown'
<1> USE FieldNames
<1>1. UNCHANGED <<opens, owner, dev, gone, probeQ, pref, task>> /\ World
  BY DEF Attach, Unplug, IKnown
<1>2. ASSUME NEW h \in Handles
      PROVE  /\ events[h] \in Seq([new: BOOLEAN, a: Addrs])
             /\ events'[h] \in Seq([new: BOOLEAN, a: Addrs])
             /\ \A b \in Addrs : Sent(h, b) => Sent(h, b)'
             /\ \A b \in Addrs : obj'[b] = "gone" /\ obj[b] # "gone" /\ <<h, b>> \in opens => Sent(h, b)'
  <2>1. events[h] \in Seq([new: BOOLEAN, a: Addrs])
    BY <1>1 DEF World
  <2>2. ASSUME NEW b \in Addrs, obj'[b] = "gone", obj[b] # "gone"
        PROVE  b = a /\ Unplug(a)
    BY <1>1, <2>2 DEF Attach, Unplug, World
  <2>a. [new |-> TRUE, a |-> a] \in [new: BOOLEAN, a: Addrs] /\ [new |-> FALSE, a |-> a] \in [new: BOOLEAN, a: Addrs]
    OBVIOUS
  <2>b. \E e \in [new: BOOLEAN, a: Addrs] :
          /\ events'[h] = Append(events[h], e) \/ events'[h] = events[h]
          /\ Unplug(a) /\ <<h, a>> \in opens =>
               events'[h] = Append(events[h], e) /\ e = [new |-> FALSE, a |-> a]
    <3>1. CASE Attach(a)
      <4>1. events'[h] = Append(events[h], [new |-> TRUE, a |-> a])
        BY <3>1 DEF Attach
      <4>2. ~Unplug(a)
        BY <3>1 DEF Attach, Unplug
      <4> QED
        BY <2>a, <4>1, <4>2
    <3>2. CASE Unplug(a) /\ <<h, a>> \in opens
      <4>1. events'[h] = Append(events[h], [new |-> FALSE, a |-> a])
        BY <3>2 DEF Unplug
      <4> QED
        BY <2>a, <4>1
    <3>3. CASE Unplug(a) /\ <<h, a>> \notin opens
      <4>1. events'[h] = events[h]
        BY <3>3 DEF Unplug
      <4> QED
        BY <2>a, <3>3, <4>1
    <3> QED
      BY <3>1, <3>2, <3>3
  <2>3. PICK e \in [new: BOOLEAN, a: Addrs] :
          /\ events'[h] = Append(events[h], e) \/ events'[h] = events[h]
          /\ Unplug(a) /\ <<h, a>> \in opens =>
               events'[h] = Append(events[h], e) /\ e = [new |-> FALSE, a |-> a]
    BY <2>b
  <2>4. events'[h] \in Seq([new: BOOLEAN, a: Addrs])
    <3>1. Append(events[h], e) \in Seq([new: BOOLEAN, a: Addrs])
      BY <2>1, SeqFacts
    <3> QED
      BY <2>1, <2>3, <3>1
  <2>5. /\ \A i \in DOMAIN events[h] : i \in DOMAIN Append(events[h], e)
                                       /\ Append(events[h], e)[i] = events[h][i]
        /\ Len(events[h]) + 1 \in DOMAIN Append(events[h], e)
        /\ Append(events[h], e)[Len(events[h]) + 1] = e
    BY <2>1
  <2>6. \A b \in Addrs : Sent(h, b) => Sent(h, b)'
    BY <2>3, <2>5 DEF Sent
  <2>7. ASSUME NEW b \in Addrs, obj'[b] = "gone", obj[b] # "gone", <<h, b>> \in opens
        PROVE  Sent(h, b)'
    <3>1. events'[h] = Append(events[h], e) /\ e = [new |-> FALSE, a |-> b]
      BY <2>2, <2>3, <2>7
    <3> QED
      BY <2>5, <3>1 DEF Sent
  <2> QED
    BY <2>1, <2>4, <2>6, <2>7
<1>3. World'
  <2>1. obj' \in [Addrs -> {"free", "here", "gone"}]
    BY <1>1 DEF World, Attach, Unplug
  <2>2. DOMAIN events' = Handles /\ events' = [h \in Handles |-> events'[h]]
    BY DEF Attach, Unplug
  <2>3. events' \in [Handles -> Seq([new: BOOLEAN, a: Addrs])]
    BY <1>2, <2>2
  <2> QED
    BY <1>1, <2>1, <2>3 DEF World
<1>4. ASSUME NEW h \in Handles
      PROVE  Has(h)'
  <2>1. Has(h)
    BY DEF IKnown
  <2>2. ASSUME NEW b \in Addrs, dev[h] = b, obj'[b] = "gone"
        PROVE  gone[h] \/ Sent(h, b)'
    <3>1. <<h, b>> \in opens /\ (obj[b] = "gone" => gone[h] \/ Sent(h, b))
      BY <2>1, <2>2 DEF Has
    <3> QED
      BY <1>2, <2>2, <3>1
  <2> QED
    BY <1>1, <2>1, <2>2 DEF Has
<1>5. ASSUME NEW u \in Tasks
      PROVE  Named(task'[u]) /\ Opened(u)' /\ Told(u)' /\ Cleared(u)'
  <2>1. Named(task[u]) /\ Opened(u) /\ Told(u) /\ Cleared(u)
    BY DEF IKnown
  <2>2. Named(task'[u]) /\ Opened(u)' /\ Cleared(u)'
    BY <1>1, <2>1 DEF Opened, Cleared
  <2>3. ASSUME task[u].pc \in {"kidentify", "answered"}, obj'[task[u].a] = "gone"
        PROVE  Sent(u[1], task[u].a)'
    <3>1. task[u].a \in Addrs /\ <<u[1], task[u].a>> \in opens
      BY <2>1, <2>3 DEF Named, Opened, Probing, Keeping
    <3>2. obj[task[u].a] = "gone" => Sent(u[1], task[u].a)
      BY <2>1, <2>3 DEF Told
    <3>3. u[1] \in Handles
      OBVIOUS
    <3>4. PICK b : b = task[u].a
      OBVIOUS
    <3>5. Sent(u[1], b)'
      BY <1>2, <2>3, <3>1, <3>2, <3>3, <3>4
    <3>6. PICK i \in DOMAIN events'[u[1]] : events'[u[1]][i] = [new |-> FALSE, a |-> b]
      BY <3>5 DEF Sent
    <3>7. [new |-> FALSE, a |-> b] = [new |-> FALSE, a |-> task'[u].a]
      BY <1>1, <3>4
    <3> QED
      BY <3>6, <3>7 DEF Sent
  <2>4. Told(u)'
    BY <1>1, <2>3 DEF Told
  <2> QED
    BY <2>2, <2>4
<1> QED
  BY <1>3, <1>4, <1>5 DEF IKnown

LEMMA KnownStart == Init => IKnown
<1> SUFFICES ASSUME Init
             PROVE  IKnown
  OBVIOUS
<1> USE FieldNames
<1>1. ISharing
  BY SharingStart
<1>2. \A t \in Tasks : task[t] = Locals
  BY DEF Init
<1>3. Locals.pc = "idle" /\ Locals.after # "gone" /\ Named(Locals)
  BY SeqFacts DEF Locals, Named, Probing, Keeping
<1>4. /\ obj \in [Addrs -> {"free", "here", "gone"}] /\ opens \subseteq Handles \X Addrs
      /\ dev \in [Handles -> Addrs \cup {NoAddr}] /\ gone \in [Handles -> BOOLEAN]
      /\ events \in [Handles -> Seq([new: BOOLEAN, a: Addrs])]
      /\ \A h \in Handles : dev[h] = NoAddr
  BY SeqFacts DEF Init
<1>5. probeQ \in [Handles -> Seq(Addrs \cup {NoAddr})]
  BY DEF Init
<1>6. World
  BY <1>4, <1>5 DEF World
<1>7. ASSUME NEW t \in Tasks
      PROVE  Named(task[t]) /\ Opened(t) /\ Told(t) /\ Cleared(t)
  BY <1>2, <1>3 DEF Opened, Told, Cleared, Probing, Keeping
<1>8. ASSUME NEW h \in Handles
      PROVE  Has(h)
  BY <1>4 DEF Has
<1> QED
  BY <1>1, <1>6, <1>7, <1>8 DEF IKnown

\* The handle of a device that has gone away learns of it (architecture.md, hot
\* plug): device_gone is set, or the event that sets it is on its way, if an
\* application's select and refresh run while nothing else of their handle
\* does, and no DEV_GONE is handled in the pass that ends a probe.
THEOREM DeadBecomesKnown == ASSUME AppAlone, ~EventAtAnswer PROVE Spec => []DeadIsKnown
<1>1. ASSUME AppAlone, ~EventAtAnswer, IKnown, [Next]_vars
      PROVE  IKnown'
  <2>1. ISharing'
    BY <1>1, SharingKept DEF IKnown
  <2>2. CASE UNCHANGED vars
    <3>1. UNCHANGED <<obj, opens, dev, gone, events, probeQ, task>>
      BY <2>2 DEF vars
    <3>2. World'
      BY <1>1, <3>1 DEF IKnown, World
    <3>3. ASSUME NEW h \in Handles
          PROVE  Has(h)'
      <4>1. Has(h)
        BY <1>1 DEF IKnown
      <4> QED
        BY <3>1, <4>1 DEF Has, Sent
    <3>4. ASSUME NEW t \in Tasks
          PROVE  Named(task'[t]) /\ Opened(t)' /\ Told(t)' /\ Cleared(t)'
      <4>1. Named(task[t]) /\ Opened(t) /\ Told(t) /\ Cleared(t)
        BY <1>1 DEF IKnown
      <4> QED
        BY <3>1, <4>1 DEF Opened, Told, Cleared, Sent
    <3> QED
      BY <2>1, <3>2, <3>3, <3>4 DEF IKnown
  <2>3. ASSUME NEW t \in Tasks, Seeks(t) \/ Taken(t)
        PROVE  IKnown'
    <3>1. Shape /\ ISharing
      BY <1>1 DEF IKnown, ISharing
    <3>2. Moved(t)
      BY <2>3, <3>1, StepMoves DEF Kind
    <3>3. Lone(t)
      BY <1>1, <2>3, <3>1, LoneMover
    <3>4. Good(t)
      BY <1>1, <2>3, TaskKnown
    <3> QED
      BY <1>1, <2>1, <3>2, <3>3, <3>4, GoodKeeps
  <2>4. CASE \E h \in Handles : ClientEvent(h)
    BY <1>1, <2>1, <2>4, EventKnown
  <2>5. CASE \E a \in Addrs : Attach(a) \/ Unplug(a)
    BY <1>1, <2>1, <2>5, BusKnown
  <2> QED
    BY <1>1, <2>2, <2>3, <2>4, <2>5, StepCases
<1>2. IKnown => DeadIsKnown
  <2> SUFFICES ASSUME IKnown, NEW h \in Handles, dev[h] # NoAddr, obj[dev[h]] = "gone"
               PROVE  gone[h] \/ Sent(h, dev[h])
    BY DEF DeadIsKnown, Sent
  <2> QED
    BY DEF IKnown, World, Has
<1> QED
  BY <1>1, <1>2, KnownStart, PTL DEF Spec

=============================================================================
