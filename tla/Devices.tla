------------------------------ MODULE Devices ------------------------------
(***************************************************************************)
(* Which handle has which dongle: the claim table of the USB session       *)
(* (rtl_multi.hpp), the probing of addresses, hot plug and unplug through  *)
(* the client task's queue, and the application's selection of another     *)
(* device (esp_rtl_sdr.cpp).                                               *)
(*                                                                         *)
(* Two tasks of a handle probe: its client task, which holds no mutex, and *)
(* an application task inside select or refresh, which holds the handle's. *)
(* A probe is a sequence of steps: claim, open, identify, keep or close,   *)
(* release.  Candidate lists are sequences of addresses; a device is kept  *)
(* by its index in the list.  Identification fails for a device that is    *)
(* gone, and may fail for any other (foreign device, EP0 error).           *)
(***************************************************************************)
EXTENDS Naturals, Sequences, FiniteSets

CONSTANTS
    Handles,        \* installed handles
    Addrs,          \* USB addresses, a set of positive numbers
    TableSize,      \* entries of the claim table, ESP_RTL_SDR_MAX_DEVICES
    QueueDepth,     \* kProbeQueueDepth
    Nobody, BindAny,    \* model values; BindAny is ESP_RTL_SDR_BIND_ANY
    AppOps,         \* which calls the application makes
    AppAlone,       \* an application call meets no hot plug and no probe
    EventAtAnswer,  \* a DEV_GONE is handled in the pass of a probe's last answer
    MaxPlugs,       \* bound: attachments
    MaxCalls        \* bound: application calls

NoAddr == 0

ASSUME AddrSet == Addrs \subseteq Nat \ {0} /\ IsFiniteSet(Addrs)
ASSUME HandleSet == Nobody \notin Handles /\ IsFiniteSet(Handles)
ASSUME DeviceOptions == /\ AppOps \subseteq {"select", "refresh", "hub"} /\ {AppAlone, EventAtAnswer} \subseteq BOOLEAN
                        /\ {TableSize, QueueDepth, MaxPlugs, MaxCalls} \subseteq Nat
                        /\ BindAny \notin Nat

VARIABLES
    obj,      \* the host library's device object at each address
    opens,    \* <<handle, address>>: the client has the device open
    owner,    \* the claim table: whose claim an address is
    dev,      \* dev and open_addr of each handle
    gone,     \* device_gone
    events,   \* client events not yet handled: NEW_DEV or DEV_GONE of an address
    probeQ,   \* probe_q; NoAddr asks for a rescan
    pref,     \* preferred_device_index
    task,     \* where each task of each handle is, with its locals
    excused,  \* history: a present device was refused or an event lost
    plugs, calls

vars == <<obj, opens, owner, dev, gone, events, probeQ, pref, task, excused, plugs, calls>>

Tasks == Handles \X {"client", "app"}
Client(h) == <<h, "client">>
App(h) == <<h, "app">>

\* a: the address being probed; todo: those still to be listed; cands: the
\* list so far; first: the address try_open_device was given; after: where a
\* release leads; idx: the place in the list of what is being opened.
Locals == [pc |-> "idle", a |-> NoAddr, todo |-> <<>>, cands |-> <<>>, first |-> NoAddr,
           stage |-> "list", after |-> "return", idx |-> 0]

PCs == {"idle", "drain", "list", "identify", "select", "claim", "kopen", "kidentify",
        "asking", "answered", "drop", "release"}
Count == 0..Cardinality(Addrs)

TypeOK ==
    /\ obj \in [Addrs -> {"free", "here", "gone"}]
    /\ opens \subseteq Handles \X Addrs
    /\ owner \in [Addrs -> Handles \cup {Nobody}]
    /\ Cardinality({a \in Addrs : owner[a] # Nobody}) <= TableSize
    /\ dev \in [Handles -> Addrs \cup {NoAddr}]
    /\ gone \in [Handles -> BOOLEAN]
    /\ events \in [Handles -> Seq([new: BOOLEAN, a: Addrs])]
    /\ probeQ \in [Handles -> Seq(Addrs \cup {NoAddr})]
    /\ \A h \in Handles : Len(probeQ[h]) <= QueueDepth
    /\ pref \in [Handles -> (Count \ {0}) \cup {BindAny}]
    /\ DOMAIN task = Tasks
    /\ \A t \in Tasks : /\ task[t].pc \in PCs
                        /\ task[t].a \in Addrs \cup {NoAddr} /\ task[t].idx \in Count
                        /\ task[t].todo \in Seq(Addrs) /\ task[t].cands \in Seq(Addrs)
    /\ excused \in BOOLEAN /\ plugs \in 0..MaxPlugs /\ calls \in 0..MaxCalls

\* Installed, with the first rescan queued (start_usb_stack).
Init ==
    /\ obj = [a \in Addrs |-> "free"] /\ opens = {}
    /\ owner = [a \in Addrs |-> Nobody]
    /\ dev = [h \in Handles |-> NoAddr] /\ gone = [h \in Handles |-> FALSE]
    /\ events = [h \in Handles |-> <<>>]
    /\ probeQ = [h \in Handles |-> <<NoAddr>>]
    /\ pref = [h \in Handles |-> BindAny]
    /\ task = [t \in Tasks |-> Locals]
    /\ excused = FALSE /\ plugs = 0 /\ calls = 0

(***************************************************************************)
(* The claim table and the host library.                                   *)
(***************************************************************************)

TakenByOther(h, a) == owner[a] \notin {Nobody, h}
TableFull == Cardinality({a \in Addrs : owner[a] # Nobody}) >= TableSize
\* Mutant of CanClaim: the owner of a claim is overwritten.
ClaimAlways(h, a) == owner[a] # Nobody \/ ~TableFull

CanClaim(h, a) == owner[a] = h \/ (owner[a] = Nobody /\ ~TableFull)

\* A device object ends when its device is gone and nobody has it open.
Swept(ops) == [a \in Addrs |-> IF obj[a] = "gone" /\ ~\E h \in Handles : <<h, a>> \in ops
                               THEN "free" ELSE obj[a]]
CloseAt(h, a) == /\ opens' = opens \ {<<h, a>>}
                 /\ obj' = Swept(opens \ {<<h, a>>})
CanOpen(h, a) == obj[a] = "here" /\ <<h, a>> \notin opens

\* usb_host_device_addr_list_fill, oldest address first.
Present == {a \in Addrs : obj[a] # "free"}
Sorted(s) == \A i, j \in DOMAIN s : i < j => s[i] < s[j]
Listed == CHOOSE s \in [1..Cardinality(Present) -> Present] : Sorted(s)

Put(t, l) == task' = [task EXCEPT ![t] = l]
At(t, l) == task[t].pc = l
Go(t, l) == Put(t, [task[t] EXCEPT !.pc = l])
Back(t) == [Locals EXCEPT !.pc = IF t[2] = "client" THEN "drain" ELSE "idle"]
Return(t) == Put(t, Back(t))
Take(t, a, i) == Put(t, [Locals EXCEPT !.pc = "claim", !.a = a, !.idx = i])
Excuse(b) == excused' = (excused \/ b)
Listing(l, todo, stage) == [l EXCEPT !.pc = "list", !.todo = todo, !.cands = <<>>, !.stage = stage]

\* With AppAlone, while a handle's application call runs nothing else of it does.
Calm(h) == AppAlone => At(App(h), "idle")
Turn(t) == t[2] = "client" => Calm(t[1])

(***************************************************************************)
(* probe_candidate without keeping: the candidate list.                    *)
(***************************************************************************)

\* rebuild_candidate_list: what another handle has claimed is listed untouched
\* (the table is read without its lock), what the handle has open as well.
ListStep(t) ==
    /\ At(t, "list") /\ Turn(t) /\ task[t].todo # <<>>
    /\ LET h == t[1]  a == Head(task[t].todo) IN
         IF task[t].stage = "list" /\ (TakenByOther(h, a) \/ dev[h] = a)
         THEN /\ Put(t, [task[t] EXCEPT !.todo = Tail(@), !.cands = Append(@, a)])
              /\ UNCHANGED opens
         ELSE IF CanOpen(h, a)
         THEN /\ opens' = opens \cup {<<h, a>>}
              /\ Put(t, [task[t] EXCEPT !.pc = "identify", !.a = a, !.todo = Tail(@)])
         ELSE Put(t, [task[t] EXCEPT !.todo = Tail(@)]) /\ UNCHANGED opens
    /\ UNCHANGED <<obj, owner, dev, gone, events, probeQ, pref, excused, plugs, calls>>

ProbeIdentify(t) ==
    /\ At(t, "identify") /\ Turn(t)
    /\ LET h == t[1]  a == task[t].a IN
         /\ CloseAt(h, a)
         /\ \/ /\ task[t].stage # "hub"
               /\ Put(t, [task[t] EXCEPT !.pc = "list", !.a = NoAddr, !.cands = Append(@, a)])
               /\ UNCHANGED excused
            \/ /\ Put(t, [task[t] EXCEPT !.pc = "list", !.a = NoAddr])
               /\ Excuse(obj[a] = "here")
    /\ UNCHANGED <<owner, dev, gone, events, probeQ, pref, plugs, calls>>

\* The list is done: try_open_device goes on to the whole list, then to the
\* device it was given or to the preferred one; a rescan to the preferred one.
IndexIn(c, a) == IF \E i \in DOMAIN c : c[i] = a THEN CHOOSE i \in DOMAIN c : c[i] = a ELSE 1

ListDone(t) ==
    /\ t[2] = "client" /\ At(t, "list") /\ Turn(t) /\ task[t].todo = <<>>
    /\ LET h == t[1]  l == task[t]  i == IndexIn(l.cands, l.first) IN
         IF l.stage = "first"
         THEN IF l.cands = <<>> THEN Return(t) ELSE Put(t, Listing(l, Listed, "list"))
         ELSE IF l.first # NoAddr /\ ~(pref[h] # BindAny /\ pref[h] # i /\ Len(l.cands) > 1)
              THEN Take(t, l.first, i)
              ELSE Go(t, "select")
    /\ UNCHANGED <<obj, opens, owner, dev, gone, events, probeQ, pref, excused, plugs, calls>>

(***************************************************************************)
(* probe_candidate that keeps: claim, open, identify, take or let go.      *)
(***************************************************************************)

\* open_selected_candidate: the preferred index, or the first unclaimed.
Select(t) ==
    /\ At(t, "select") /\ Turn(t)
    /\ LET h == t[1]  c == task[t].cands
           ready == {i \in DOMAIN c : ~TakenByOther(h, c[i])}
           first == CHOOSE i \in ready : \A j \in ready : i <= j
           any == pref[h] = BindAny \/ pref[h] > Len(c)
           i == IF any THEN first ELSE pref[h]
       IN  IF dev[h] # NoAddr \/ ready = {} \/ (~any /\ pref[h] \notin ready) THEN Return(t)
           ELSE Take(t, c[i], i)
    /\ UNCHANGED <<obj, opens, owner, dev, gone, events, probeQ, pref, excused, plugs, calls>>

Claim(t) ==
    /\ At(t, "claim") /\ Turn(t)
    /\ LET h == t[1]  a == task[t].a IN
         IF dev[h] = a
         THEN Return(t) /\ pref' = [pref EXCEPT ![h] = task[t].idx] /\ UNCHANGED <<owner, excused>>
         ELSE /\ UNCHANGED pref
              /\ IF CanClaim(h, a)
                 THEN /\ owner' = [owner EXCEPT ![a] = h]
                      /\ Go(t, "kopen") /\ UNCHANGED excused
                 ELSE Return(t) /\ Excuse(~TakenByOther(h, a)) /\ UNCHANGED owner
    /\ UNCHANGED <<obj, opens, dev, gone, events, probeQ, plugs, calls>>

\* Mutant of KeepOpen: a device that cannot be opened leaves the claim behind.
KeepOpenLeaksClaim(t) ==
    /\ At(t, "kopen") /\ Turn(t)
    /\ LET h == t[1]  a == task[t].a IN
         IF CanOpen(h, a)
         THEN opens' = opens \cup {<<h, a>>} /\ (Go(t, "kidentify") \/ Go(t, "asking"))
         ELSE Return(t) /\ UNCHANGED opens
    /\ UNCHANGED <<obj, owner, dev, gone, events, probeQ, pref, excused, plugs, calls>>

\* Without a profile in the descriptors the tuner is asked over EP0.
KeepOpen(t) ==
    /\ At(t, "kopen") /\ Turn(t)
    /\ LET h == t[1]  a == task[t].a IN
         IF CanOpen(h, a)
         THEN opens' = opens \cup {<<h, a>>} /\ (Go(t, "kidentify") \/ Go(t, "asking"))
         ELSE Put(t, [task[t] EXCEPT !.pc = "release"]) /\ UNCHANGED opens
    /\ UNCHANGED <<obj, owner, dev, gone, events, probeQ, pref, excused, plugs, calls>>

Answer(t) ==
    /\ At(t, "asking") /\ Turn(t) /\ obj[task[t].a] = "here" /\ Go(t, "answered")
    /\ UNCHANGED <<obj, opens, owner, dev, gone, events, probeQ, pref, excused, plugs, calls>>

\* Descriptors are cached, so that even a device that is gone by now passes; it
\* is closed again if the handle has got another.
KeepIdentify(t) ==
    /\ task[t].pc \in {"kidentify", "asking", "answered"} /\ Turn(t)
    /\ LET h == t[1]  a == task[t].a
           lost == Put(t, [task[t] EXCEPT !.pc = "release"]) /\ CloseAt(h, a)
           keeps == pref' = [pref EXCEPT ![h] = task[t].idx]
       IN  \/ /\ ~At(t, "asking") /\ dev[h] = NoAddr /\ keeps
              /\ dev' = [dev EXCEPT ![h] = a]
              /\ Return(t) /\ UNCHANGED <<obj, opens, excused>>
           \/ ~At(t, "asking") /\ dev[h] # NoAddr /\ keeps /\ lost /\ UNCHANGED <<dev, excused>>
           \/ lost /\ Excuse(obj[a] = "here") /\ UNCHANGED <<dev, pref>>
    /\ UNCHANGED <<owner, gone, events, probeQ, plugs, calls>>

\* rtl_claim_release; then back, or on with what the release was part of.
\* After an unplug the handle is free again and asks itself for a rescan.
Release(t) ==
    /\ At(t, "release") /\ Turn(t)
    /\ LET h == t[1]  a == task[t].a  next == task[t].after IN
         /\ owner' = IF a # NoAddr /\ owner[a] = h THEN [owner EXCEPT ![a] = Nobody] ELSE owner
         /\ IF next = "select"
            THEN Put(t, [task[t] EXCEPT !.pc = "select", !.a = NoAddr, !.after = "return"])
            ELSE Return(t)
         /\ IF next = "gone"
            THEN /\ gone' = [gone EXCEPT ![h] = FALSE]
                 /\ IF Len(probeQ[h]) < QueueDepth
                    THEN probeQ' = [probeQ EXCEPT ![h] = Append(@, NoAddr)] /\ UNCHANGED excused
                    ELSE Excuse(TRUE) /\ UNCHANGED probeQ
            ELSE UNCHANGED <<gone, probeQ, excused>>
    /\ UNCHANGED <<obj, opens, dev, events, pref, plugs, calls>>

\* close_opened_device, up to the release of the claim.
Drop(t) ==
    /\ At(t, "drop") /\ Turn(t)
    /\ LET h == t[1] IN
         /\ Put(t, [task[t] EXCEPT !.pc = "release", !.a = dev[h]])
         /\ dev' = [dev EXCEPT ![h] = NoAddr]
         /\ IF dev[h] = NoAddr THEN UNCHANGED <<obj, opens>> ELSE CloseAt(h, dev[h])
    /\ UNCHANGED <<owner, gone, events, probeQ, pref, excused, plugs, calls>>

(***************************************************************************)
(* The client task's loop, client_event_cb, and the bus.                   *)
(***************************************************************************)

\* Events are handled at the top of the loop and while EP0 is waited for: with
\* EventAtAnswer also in the pass that brings the probe's last answer.
ClientEvent(h) ==
    /\ \/ task[Client(h)].pc \in {"idle", "identify", "asking"}
       \/ EventAtAnswer /\ At(Client(h), "answered")
    /\ Calm(h)
    /\ events[h] # <<>>
    /\ LET e == Head(events[h]) IN
         /\ events' = [events EXCEPT ![h] = Tail(@)]
         /\ gone' = [gone EXCEPT ![h] = @ \/ (~e.new /\ dev[h] = e.a)]
         /\ IF e.new /\ Len(probeQ[h]) < QueueDepth
            THEN probeQ' = [probeQ EXCEPT ![h] = Append(@, e.a)] /\ UNCHANGED excused
            ELSE Excuse(e.new) /\ UNCHANGED probeQ
    /\ UNCHANGED <<obj, opens, owner, dev, pref, task, plugs, calls>>

\* Mutant of ClientTop: device_gone is cleared before the device is closed.
ClientTopForgets(h) ==
    /\ At(Client(h), "idle") /\ Calm(h)
    /\ IF gone[h] THEN Put(Client(h), [Locals EXCEPT !.pc = "drop", !.after = "gone"])
       ELSE probeQ[h] # <<>> /\ Go(Client(h), "drain")
    /\ gone' = [gone EXCEPT ![h] = FALSE]
    /\ UNCHANGED <<obj, opens, owner, dev, events, probeQ, pref, excused, plugs, calls>>

ClientTop(h) ==
    /\ At(Client(h), "idle") /\ Calm(h)
    /\ IF gone[h] THEN Put(Client(h), [Locals EXCEPT !.pc = "drop", !.after = "gone"])
       ELSE probeQ[h] # <<>> /\ Go(Client(h), "drain")
    /\ UNCHANGED <<obj, opens, owner, dev, gone, events, probeQ, pref, excused, plugs, calls>>

\* The queue is emptied before the loop looks at device_gone again.
ClientTake(h) ==
    /\ At(Client(h), "drain") /\ Calm(h)
    /\ IF probeQ[h] = <<>> THEN Go(Client(h), "idle") /\ UNCHANGED probeQ
       ELSE LET a == Head(probeQ[h]) IN
            /\ probeQ' = [probeQ EXCEPT ![h] = Tail(@)]
            /\ IF a = NoAddr
               THEN Put(Client(h), Listing(Locals, Listed, "list"))
               ELSE IF dev[h] # NoAddr \/ TakenByOther(h, a)
               THEN UNCHANGED task
               ELSE Put(Client(h), [Listing(Locals, <<a>>, "first") EXCEPT !.first = a])
    /\ UNCHANGED <<obj, opens, owner, dev, gone, events, pref, excused, plugs, calls>>

Still == AppAlone => \A h \in Handles : At(App(h), "idle")

\* Every client hears of a new device, those that have it open of its end.
Attach(a) ==
    /\ obj[a] = "free" /\ plugs < MaxPlugs /\ Still
    /\ plugs' = plugs + 1
    /\ obj' = [obj EXCEPT ![a] = "here"]
    /\ events' = [h \in Handles |-> Append(events[h], [new |-> TRUE, a |-> a])]
    /\ UNCHANGED <<opens, owner, dev, gone, probeQ, pref, task, excused, calls>>

Unplug(a) ==
    /\ obj[a] = "here" /\ Still
    /\ obj' = [obj EXCEPT ![a] = IF \E h \in Handles : <<h, a>> \in opens THEN "gone" ELSE "free"]
    /\ events' = [h \in Handles |-> IF <<h, a>> \in opens
                                    THEN Append(events[h], [new |-> FALSE, a |-> a])
                                    ELSE events[h]]
    /\ UNCHANGED <<opens, owner, dev, gone, probeQ, pref, task, excused, plugs, calls>>

(***************************************************************************)
(* The application: select_device, refresh_device_list, and the power      *)
(* cycle of the hubs, which opens every address.                           *)
(***************************************************************************)

Resting(h) == At(Client(h), "idle") /\ events[h] = <<>> /\ probeQ[h] = <<>> /\ ~gone[h]

AppCall(h, op) ==
    /\ op \in AppOps /\ At(App(h), "idle") /\ calls < MaxCalls
    /\ AppAlone => Resting(h)
    /\ calls' = calls + 1 /\ Excuse(TRUE)
    /\ Put(App(h), [Listing(Locals, Listed, IF op = "hub" THEN "hub" ELSE "list")
                      EXCEPT !.after = IF op = "select" THEN "select" ELSE "return"])
    /\ UNCHANGED <<obj, opens, owner, dev, gone, events, probeQ, pref, plugs>>

\* select_device: the device at the index is the open one, or the open one is
\* closed and the other opened.
AppListed(h) ==
    /\ At(App(h), "list") /\ task[App(h)].todo = <<>>
    /\ LET l == task[App(h)] IN
         IF l.after = "return" \/ l.cands = <<>> THEN Return(App(h)) /\ UNCHANGED pref
         ELSE \E i \in DOMAIN l.cands :
                /\ pref' = [pref EXCEPT ![h] = i]
                /\ IF dev[h] = l.cands[i] THEN Return(App(h))
                   ELSE Put(App(h), [l EXCEPT !.todo = <<>>, !.pc = IF dev[h] = NoAddr THEN "select" ELSE "drop",
                                              !.after = IF dev[h] = NoAddr THEN "return" ELSE @])
    /\ UNCHANGED <<obj, opens, owner, dev, gone, events, probeQ, excused, plugs, calls>>

Probe(t) == \/ ListStep(t) \/ ProbeIdentify(t) \/ ListDone(t) \/ Select(t)
            \/ Claim(t) \/ KeepOpen(t) \/ Answer(t) \/ KeepIdentify(t) \/ Release(t) \/ Drop(t)

Next ==
    \/ \E t \in Tasks : Probe(t)
    \/ \E h \in Handles : \/ ClientEvent(h) \/ ClientTop(h) \/ ClientTake(h) \/ AppListed(h)
                          \/ \E op \in AppOps : AppCall(h, op)
    \/ \E a \in Addrs : Attach(a) \/ Unplug(a)

Spec == Init /\ [][Next]_vars

(***************************************************************************)
(* Properties.                                                             *)
(***************************************************************************)

\* rtl_multi.hpp 6-8: "two handles cannot silently share a dongle".
NoSharing == \A a \in Addrs : \A g, h \in Handles : dev[g] = a /\ dev[h] = a => g = h

\* What a handle works with is claimed by it, open, and not yet reused.
OpenIsClaimed ==
    \A h \in Handles : dev[h] # NoAddr =>
        owner[dev[h]] = h /\ <<h, dev[h]>> \in opens /\ obj[dev[h]] # "free"

\* A claim does not outlive its reason: whoever has one has the device, or is
\* in a step of taking it or giving it back.
ClaimHasReason ==
    \A a \in Addrs : owner[a] # Nobody =>
        \/ dev[owner[a]] = a
        \/ \E t \in Tasks : /\ t[1] = owner[a] /\ task[t].a = a
                            /\ task[t].pc \in {"kopen", "kidentify", "asking", "answered", "release"}

\* Nothing stays open that no task is probing and no handle uses.
OpenHasReason ==
    \A p \in opens :
        \/ dev[p[1]] = p[2]
        \/ \E t \in Tasks : /\ t[1] = p[1] /\ task[t].a = p[2]
                            /\ task[t].pc \in {"identify", "kidentify", "asking", "answered"}

\* The handle of a device that is gone learns of it: architecture.md, hot plug.
DeadIsKnown ==
    \A h \in Handles : dev[h] # NoAddr /\ obj[dev[h]] = "gone" =>
        gone[h] \/ \E i \in DOMAIN events[h] : events[h][i] = [new |-> FALSE, a |-> dev[h]]

Quiet == \A h \in Handles : Resting(h) /\ At(App(h), "idle")

\* Once all is quiet, no handle that takes any device is without one while a
\* device is unclaimed.
NoneOverlooked ==
    Quiet /\ ~excused =>
        \A a \in Addrs, h \in Handles :
            obj[a] = "here" /\ owner[a] = Nobody /\ pref[h] = BindAny => dev[h] # NoAddr

\* esp_rtl_sdr.cpp 3415: "Never probe a device another handle already owns", for
\* a foreign probe halts the endpoint of its stream.
ProbeSparesOthers ==
    \A t \in Tasks, h \in Handles : At(t, "identify") /\ dev[h] = task[t].a => t[1] = h
=============================================================================
