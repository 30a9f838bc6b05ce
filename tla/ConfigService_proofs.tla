------------------------ MODULE ConfigService_proofs ------------------------
(***************************************************************************)
(* Proofs about Control and ConfigService, for every catalog, number of    *)
(* clients, item selection and competing owner: the hardware record, the   *)
(* types, the mutex and arbiter discipline, the agreement of the report    *)
(* with flash, the danger gate, what a successful save guarantees, what a  *)
(* replay leaves however far it got, and that the service implements       *)
(* PersistentConfig.                                                       *)
(*                                                                         *)
(* The inductive invariants are ControlInv and IInv; each part is proved   *)
(* by a lemma with one step per action of the next-state relation.         *)
(***************************************************************************)
EXTENDS ConfigService, FiniteSetTheorems, TLAPS

-----------------------------------------------------------------------------
(* The devices below the service (Control), for every set of threads and of *)
(* faulty or missing devices: the types of the hardware record and of the   *)
(* calls, and what holds when setters do not overlap.                       *)

\* The values of an item of the catalog are values.
LEMMA ValuesOfItem == \A i \in Items : ValuesOf(i) \subseteq Values
  BY DEF Values

\* The GPIOs of the catalog, spelled out.
LEMMA GpioNames ==
  Gpio = {"GP7", "GP8", "GP9", "GP10", "GP11", "GP12", "GP13", "GP14",
          "GP15", "GP16", "GP17", "GP18", "GP19", "GP20", "GP29"}
  <1>1. 1..15 = {1, 2, 3, 4, 5, 6, 7, 8, 9, 10, 11, 12, 13, 14, 15}
    OBVIOUS
  <1> QED
    BY <1>1 DEF Gpio, GpioOrder

\* control_init leaves every item in a value of its own.
LEMMA DefaultTyped == \A i \in Items : Default(i) \in ValuesOf(i)
  <1> SUFFICES ASSUME NEW i \in Items PROVE Default(i) \in ValuesOf(i)
    OBVIOUS
  <1>1. CASE i \in Power
    <2>1. i \notin Switch /\ i \notin Gpio
      BY <1>1, GpioNames DEF Switch, Power
    <2> QED
      BY <1>1, <2>1 DEF Default, ValuesOf, Switch
  <1>2. CASE i \in Switch
    <2>1. i \notin Power /\ i \notin Gpio
      BY <1>2, GpioNames DEF Switch, Power
    <2> QED
      BY <1>2, <2>1 DEF Default, ValuesOf, Switch
  <1>3. CASE i \in Gpio
    <2>1. i \notin Power /\ i \notin Switch
      BY <1>3, GpioNames DEF Switch, Power
    <2> QED
      BY <1>3, <2>1 DEF Default, ValuesOf, Switch
  <1> QED
    BY <1>1, <1>2, <1>3, ItemsAssumption

\* The values the USB route, its hub rail and the VIN route take.
LEMMA RouteValues ==
  /\ "usb" \in Items /\ "vdd_5v" \in Items /\ "vin" \in Items
  /\ ValuesOf("usb") = {"target", "pc"}
  /\ ValuesOf("vdd_5v") = {"off", "on"}
  /\ ValuesOf("vin") = {"3.3v", "1.8v"}
  BY ItemsAssumption DEF ValuesOf, Power

\* An idle call is a call.
LEMMA NoCallTyped == NoCall \in Calls /\ NoCall.val \in ValuesOf(NoCall.item)
  BY RouteValues, ValuesOfItem DEF NoCall, Calls

LEMMA ControlInitInv == ControlInit => ControlInv
  <1> SUFFICES ASSUME ControlInit PROVE ControlInv
    OBVIOUS
  <1>1. live \in [Items -> Values] /\ \A i \in Items : live[i] \in ValuesOf(i)
    BY DefaultTyped, ValuesOfItem DEF ControlInit
  <1>2. vio \in ValuesOf("vin")
    BY RouteValues DEF ControlInit
  <1>3. /\ call \in [Threads -> Calls]
        /\ \A t \in Threads : call[t].val \in ValuesOf(call[t].item)
    BY NoCallTyped DEF ControlInit
  <1>4. CallShape
    BY DEF ControlInit, CallShape, NoCall
  <1> QED
    BY <1>1, <1>2, <1>3, <1>4 DEF ControlTypeOK, ControlInv

-----------------------------------------------------------------------------
(* Every step of a call keeps ControlInv; ConfigService composes the same  *)
(* steps with its own and cites these lemmas.                              *)

LEMMA BeginSetInv ==
  ASSUME ControlInv, NEW t \in Threads, NEW i \in Items,
         NEW v \in ValuesOf(i), BeginSet(t, i, v)
  PROVE  ControlInv'
  <1>1. v \in Values
    BY ValuesOfItem
  <1>2. /\ Entry(i, v) \in {"vdd_on", "mux", "set"}
        /\ Entry(i, v) = "vdd_on" => i = "usb" /\ v = "pc"
        /\ Entry(i, v) = "mux" => i = "usb"
        /\ Entry(i, v) = "set" => i # "usb"
    BY DEF Entry
  <1>3. ControlTypeOK'
    BY <1>1, <1>2 DEF ControlInv, ControlTypeOK, BeginSet, Calls
  <1>4. CallShape'
    BY <1>2 DEF ControlInv, ControlTypeOK, CallShape, BeginSet
  <1> QED
    BY <1>3, <1>4 DEF ControlInv

LEMMA EndSetInv ==
  ASSUME ControlInv, NEW t \in Threads, EndSet(t)
  PROVE  ControlInv'
  <1>1. ControlTypeOK'
    BY NoCallTyped DEF ControlInv, ControlTypeOK, EndSet
  <1>2. CallShape'
    BY DEF ControlInv, ControlTypeOK, CallShape, EndSet, NoCall
  <1> QED
    BY <1>1, <1>2 DEF ControlInv

LEMMA VinReadInv ==
  ASSUME ControlInv, NEW t \in Threads, vin_route_read(t)
  PROVE  ControlInv'
  <1>1. vio \in Values
    BY RouteValues, ValuesOfItem DEF ControlInv, ControlTypeOK
  <1>2. ControlTypeOK'
    BY <1>1, RouteValues DEF ControlInv, ControlTypeOK, vin_route_read, Calls
  <1>3. CallShape'
    BY DEF ControlInv, ControlTypeOK, CallShape, vin_route_read
  <1> QED
    BY <1>2, <1>3 DEF ControlInv

\* Writing a value of item i into its record keeps the record typed.
LEMMA LiveUpdate ==
  ASSUME ControlTypeOK, NEW i \in Items, NEW v \in ValuesOf(i),
         live' = [live EXCEPT ![i] = v]
  PROVE  /\ live' \in [Items -> Values]
         /\ \A j \in Items : live'[j] \in ValuesOf(j)
  BY ValuesOfItem DEF ControlTypeOK

\* A call that moves to its next section or returns keeps item and value.
LEMMA CallUpdate ==
  ASSUME ControlInv, NEW t \in Threads,
         \/ call[t].pc = "vdd_on" /\ Goto(t, "mux")
         \/ call[t].pc = "mux" /\ call[t].val = "target" /\ Goto(t, "vdd_off")
         \/ \E good \in BOOLEAN : Return(t, good)
  PROVE  /\ call' \in [Threads -> Calls]
         /\ \A u \in Threads : call'[u].val \in ValuesOf(call'[u].item)
         /\ CallShape'
  <1>1. /\ call' \in [Threads -> Calls]
        /\ \A u \in Threads : call'[u].val \in ValuesOf(call'[u].item)
    BY DEF ControlInv, ControlTypeOK, Goto, Return, Calls
  <1>2. CallShape'
    BY DEF ControlInv, ControlTypeOK, CallShape, Goto, Return, Calls
  <1> QED
    BY <1>1, <1>2

\* What one section of a call may do: write the value of its item, the hub
\* rail on behalf of the USB route, or nothing; and move or return the call.
LEMMA SectionShape ==
  ASSUME ControlInv, NEW t \in Threads, Section(t)
  PROVE  /\ \/ live' = live
            \/ live' = [live EXCEPT ![call[t].item] = call[t].val]
            \/ \E v \in {"off", "on"} : live' = [live EXCEPT !["vdd_5v"] = v]
         /\ vio' = vio \/ (call[t].item = "vin" /\ vio' = call[t].val)
         /\ \/ call[t].pc = "vdd_on" /\ Goto(t, "mux")
            \/ call[t].pc = "mux" /\ call[t].val = "target"
                 /\ Goto(t, "vdd_off")
            \/ \E good \in BOOLEAN : Return(t, good)
  <1> USE DEF ControlInv
  <1>1. CASE SetSection(t)
    <2>1. CASE call[t].item \in Power
      BY <1>1, <2>1 DEF SetSection, power_output_set, Power
    <2>2. CASE call[t].item = "vin"
      BY <1>1, <2>2 DEF SetSection, vin_route_set, Power
    <2>3. CASE call[t].item \notin Power /\ call[t].item # "vin"
      BY <1>1, <2>3 DEF SetSection, pin_set
    <2> QED
      BY <2>1, <2>2, <2>3
  <1>2. CASE usb_vdd_on(t)
    BY <1>2 DEF usb_vdd_on, power_output_set
  <1>3. CASE usb_mux(t)
    <2>1. call[t].item = "usb" /\ call[t].val \in {"target", "pc"}
      BY <1>3, RouteValues DEF usb_mux, CallShape, ControlTypeOK
    <2> QED
      BY <1>3, <2>1 DEF usb_mux
  <1>4. CASE usb_vdd_off(t)
    BY <1>4 DEF usb_vdd_off, power_output_set
  <1>5. CASE vin_route_store(t)
    <2>1. call[t].item = "vin"
      BY <1>5 DEF vin_route_store, CallShape
    <2> QED
      BY <1>5, <2>1 DEF vin_route_store
  <1> QED
    BY <1>1, <1>2, <1>3, <1>4, <1>5 DEF Section

LEMMA SectionInv ==
  ASSUME ControlInv, NEW t \in Threads, Section(t)
  PROVE  ControlInv'
  <1>1. call[t].item \in Items /\ call[t].val \in ValuesOf(call[t].item)
    BY DEF ControlInv, ControlTypeOK, Calls
  <1>2. /\ call' \in [Threads -> Calls]
        /\ \A u \in Threads : call'[u].val \in ValuesOf(call'[u].item)
        /\ CallShape'
    BY SectionShape, CallUpdate
  <1>3. /\ live' \in [Items -> Values]
        /\ \A j \in Items : live'[j] \in ValuesOf(j)
    BY <1>1, SectionShape, LiveUpdate, RouteValues DEF ControlInv, ControlTypeOK
  <1>4. vio' \in ValuesOf("vin")
    BY <1>1, SectionShape DEF ControlInv, ControlTypeOK
  <1> QED
    BY <1>2, <1>3, <1>4 DEF ControlInv, ControlTypeOK

\* The inductive step.
LEMMA ControlNextInv == ControlInv /\ [ControlNext]_ctlVars => ControlInv'
  <1> SUFFICES ASSUME ControlInv, [ControlNext]_ctlVars PROVE ControlInv'
    OBVIOUS
  <1>1. CASE UNCHANGED ctlVars
    BY <1>1 DEF ControlInv, ControlTypeOK, CallShape, ctlVars
  <1>2. CASE ControlNext
    <2> PICK t \in Threads :
          \/ \E i \in Items : \E v \in ValuesOf(i) : BeginSet(t, i, v)
          \/ vin_route_read(t)
          \/ Section(t)
          \/ EndSet(t)
      BY <1>2 DEF ControlNext
    <2> QED
      BY BeginSetInv, VinReadInv, SectionInv, EndSetInv
  <1> QED
    BY <1>1, <1>2

\* Every record of the hardware and every call in progress is of its item's
\* own type, whatever the threads and the failing devices are.
THEOREM ControlTyped == ControlSpec => []ControlTypeOK
  <1>1. ControlInv => ControlTypeOK
    BY DEF ControlInv
  <1> QED
    BY <1>1, ControlInitInv, ControlNextInv, PTL DEF ControlSpec

-----------------------------------------------------------------------------
(* Setters that do not overlap: with a single thread, what usb_route_set   *)
(* and vin_route_get establish in one section still holds in the next.     *)

\* One section of the only thread.
LEMMA AloneSection ==
  ASSUME NEW t, Threads = {t}, ControlInv, AloneInv, Section(t)
  PROVE  /\ AloneInv'
         /\ live["usb"] = "target" /\ live'["usb"] = "pc"
              => live["vdd_5v"] = "on"
  <1> USE RouteValues
  <1>1. /\ t \in Threads
        /\ live \in [Items -> Values]
        /\ call \in [Threads -> Calls]
        /\ call[t].item \in Items
        /\ call[t].val \in ValuesOf(call[t].item)
    BY DEF ControlInv, ControlTypeOK, Calls
  <1>2. CASE SetSection(t)
    <2>1. call[t].item # "usb" /\ call[t].pc = "set"
      BY <1>1, <1>2 DEF ControlInv, CallShape, SetSection
    <2>2. CASE call[t].item = "vin"
      <3>1. vin_route_set(t)
        BY <1>2, <2>2 DEF SetSection, Power
      <3> QED
        BY <1>1, <2>1, <2>2, <3>1 DEF vin_route_set, AloneInv, Return, Calls
    <2>3. CASE call[t].item # "vin"
      <3>1. /\ \/ live' = live
               \/ live' = [live EXCEPT ![call[t].item] = call[t].val]
            /\ vio' = vio
            /\ \E good \in BOOLEAN : Return(t, good)
        BY <1>2, <2>3 DEF SetSection, power_output_set, pin_set, Power
      <3> QED
        BY <1>1, <2>1, <2>3, <3>1 DEF AloneInv, Return, Calls
    <2> QED
      BY <2>2, <2>3
  <1>3. CASE usb_vdd_on(t)
    BY <1>1, <1>3 DEF usb_vdd_on, power_output_set, AloneInv, Goto, Return,
       Calls, ControlInv, CallShape
  <1>4. CASE usb_mux(t)
    BY <1>1, <1>4 DEF usb_mux, AloneInv, Goto, Return, Calls, ControlInv,
       CallShape
  <1>5. CASE usb_vdd_off(t)
    BY <1>1, <1>5 DEF usb_vdd_off, power_output_set, AloneInv, Return, Calls,
       ControlInv, CallShape
  <1>6. CASE vin_route_store(t)
    BY <1>1, <1>6 DEF vin_route_store, AloneInv, Return, Calls, ControlInv,
       CallShape
  <1> QED
    BY <1>2, <1>3, <1>4, <1>5, <1>6 DEF Section

LEMMA AloneNext ==
  ASSUME NEW t, Threads = {t}, ControlInv, AloneInv, [ControlNext]_ctlVars
  PROVE  /\ AloneInv'
         /\ live["usb"] = "target" /\ live'["usb"] = "pc"
              => live["vdd_5v"] = "on"
  <1> USE RouteValues
  <1>1. CASE UNCHANGED ctlVars
    BY <1>1 DEF AloneInv, ctlVars
  <1>2. ASSUME NEW i \in Items, NEW v \in ValuesOf(i), BeginSet(t, i, v)
        PROVE  AloneInv' /\ live' = live
    <2>1. /\ Entry(i, v) \in {"vdd_on", "mux", "set"}
          /\ Entry(i, v) = "mux" => v # "pc"
      BY <1>2 DEF Entry
    <2> QED
      BY <1>2, <2>1 DEF BeginSet, AloneInv, ControlInv, ControlTypeOK
  <1>3. CASE vin_route_read(t)
    BY <1>3 DEF vin_route_read, AloneInv, ControlInv, ControlTypeOK
  <1>4. CASE Section(t)
    BY <1>4, AloneSection
  <1>5. CASE EndSet(t)
    BY <1>5 DEF EndSet, AloneInv, ControlInv, ControlTypeOK, NoCall
  <1>6. CASE \E i \in Items : \E v \in ValuesOf(i) : BeginSet(t, i, v)
    BY <1>2, <1>6
  <1> QED
    BY <1>1, <1>3, <1>4, <1>5, <1>6 DEF ControlNext, vin_route_read, EndSet

LEMMA AloneInit == ControlInit => AloneInv
  BY RouteValues, ItemsAssumption
     DEF ControlInit, AloneInv, NoCall, Default, Power, Gpio, GpioOrder

\* When one thread at a time calls setters, a successful usb_route_set leaves
\* the hub rail as its route asks, whatever was set by hand before.
THEOREM HubFollowsRouteAlone ==
  ASSUME NEW t, Threads = {t}
  PROVE  ControlSpec => []HubFollowsRoute
  <1>1. ControlInv /\ AloneInv /\ [ControlNext]_ctlVars
          => ControlInv' /\ AloneInv'
    BY AloneNext, ControlNextInv
  <1>2. AloneInv => HubFollowsRoute
    BY DEF AloneInv, HubFollowsRoute
  <1> QED
    BY <1>1, <1>2, ControlInitInv, AloneInit, PTL DEF ControlSpec

\* Under the same condition the mux never attaches a hub whose rail is off:
\* the order usb_route_set is written for is enough without concurrency.
THEOREM MuxAttachesLiveHubAlone ==
  ASSUME NEW t, Threads = {t}
  PROVE  ControlSpec => MuxAttachesLiveHub
  <1>1. ControlInv /\ AloneInv /\ [ControlNext]_ctlVars
          => ControlInv' /\ AloneInv'
    BY AloneNext, ControlNextInv
  <1>2. ControlInv /\ AloneInv /\ [ControlNext]_ctlVars =>
          [live["usb"] = "target" /\ live'["usb"] = "pc"
             => live["vdd_5v"] = "on"]_ctlVars
    BY AloneNext
  <1> QED
    BY <1>1, <1>2, ControlInitInv, AloneInit, PTL
       DEF ControlSpec, MuxAttachesLiveHub

\* Under the same condition the record of VIN is never stale.
THEOREM VinRecordCoherentAlone ==
  ASSUME NEW t, Threads = {t}
  PROVE  ControlSpec => []VinRecordCoherent
  <1>1. ControlInv /\ AloneInv /\ [ControlNext]_ctlVars
          => ControlInv' /\ AloneInv'
    BY AloneNext, ControlNextInv
  <1>2. AloneInv => VinRecordCoherent
    BY DEF AloneInv, VinRecordCoherent
  <1> QED
    BY <1>1, <1>2, ControlInitInv, AloneInit, PTL DEF ControlSpec

-----------------------------------------------------------------------------
(* The service.                                                             *)

IInv == /\ TypeOK
        /\ CallShape
        /\ SnapsTyped
        /\ MutexInv
        /\ RecordInv
        /\ GateInv
        /\ ReplayInv
        /\ OkMeansApplied

-----------------------------------------------------------------------------
(* Facts about snapshots.                                                  *)

\* The catalog is finite, so the counters are numbers.
LEMMA ItemsFinite == IsFiniteSet(Items)
  <1>1. IsFiniteSet(Power)
    <2>1. Power = {"12v_out"} \cup {"5v_out"} \cup {"vdd_5v"} \cup {"20v_out"}
      BY DEF Power
    <2> QED
      BY <2>1, FS_Singleton, FS_Union
  <1>2. IsFiniteSet(Switch)
    <2>1. Switch = {"sd"} \cup {"usb"} \cup {"tf_wp"} \cup {"vin"}
      BY DEF Switch
    <2> QED
      BY <2>1, FS_Singleton, FS_Union
  <1>3. IsFiniteSet(Gpio)
    <2>1. IsFiniteSet(1..15)
      <3>1. 1 \in Int /\ 15 \in Int
        OBVIOUS
      <3> QED
        BY <3>1, FS_Interval
    <2> DEFINE order == [n \in 1..15 |-> GpioOrder[n]]
    <2>2. order \in Surjection(1..15, Gpio)
      BY DEF Surjection, Gpio
    <2> HIDE DEF order
    <2> QED
      BY <2>1, <2>2, FS_Surjection
  <1>4. IsFiniteSet(Power \cup Switch \cup Gpio)
    BY <1>1, <1>2, <1>3, FS_Union
  <1> QED
    BY <1>4, FS_Subset, ItemsAssumption

LEMMA CountTyped == \A s : Cardinality(Listed(s)) \in Int
  <1> SUFFICES ASSUME NEW s PROVE Cardinality(Listed(s)) \in Int
    OBVIOUS
  <1>1. Listed(s) \subseteq Items
    BY DEF Listed
  <1>2. IsFiniteSet(Listed(s))
    BY <1>1, ItemsFinite, FS_Subset
  <1> QED
    BY <1>2, FS_CardinalityType

\* The service's record of a stored, loaded or removed snapshot is typed.
LEMMA SyncTyped ==
  ASSUME NEW s \in Snapshots, NEW r \in Reasons, NEW a \in ApplyStates
  PROVE  sync_saved(s, r, a) \in Services
  <1>1. [i \in Items |-> IF s[i] # "none" THEN a ELSE "not_saved"]
          \in [Items -> ApplyStates]
    BY DEF ApplyStates
  <1>2. (IF a = "pending" THEN Cardinality(Listed(s)) ELSE 0) \in Int
    BY CountTyped
  <1> QED
    BY <1>1, <1>2 DEF sync_saved, Services

\* The fields of that record.
LEMMA SyncFields ==
  ASSUME NEW s, NEW r, NEW a
  PROVE  /\ sync_saved(s, r, a).reason = r
         /\ sync_saved(s, r, a).saved = s
         /\ sync_saved(s, r, a).present <=> r = "ready"
  <1>1. sync_saved(s, r, a).present = (r = "ready")
    BY DEF sync_saved
  <1> QED
    BY <1>1 DEF sync_saved

\* The record of a store that has read, or failed to read, the blob.
LEMMA LoadFields ==
  ASSUME store_init
  PROVE  \/ /\ store'.reason \in {"backend_unavailable", "storage_error"}
            /\ store'.snap = EmptySnap
         \/ /\ store'.reason = load_reason(flash.kind)
            /\ store'.snap = flash.snap
  <1>1. CASE store' = StoreReset
    BY <1>1 DEF StoreReset
  <1>2. CASE store' = [StoreReset EXCEPT !.avail = TRUE,
                                         !.reason = "storage_error"]
    BY <1>2 DEF StoreReset
  <1>3. CASE \E v : store' = [avail |-> TRUE, valid |-> v,
                              snap |-> flash.snap,
                              reason |-> load_reason(flash.kind)]
    BY <1>3
  <1> QED
    BY <1>1, <1>2, <1>3 DEF store_init

LEMMA Initials ==
  /\ EmptySnap \in Snapshots
  /\ TypedSnap(EmptySnap)
  /\ StoreReset \in Stores
  /\ StatusReset \in Services
  /\ Idle \in Ops
  /\ Boot \in Ops
  <1>1. EmptySnap \in Snapshots /\ TypedSnap(EmptySnap)
    BY DEF EmptySnap, Snapshots, TypedSnap
  <1>2. StoreReset \in Stores
    BY <1>1 DEF StoreReset, Stores, Reasons
  <1>3. StatusReset \in Services
    <2>1. [i \in Items |-> "not_saved"] \in [Items -> ApplyStates]
      BY DEF ApplyStates
    <2> QED
      BY <1>1, <2>1 DEF StatusReset, Services, Reasons
  <1>4. Idle \in Ops /\ Boot \in Ops
    BY DEF Idle, Boot, Ops, OpPcs, Results
  <1> QED
    BY <1>1, <1>2, <1>3, <1>4

\* The values a save captures are values of their items.
LEMMA CaptureTyped ==
  ASSUME ControlTypeOK, NEW sel \in SUBSET Items
  PROVE  LET s == [i \in Items |-> IF i \in sel THEN live[i] ELSE "none"]
         IN s \in Snapshots /\ TypedSnap(s)
  BY DEF ControlTypeOK, Snapshots, TypedSnap

-----------------------------------------------------------------------------
(* Types.                                                                  *)

\* The hardware part of every step is a step of Control.
LEMMA ControlPart ==
  ASSUME TypeOK, CallShape, SnapsTyped, ReplayInv, [Next]_vars
  PROVE  ControlInv'
  <1> USE DEF ControlInv
  <1>1. CASE UNCHANGED ctlVars
    BY <1>1 DEF TypeOK, ControlTypeOK, CallShape, ctlVars
  <1>2. ASSUME NEW t \in Threads, replay_entry(t) PROVE ControlInv'
    <2>1. PICK i \in todo : BeginSet(t, i, snap[i])
      BY <1>2 DEF replay_entry
    <2>2. i \in Items /\ snap[i] # "none"
      BY <1>2 DEF replay_entry, ReplayInv, Listed
    <2>3. snap[i] \in ValuesOf(i)
      BY <2>2 DEF SnapsTyped, TypedSnap
    <2> QED
      BY <2>1, <2>2, <2>3, BeginSetInv DEF TypeOK
  <1>3. ASSUME NEW t \in Threads, replay_result(t) PROVE ControlInv'
    BY <1>3, EndSetInv DEF replay_result, TypeOK
  <1>4. ASSUME NEW t \in Threads, control_section(t) PROVE ControlInv'
    BY <1>4, SectionInv DEF control_section, TypeOK
  <1>5. ASSUME NEW t \in Threads, client_call(t) PROVE ControlInv'
    BY <1>5, BeginSetInv, VinReadInv DEF client_call, TypeOK
  <1>6. ASSUME NEW t \in Threads, client_return(t) PROVE ControlInv'
    BY <1>6, EndSetInv DEF client_return, TypeOK
  <1>7. CASE crash
    <2>1. ControlInit'
      BY <1>7 DEF crash, ControlInit
    <2>2. ControlInit' => ControlInv'
      BY ControlInitInv, PTL
    <2> QED
      BY <2>1, <2>2
  <1> QED
    BY <1>1, <1>2, <1>3, <1>4, <1>5, <1>6, <1>7 DEF Next, ServiceStep,
       Clients, vars, ctlVars, capture_taken, capture_returned, flash_taken,
       flash_returned, store_init, service_init, capture_try_acquire,
       flash_try_acquire, capture, store_save, store_clear, replay_end,
       flash_release, capture_release, save_request, clear_request,
       service_lock

\* Every step keeps the types.
LEMMA TypeNext ==
  ASSUME TypeOK, CallShape, SnapsTyped, ReplayInv, [Next]_vars
  PROVE  TypeOK'
  <1>1. CASE UNCHANGED vars
    BY <1>1, ControlPart DEF ControlInv, TypeOK, vars, svcVars
  <1>2. CASE store_init
    <2>1. store' \in Stores
      <3>1. CASE store' = StoreReset
        BY <3>1, Initials
      <3>2. CASE store' = [StoreReset EXCEPT !.avail = TRUE,
                                             !.reason = "storage_error"]
        BY <3>2, Initials DEF Stores, Reasons
      <3>3. CASE \E v \in BOOLEAN, r \in Reasons :
                   store' = [avail |-> TRUE, valid |-> v, snap |-> flash.snap,
                             reason |-> r]
        BY <3>3 DEF TypeOK, Stores
      <3>4. (flash.kind = "valid") \in BOOLEAN
        OBVIOUS
      <3>5. load_reason(flash.kind) \in Reasons
        BY DEF load_reason, Reasons
      <3> QED
        BY <1>2, <3>1, <3>2, <3>3, <3>4, <3>5 DEF store_init
    <2>2. op' \in [Threads -> Ops]
      BY <1>2, ZenonT(30) DEF store_init, TypeOK, Goes, Ops, OpPcs
    <2> QED
      BY <1>2, <2>1, <2>2, ControlPart DEF ControlInv, TypeOK, store_init
  <1>3. CASE service_init
    <2>1. store.snap \in Snapshots /\ store.reason \in Reasons
      BY DEF TypeOK, Stores
    <2>2. svc' \in Services
      BY <1>3, <2>1, SyncTyped, Initials DEF service_init, Reasons,
         ApplyStates
    <2>3. op' \in [Threads -> Ops]
      BY <1>3, Initials DEF service_init, TypeOK, Goes, Ops, OpPcs
    <2> QED
      BY <1>3, <2>1, <2>2, <2>3, ControlPart, ServiceAssumption DEF
         ControlInv, TypeOK, service_init
  <1>4. ASSUME NEW t \in Threads, capture_try_acquire(t) PROVE TypeOK'
    BY <1>4, ControlPart, Initials DEF ControlInv, TypeOK,
       capture_try_acquire, Goes, Ops, OpPcs
  <1>5. ASSUME NEW t \in Threads, flash_try_acquire(t) PROVE TypeOK'
    BY <1>5, ControlPart, Initials DEF ControlInv, TypeOK, flash_try_acquire,
       Goes, Ops, OpPcs, Listed
  <1>6. ASSUME NEW t \in Threads, capture(t) PROVE TypeOK'
    <2> DEFINE s == [i \in Items |-> IF i \in op[t].sel THEN live[i] ELSE "none"]
    <2>1. s \in Snapshots
      BY CaptureTyped DEF TypeOK, Ops
    <2>2. snap' \in Snapshots
      BY <1>6, <2>1 DEF capture, TypeOK
    <2>3. op' \in [Threads -> Ops]
      <3>1. \/ Fails(t, "item_unavailable")
            \/ Fails(t, "confirmation_required")
            \/ Goes(t, "store")
        BY <1>6 DEF capture
      <3> QED
        BY <3>1 DEF TypeOK, Goes, Fails, Ops, OpPcs, Results
    <2> QED
      BY <1>6, <2>2, <2>3, ControlPart DEF ControlInv, TypeOK, capture
  <1>7. ASSUME NEW t \in Threads, store_save(t) PROVE TypeOK'
    <2>1. svc' \in Services
      BY <1>7, SyncTyped DEF store_save, TypeOK, Reasons, ApplyStates
    <2>2. op' \in [Threads -> Ops] /\ authorized' \in BOOLEAN
      BY <1>7 DEF store_save, TypeOK, Goes, Fails, Ops, OpPcs, Results
    <2>3. store' \in Stores
      BY <1>7 DEF store_save, TypeOK, Stores, Reasons
    <2>4. flash' \in [kind : BlobKinds, snap : Snapshots]
      BY <1>7 DEF store_save, TypeOK, BlobKinds
    <2>5. todo' \in SUBSET Items
      BY <1>7 DEF store_save, TypeOK, Listed
    <2> QED
      BY <1>7, <2>1, <2>2, <2>3, <2>4, <2>5, ControlPart DEF ControlInv,
         TypeOK, store_save
  <1>8. ASSUME NEW t \in Threads, store_clear(t) PROVE TypeOK'
    <2>1. svc' \in Services
      BY <1>8, SyncTyped, Initials DEF store_clear, TypeOK, Reasons,
         ApplyStates
    <2>2. op' \in [Threads -> Ops]
      BY <1>8 DEF store_clear, TypeOK, Goes, Fails, Ops, OpPcs, Results
    <2>5. authorized' \in BOOLEAN
      BY <1>8 DEF store_clear, TypeOK
    <2>3. store' \in Stores
      BY <1>8, Initials DEF store_clear, TypeOK, Stores, Reasons
    <2>4. flash' \in [kind : BlobKinds, snap : Snapshots]
      BY <1>8, Initials DEF store_clear, TypeOK, BlobKinds
    <2> QED
      BY <1>8, <2>1, <2>2, <2>3, <2>4, <2>5, ControlPart DEF ControlInv,
         TypeOK, store_clear
  <1>9. ASSUME NEW t \in Threads, replay_entry(t) PROVE TypeOK'
    <2>1. op' \in [Threads -> Ops]
      BY <1>9 DEF replay_entry, TypeOK, Goes, Ops, OpPcs
    <2>2. touched' \in SUBSET Items
      BY <1>9 DEF replay_entry, TypeOK
    <2> QED
      BY <1>9, <2>1, <2>2, ControlPart DEF ControlInv, TypeOK, replay_entry
  <1>10. ASSUME NEW t \in Threads, replay_result(t) PROVE TypeOK'
    <2>1. call[t].item \in Items
      BY DEF TypeOK, ControlTypeOK, Calls
    <2>2. svc' \in Services
      <3> DEFINE st(a) == [svc.state EXCEPT ![call[t].item] = a]
      <3>1. \/ svc' = [svc EXCEPT !.state = st("applied"),
                                  !.pending = svc.pending - 1,
                                  !.applied = svc.applied + 1]
            \/ svc' = [svc EXCEPT !.state = st("failed"),
                                  !.pending = svc.pending - 1, !.failed = 1]
        BY <1>10 DEF replay_result
      <3>2. svc \in Services
        BY DEF TypeOK
      <3>3. /\ svc.pending - 1 \in Int /\ svc.applied + 1 \in Int
            /\ 1 \in 0..1
        BY <3>2 DEF Services
      <3>4. \A a \in ApplyStates : st(a) \in [Items -> ApplyStates]
        BY <2>1, <3>2 DEF Services
      <3>5. {"applied", "failed"} \subseteq ApplyStates
        BY DEF ApplyStates
      <3> QED
        <4> HIDE DEF st
        <4> QED
          BY <3>1, <3>2, <3>3, <3>4, <3>5, ZenonT(30) DEF Services
    <2>3. op' \in [Threads -> Ops]
      BY <1>10 DEF replay_result, TypeOK, Goes, Fails, Ops, OpPcs, Results
    <2> QED
      BY <1>10, <2>2, <2>3, ControlPart DEF ControlInv, TypeOK, replay_result
  <1>11. ASSUME NEW t \in Threads, replay_end(t) PROVE TypeOK'
    BY <1>11, ControlPart DEF ControlInv, TypeOK, replay_end, Goes, Ops,
       OpPcs, Results
  <1>12. ASSUME NEW t \in Threads, flash_release(t) PROVE TypeOK'
    BY <1>12, ControlPart DEF ControlInv, TypeOK, flash_release, Goes, Ops,
       OpPcs, Results
  <1>13. ASSUME NEW t \in Threads, capture_release(t) PROVE TypeOK'
    BY <1>13, ControlPart, Initials DEF ControlInv, TypeOK, capture_release
  <1>14. ASSUME NEW t \in Threads, control_section(t) PROVE TypeOK'
    BY <1>14, ControlPart DEF ControlInv, TypeOK, control_section, Ops,
       OpPcs, Results
  <1>15. ASSUME NEW t \in Threads, save_request(t) PROVE TypeOK'
    BY <1>15, ControlPart, ServiceAssumption DEF ControlInv, TypeOK,
       save_request, Ops, OpPcs, Results
  <1>16. ASSUME NEW t \in Threads, clear_request(t) PROVE TypeOK'
    <2>1. [Idle EXCEPT !.pc = "wait", !.kind = "clear"] \in Ops
      BY DEF Idle, Ops, OpPcs, Results
    <2> QED
      BY <1>16, <2>1, ControlPart DEF ControlInv, TypeOK, clear_request
  <1>17. ASSUME NEW t \in Threads, service_lock(t) PROVE TypeOK'
    BY <1>17, ControlPart DEF ControlInv, TypeOK, service_lock, Goes, Ops,
       OpPcs, Results
  <1>18. ASSUME NEW t \in Threads, client_call(t) PROVE TypeOK'
    BY <1>18, ControlPart DEF ControlInv, TypeOK, client_call, svcVars
  <1>19. ASSUME NEW t \in Threads, client_return(t) PROVE TypeOK'
    BY <1>19, ControlPart DEF ControlInv, TypeOK, client_return, svcVars
  <1>20. ASSUME NEW k \in CaptureKinds, capture_taken(k) \/ capture_returned(k)
        PROVE  TypeOK'
    BY <1>20, ControlPart DEF ControlInv, TypeOK, capture_taken,
       capture_returned
  <1>21. ASSUME NEW k \in FlashKinds, flash_taken(k) \/ flash_returned(k)
        PROVE  TypeOK'
    BY <1>21, ControlPart DEF ControlInv, TypeOK, flash_taken, flash_returned
  <1>22. CASE crash
    <2>1. op' \in [Threads -> Ops]
      BY <1>22, Initials DEF crash
    <2> QED
      BY <1>22, <2>1, ControlPart, Initials DEF ControlInv, TypeOK, crash
  <1> QED
    BY <1>1, <1>2, <1>3, <1>4, <1>5, <1>6, <1>7, <1>8, <1>9, <1>10, <1>11,
       <1>12, <1>13, <1>14, <1>15, <1>16, <1>17, <1>18, <1>19, <1>20, <1>21,
       <1>22 DEF Next, ServiceStep, Clients

-----------------------------------------------------------------------------
(* The snapshots in flash, in the store's record and in the operation that *)
(* runs hold values of their items only.                                   *)

\* Captures read such values; boot and saves copy them.
LEMMA SnapsNext ==
  ASSUME TypeOK, SnapsTyped, [Next]_vars
  PROVE  SnapsTyped'
  <1>1. CASE UNCHANGED vars
    BY <1>1 DEF SnapsTyped, vars, svcVars
  <1>2. CASE store_init
    <2>1. store'.snap \in {EmptySnap, flash.snap}
      BY <1>2, LoadFields
    <2> QED
      BY <1>2, <2>1, Initials DEF SnapsTyped, store_init
  <1>3. CASE service_init
    BY <1>3 DEF SnapsTyped, service_init
  <1>4. ASSUME NEW t \in Threads, capture_try_acquire(t) PROVE SnapsTyped'
    BY <1>4, Initials DEF SnapsTyped, capture_try_acquire
  <1>5. ASSUME NEW t \in Threads, flash_try_acquire(t) PROVE SnapsTyped'
    BY <1>5, Initials DEF SnapsTyped, flash_try_acquire
  <1>6. ASSUME NEW t \in Threads, capture(t) PROVE SnapsTyped'
    <2>1. TypedSnap([i \in Items |-> IF i \in op[t].sel THEN live[i] ELSE "none"])
      BY CaptureTyped DEF TypeOK, Ops
    <2> QED
      BY <1>6, <2>1 DEF SnapsTyped, capture
  <1>7. ASSUME NEW t \in Threads, store_save(t) PROVE SnapsTyped'
    <2>1. store'.snap \in {store.snap, snap}
      BY <1>7 DEF store_save, TypeOK, Stores
    <2>2. flash'.snap \in {flash.snap, snap} /\ snap' = snap
      BY <1>7 DEF store_save
    <2> QED
      BY <2>1, <2>2 DEF SnapsTyped
  <1>8. ASSUME NEW t \in Threads, store_clear(t) PROVE SnapsTyped'
    <2>1. store'.snap \in {store.snap, EmptySnap}
      BY <1>8 DEF store_clear, TypeOK, Stores
    <2>2. flash'.snap \in {flash.snap, EmptySnap} /\ snap' = snap
      BY <1>8 DEF store_clear
    <2> QED
      BY <2>1, <2>2, Initials DEF SnapsTyped
  <1>9. ASSUME NEW t \in Threads, replay_entry(t) PROVE SnapsTyped'
    BY <1>9 DEF SnapsTyped, replay_entry
  <1>10. ASSUME NEW t \in Threads, replay_result(t) PROVE SnapsTyped'
    BY <1>10 DEF SnapsTyped, replay_result
  <1>11. ASSUME NEW t \in Threads, replay_end(t) PROVE SnapsTyped'
    BY <1>11 DEF SnapsTyped, replay_end
  <1>12. ASSUME NEW t \in Threads, flash_release(t) PROVE SnapsTyped'
    BY <1>12 DEF SnapsTyped, flash_release
  <1>13. ASSUME NEW t \in Threads, capture_release(t) PROVE SnapsTyped'
    BY <1>13, Initials DEF SnapsTyped, capture_release
  <1>14. ASSUME NEW t \in Threads, control_section(t) PROVE SnapsTyped'
    BY <1>14 DEF SnapsTyped, control_section
  <1>15. ASSUME NEW t \in Threads, save_request(t) PROVE SnapsTyped'
    BY <1>15 DEF SnapsTyped, save_request
  <1>16. ASSUME NEW t \in Threads, clear_request(t) PROVE SnapsTyped'
    BY <1>16 DEF SnapsTyped, clear_request
  <1>17. ASSUME NEW t \in Threads, service_lock(t) PROVE SnapsTyped'
    BY <1>17 DEF SnapsTyped, service_lock
  <1>18. ASSUME NEW t \in Threads, client_call(t) PROVE SnapsTyped'
    BY <1>18 DEF SnapsTyped, client_call, svcVars
  <1>19. ASSUME NEW t \in Threads, client_return(t) PROVE SnapsTyped'
    BY <1>19 DEF SnapsTyped, client_return, svcVars
  <1>20. ASSUME NEW k \in CaptureKinds, capture_taken(k) \/ capture_returned(k)
        PROVE  SnapsTyped'
    BY <1>20 DEF SnapsTyped, capture_taken, capture_returned
  <1>21. ASSUME NEW k \in FlashKinds, flash_taken(k) \/ flash_returned(k)
        PROVE  SnapsTyped'
    BY <1>21 DEF SnapsTyped, flash_taken, flash_returned
  <1>22. CASE crash
    BY <1>22, Initials DEF SnapsTyped, crash, StoreReset
  <1> QED
    BY <1>1, <1>2, <1>3, <1>4, <1>5, <1>6, <1>7, <1>8, <1>9, <1>10, <1>11,
       <1>12, <1>13, <1>14, <1>15, <1>16, <1>17, <1>18, <1>19, <1>20, <1>21,
       <1>22 DEF Next, ServiceStep, Clients

-----------------------------------------------------------------------------
(* Mutual exclusion: who holds the mutex and the owners.                   *)

\* No step takes or leaves an owner but on behalf of the mutex holder.
LEMMA MutexNext ==
  ASSUME TypeOK, MutexInv, [Next]_vars
  PROVE  MutexInv'
  <1>1. CASE UNCHANGED vars
    BY <1>1 DEF MutexInv, vars, svcVars
  <1>2. CASE store_init
    BY <1>2, ServiceAssumption DEF MutexInv, TypeOK, Ops, store_init, Goes,
       LockedPcs, CapturePcs, FlashPcs
  <1>3. CASE service_init
    BY <1>3, ServiceAssumption DEF MutexInv, TypeOK, Ops, service_init, Goes,
       Idle, LockedPcs, CapturePcs, FlashPcs
  <1>4. ASSUME NEW t \in Threads, capture_try_acquire(t) PROVE MutexInv'
    BY <1>4, ServiceAssumption DEF MutexInv, TypeOK, Ops,
       capture_try_acquire, Goes, Idle, LockedPcs, CapturePcs, FlashPcs
  <1>5. ASSUME NEW t \in Threads, flash_try_acquire(t) PROVE MutexInv'
    BY <1>5, ServiceAssumption DEF MutexInv, TypeOK, Ops, flash_try_acquire,
       Goes, Idle, LockedPcs, CapturePcs, FlashPcs
  <1>6. ASSUME NEW t \in Threads, capture(t) PROVE MutexInv'
    BY <1>6 DEF MutexInv, TypeOK, Ops, capture, Goes, Fails, LockedPcs,
       CapturePcs, FlashPcs
  <1>7. ASSUME NEW t \in Threads, store_save(t) PROVE MutexInv'
    BY <1>7 DEF MutexInv, TypeOK, Ops, store_save, Goes, Fails, LockedPcs,
       CapturePcs, FlashPcs
  <1>8. ASSUME NEW t \in Threads, store_clear(t) PROVE MutexInv'
    BY <1>8 DEF MutexInv, TypeOK, Ops, store_clear, Goes, Fails, LockedPcs,
       CapturePcs, FlashPcs
  <1>9. ASSUME NEW t \in Threads, replay_entry(t) PROVE MutexInv'
    BY <1>9 DEF MutexInv, TypeOK, Ops, replay_entry, Goes, LockedPcs,
       CapturePcs, FlashPcs
  <1>10. ASSUME NEW t \in Threads, replay_result(t) PROVE MutexInv'
    BY <1>10 DEF MutexInv, TypeOK, Ops, replay_result, Goes, Fails,
       LockedPcs, CapturePcs, FlashPcs
  <1>11. ASSUME NEW t \in Threads, replay_end(t) PROVE MutexInv'
    BY <1>11 DEF MutexInv, TypeOK, Ops, replay_end, Goes, LockedPcs,
       CapturePcs, FlashPcs
  <1>12. ASSUME NEW t \in Threads, flash_release(t) PROVE MutexInv'
    BY <1>12 DEF MutexInv, TypeOK, Ops, flash_release, Goes, LockedPcs,
       CapturePcs, FlashPcs
  <1>13. ASSUME NEW t \in Threads, capture_release(t) PROVE MutexInv'
    BY <1>13, ServiceAssumption DEF MutexInv, TypeOK, Ops, capture_release,
       Idle, LockedPcs, CapturePcs, FlashPcs
  <1>14. ASSUME NEW t \in Threads, control_section(t) PROVE MutexInv'
    BY <1>14 DEF MutexInv, control_section
  <1>15. ASSUME NEW t \in Threads, save_request(t) PROVE MutexInv'
    BY <1>15 DEF MutexInv, TypeOK, Ops, save_request, LockedPcs, CapturePcs,
       FlashPcs
  <1>16. ASSUME NEW t \in Threads, clear_request(t) PROVE MutexInv'
    BY <1>16 DEF MutexInv, TypeOK, Ops, clear_request, Idle, LockedPcs,
       CapturePcs, FlashPcs
  <1>17. ASSUME NEW t \in Threads, service_lock(t) PROVE MutexInv'
    BY <1>17, ServiceAssumption DEF MutexInv, TypeOK, Ops, service_lock,
       Goes, LockedPcs, CapturePcs, FlashPcs
  <1>18. ASSUME NEW t \in Threads, client_call(t) PROVE MutexInv'
    BY <1>18 DEF MutexInv, client_call, svcVars
  <1>19. ASSUME NEW t \in Threads, client_return(t) PROVE MutexInv'
    BY <1>19 DEF MutexInv, client_return, svcVars
  <1>20. ASSUME NEW k \in CaptureKinds, capture_taken(k) \/ capture_returned(k)
        PROVE  MutexInv'
    BY <1>20, ServiceAssumption DEF MutexInv, capture_taken, capture_returned
  <1>21. ASSUME NEW k \in FlashKinds, flash_taken(k) \/ flash_returned(k)
        PROVE  MutexInv'
    BY <1>21, ServiceAssumption DEF MutexInv, flash_taken, flash_returned
  <1>22. CASE crash
    BY <1>22 DEF MutexInv, crash, Boot, Idle, LockedPcs, CapturePcs, FlashPcs
  <1> QED
    BY <1>1, <1>2, <1>3, <1>4, <1>5, <1>6, <1>7, <1>8, <1>9, <1>10, <1>11,
       <1>12, <1>13, <1>14, <1>15, <1>16, <1>17, <1>18, <1>19, <1>20, <1>21,
       <1>22 DEF Next, ServiceStep, Clients

-----------------------------------------------------------------------------
(* The records agree with flash.                                           *)

\* Flash, the store's record and the service's record change together or,
\* when a write fails, not at all.
LEMMA RecordNext ==
  ASSUME TypeOK, RecordInv, [Next]_vars
  PROVE  RecordInv'
  <1>1. CASE UNCHANGED vars
    BY <1>1 DEF RecordInv, vars, svcVars
  <1>2. CASE store_init
    <2>1. flash = [kind |-> flash.kind, snap |-> flash.snap]
      BY DEF TypeOK
    <2>2. /\ load_reason(flash.kind) = "ready" => flash.kind = "valid"
          /\ load_reason(flash.kind) = "absent" => flash.kind = "absent"
      BY DEF load_reason
    <2> QED
      BY <1>2, <2>1, <2>2, LoadFields DEF RecordInv, store_init
  <1>3. CASE service_init
    <2>1. /\ svc'.reason = store.reason
          /\ svc'.reason = "ready" => svc'.saved = store.snap
          /\ svc'.present <=> svc'.reason = "ready"
      BY <1>3, SyncFields DEF service_init
    <2> QED
      BY <1>3, <2>1 DEF RecordInv, service_init
  <1>4. ASSUME NEW t \in Threads, capture_try_acquire(t) PROVE RecordInv'
    BY <1>4 DEF RecordInv, capture_try_acquire
  <1>5. ASSUME NEW t \in Threads, flash_try_acquire(t) PROVE RecordInv'
    BY <1>5 DEF RecordInv, flash_try_acquire
  <1>6. ASSUME NEW t \in Threads, capture(t) PROVE RecordInv'
    BY <1>6 DEF RecordInv, capture
  <1>7. ASSUME NEW t \in Threads, store_save(t) PROVE RecordInv'
    <2>1. CASE /\ flash' = [kind |-> "valid", snap |-> snap]
               /\ svc' = sync_saved(snap, "ready", "pending")
               /\ store'.reason = "ready" /\ store'.snap = snap
      BY <2>1, SyncFields DEF RecordInv
    <2>2. CASE flash' = flash /\ svc' = svc
               /\ (store' = store \/ store'.reason = "storage_error")
      BY <2>2 DEF RecordInv
    <2> QED
      BY <1>7, <2>1, <2>2 DEF store_save, TypeOK, Stores
  <1>8. ASSUME NEW t \in Threads, store_clear(t) PROVE RecordInv'
    <2>1. CASE flash'.kind = "absent" /\ store'.reason = "absent"
               /\ svc' = sync_saved(EmptySnap, "absent", "not_saved")
      BY <2>1, SyncFields DEF RecordInv
    <2>2. CASE flash' = flash /\ svc' = svc
               /\ (store' = store \/ store'.reason = "storage_error")
      BY <2>2 DEF RecordInv
    <2> QED
      <3>1. store \in Stores
        BY DEF TypeOK
      <3>2. \/ /\ flash' = [kind |-> "absent", snap |-> EmptySnap]
               /\ store' = [store EXCEPT !.valid = FALSE, !.snap = EmptySnap,
                                         !.reason = "absent"]
               /\ svc' = sync_saved(EmptySnap, "absent", "not_saved")
            \/ /\ store' = [store EXCEPT !.reason = "storage_error"]
               /\ UNCHANGED <<flash, svc>>
            \/ UNCHANGED <<store, flash, svc>>
        BY <1>8 DEF store_clear
      <3> QED
        <4>1. CASE flash' = [kind |-> "absent", snap |-> EmptySnap]
                   /\ store' = [store EXCEPT !.valid = FALSE,
                                             !.snap = EmptySnap,
                                             !.reason = "absent"]
                   /\ svc' = sync_saved(EmptySnap, "absent", "not_saved")
          <5>1. store'.reason = "absent"
            BY <3>1, <4>1 DEF Stores
          <5>2. flash'.kind = "absent"
            BY <4>1
          <5> QED
            BY <4>1, <5>1, <5>2, <2>1
        <4>2. CASE store' = [store EXCEPT !.reason = "storage_error"]
                   /\ UNCHANGED <<flash, svc>>
          BY <3>1, <4>2, <2>2 DEF Stores
        <4> QED
          BY <3>2, <4>1, <4>2, <2>2
  <1>9. ASSUME NEW t \in Threads, replay_entry(t) PROVE RecordInv'
    BY <1>9 DEF RecordInv, replay_entry
  <1>10. ASSUME NEW t \in Threads, replay_result(t) PROVE RecordInv'
    BY <1>10 DEF RecordInv, replay_result, TypeOK, Services
  <1>11. ASSUME NEW t \in Threads, replay_end(t) PROVE RecordInv'
    BY <1>11 DEF RecordInv, replay_end
  <1>12. ASSUME NEW t \in Threads, flash_release(t) PROVE RecordInv'
    BY <1>12 DEF RecordInv, flash_release
  <1>13. ASSUME NEW t \in Threads, capture_release(t) PROVE RecordInv'
    BY <1>13 DEF RecordInv, capture_release
  <1>14. ASSUME NEW t \in Threads, control_section(t) PROVE RecordInv'
    BY <1>14 DEF RecordInv, control_section
  <1>15. ASSUME NEW t \in Threads, save_request(t) PROVE RecordInv'
    BY <1>15 DEF RecordInv, save_request
  <1>16. ASSUME NEW t \in Threads, clear_request(t) PROVE RecordInv'
    BY <1>16 DEF RecordInv, clear_request
  <1>17. ASSUME NEW t \in Threads, service_lock(t) PROVE RecordInv'
    BY <1>17 DEF RecordInv, service_lock
  <1>18. ASSUME NEW t \in Threads, client_call(t) PROVE RecordInv'
    BY <1>18 DEF RecordInv, client_call, svcVars
  <1>19. ASSUME NEW t \in Threads, client_return(t) PROVE RecordInv'
    BY <1>19 DEF RecordInv, client_return, svcVars
  <1>20. ASSUME NEW k \in CaptureKinds, capture_taken(k) \/ capture_returned(k)
        PROVE  RecordInv'
    BY <1>20 DEF RecordInv, capture_taken, capture_returned
  <1>21. ASSUME NEW k \in FlashKinds, flash_taken(k) \/ flash_returned(k)
        PROVE  RecordInv'
    BY <1>21 DEF RecordInv, flash_taken, flash_returned
  <1>22. CASE crash
    BY <1>22 DEF RecordInv, crash, StoreReset, StatusReset
  <1> QED
    BY <1>1, <1>2, <1>3, <1>4, <1>5, <1>6, <1>7, <1>8, <1>9, <1>10, <1>11,
       <1>12, <1>13, <1>14, <1>15, <1>16, <1>17, <1>18, <1>19, <1>20, <1>21,
       <1>22 DEF Next, ServiceStep, Clients

-----------------------------------------------------------------------------
(* The danger gate.                                                        *)

\* A snapshot reaches a save's write only past the gate, and no other save
\* can replace it there: the mutex is held.
LEMMA GateNext ==
  ASSUME TypeOK, MutexInv, GateInv, [Next]_vars
  PROVE  GateInv'
  <1>1. CASE UNCHANGED vars
    BY <1>1 DEF GateInv, DangerConfirmed, vars, svcVars
  <1>2. CASE store_init
    BY <1>2 DEF GateInv, DangerConfirmed, store_init, TypeOK, Ops, Goes
  <1>3. CASE service_init
    <2>1. \A t \in Threads : op[t].pc # "store"
      BY <1>3, ServiceAssumption DEF MutexInv, service_init, LockedPcs,
         CapturePcs, FlashPcs
    <2> QED
      BY <1>3, <2>1 DEF GateInv, DangerConfirmed, service_init, TypeOK, Ops,
         Goes, Idle
  <1>4. ASSUME NEW t \in Threads, capture_try_acquire(t) PROVE GateInv'
    <2>1. \A u \in Threads : op[u].pc # "store"
      BY <1>4 DEF MutexInv, capture_try_acquire, LockedPcs, CapturePcs,
         FlashPcs
    <2> QED
      BY <1>4, <2>1 DEF GateInv, DangerConfirmed, capture_try_acquire,
         TypeOK, Ops, Goes, Idle
  <1>5. ASSUME NEW t \in Threads, flash_try_acquire(t) PROVE GateInv'
    <2>1. \A u \in Threads : op[u].pc # "store"
      BY <1>5 DEF MutexInv, flash_try_acquire, LockedPcs, CapturePcs,
         FlashPcs
    <2>2. flash' = flash /\ authorized' = authorized
      BY <1>5 DEF flash_try_acquire
    <2>4. \A u \in Threads : op'[u].pc # "store"
      BY <1>5, <2>1 DEF flash_try_acquire, TypeOK, Ops, Goes, Idle
    <2> QED
      BY <2>2, <2>4 DEF GateInv, DangerConfirmed
  <1>6. ASSUME NEW t \in Threads, capture(t) PROVE GateInv'
    <2>1. \A u \in Threads : u # t => op[u].pc # "store"
      BY <1>6 DEF MutexInv, capture, LockedPcs, CapturePcs, FlashPcs
    <2>2. flash' = flash /\ authorized' = authorized
      BY <1>6 DEF capture
    <2>3. \A u \in Threads : u # t => op'[u] = op[u]
      BY <1>6 DEF capture, TypeOK, Ops, Goes, Fails
    <2>4. op'[t].pc = "store" /\ Dangerous(snap') # {} => op'[t].conf
      <3>1. op \in [Threads -> Ops]
        BY DEF TypeOK
      <3>2. CASE op[t].sel \cap Missing # {}
        BY <1>6, <3>1, <3>2 DEF capture, Fails, Ops
      <3>3. CASE op[t].sel \cap Missing = {}
        <4> DEFINE s == [i \in Items |->
                           IF i \in op[t].sel THEN live[i] ELSE "none"]
        <4>1. CASE Dangerous(s) # {} /\ ~op[t].conf
          BY <1>6, <3>1, <3>3, <4>1 DEF capture, Fails, Ops
        <4>2. CASE ~(Dangerous(s) # {} /\ ~op[t].conf)
          <5>1. snap' = s /\ Goes(t, "store")
            BY <1>6, <3>3, <4>2 DEF capture
          <5>2. op'[t].conf = op[t].conf
            BY <3>1, <5>1 DEF Goes, Ops
          <5> HIDE DEF s
          <5> QED
            BY <4>2, <5>1, <5>2
        <4> QED
          BY <4>1, <4>2
      <3> QED
        BY <3>2, <3>3
    <2>5. DangerConfirmed'
      BY <2>2 DEF GateInv, DangerConfirmed
    <2>6. \A u \in Threads :
            op'[u].pc = "store" /\ Dangerous(snap') # {} => op'[u].conf
      BY <2>1, <2>3, <2>4
    <2> QED
      BY <2>5, <2>6 DEF GateInv
  <1>7. ASSUME NEW t \in Threads, store_save(t) PROVE GateInv'
    <2>1. op[t].pc = "store" /\ (Dangerous(snap) # {} => op[t].conf)
      BY <1>7 DEF GateInv, store_save
    <2>2. DangerConfirmed'
      BY <1>7, <2>1 DEF GateInv, DangerConfirmed, store_save
    <2>3. \A u \in Threads : op'[u].pc = "store" => op[u] = op'[u]
      BY <1>7 DEF store_save, TypeOK, Ops, Goes, Fails
    <2> QED
      BY <1>7, <2>2, <2>3 DEF GateInv, store_save
  <1>8. ASSUME NEW t \in Threads, store_clear(t) PROVE GateInv'
    <2>2. DangerConfirmed'
      BY <1>8 DEF GateInv, DangerConfirmed, store_clear
    <2>3. \A u \in Threads : op'[u].pc = "store" => op[u] = op'[u]
      BY <1>8 DEF store_clear, TypeOK, Ops, Goes, Fails
    <2> QED
      BY <1>8, <2>2, <2>3 DEF GateInv, store_clear
  <1>9. ASSUME NEW t \in Threads, replay_entry(t) PROVE GateInv'
    BY <1>9 DEF GateInv, DangerConfirmed, replay_entry, TypeOK, Ops, Goes
  <1>10. ASSUME NEW t \in Threads, replay_result(t) PROVE GateInv'
    BY <1>10 DEF GateInv, DangerConfirmed, replay_result, TypeOK, Ops, Goes,
       Fails
  <1>11. ASSUME NEW t \in Threads, replay_end(t) PROVE GateInv'
    BY <1>11 DEF GateInv, DangerConfirmed, replay_end, TypeOK, Ops, Goes
  <1>12. ASSUME NEW t \in Threads, flash_release(t) PROVE GateInv'
    BY <1>12 DEF GateInv, DangerConfirmed, flash_release, TypeOK, Ops, Goes
  <1>13. ASSUME NEW t \in Threads, capture_release(t) PROVE GateInv'
    <2>1. \A u \in Threads : op[u].pc # "store"
      BY <1>13 DEF MutexInv, capture_release, LockedPcs, CapturePcs, FlashPcs
    <2> QED
      BY <1>13, <2>1 DEF GateInv, DangerConfirmed, capture_release, TypeOK,
         Idle
  <1>14. ASSUME NEW t \in Threads, control_section(t) PROVE GateInv'
    BY <1>14 DEF GateInv, DangerConfirmed, control_section, TypeOK, Ops
  <1>15. ASSUME NEW t \in Threads, save_request(t) PROVE GateInv'
    BY <1>15 DEF GateInv, DangerConfirmed, save_request, TypeOK, Ops
  <1>16. ASSUME NEW t \in Threads, clear_request(t) PROVE GateInv'
    BY <1>16 DEF GateInv, DangerConfirmed, clear_request, TypeOK, Idle
  <1>17. ASSUME NEW t \in Threads, service_lock(t) PROVE GateInv'
    BY <1>17 DEF GateInv, DangerConfirmed, service_lock, TypeOK, Ops, Goes
  <1>18. ASSUME NEW t \in Threads, client_call(t) PROVE GateInv'
    BY <1>18 DEF GateInv, DangerConfirmed, client_call, svcVars
  <1>19. ASSUME NEW t \in Threads, client_return(t) PROVE GateInv'
    BY <1>19 DEF GateInv, DangerConfirmed, client_return, svcVars
  <1>20. ASSUME NEW k \in CaptureKinds, capture_taken(k) \/ capture_returned(k)
        PROVE  GateInv'
    BY <1>20 DEF GateInv, DangerConfirmed, capture_taken, capture_returned
  <1>21. ASSUME NEW k \in FlashKinds, flash_taken(k) \/ flash_returned(k)
        PROVE  GateInv'
    BY <1>21 DEF GateInv, DangerConfirmed, flash_taken, flash_returned
  <1>22. CASE crash
    BY <1>22 DEF GateInv, DangerConfirmed, crash, Boot, Idle
  <1> QED
    BY <1>1, <1>2, <1>3, <1>4, <1>5, <1>6, <1>7, <1>8, <1>9, <1>10, <1>11,
       <1>12, <1>13, <1>14, <1>15, <1>16, <1>17, <1>18, <1>19, <1>20, <1>21,
       <1>22 DEF Next, ServiceStep, Clients

-----------------------------------------------------------------------------
(* Replay.                                                                 *)

\* Two threads are never both between taking and releasing the mutex.
LEMMA Alone ==
  ASSUME MutexInv, NEW t \in Threads, NEW u \in Threads,
         op[t].pc \in LockedPcs, op[u].pc \in LockedPcs
  PROVE  t = u
  BY DEF MutexInv

\* A replay leaves only applied entries behind, of the snapshot in flash,
\* and no step of another thread changes either under it.
LEMMA ReplayNext ==
  ASSUME TypeOK, MutexInv, RecordInv, ReplayInv, OkMeansApplied,
         [Next]_vars
  PROVE  (ReplayInv /\ OkMeansApplied)'
  <1>1. CASE UNCHANGED vars
    BY <1>1 DEF ReplayInv, OkMeansApplied, vars, svcVars
  <1>2. CASE store_init
    BY <1>2, Alone DEF ReplayInv, OkMeansApplied, store_init, TypeOK, Ops,
       Goes, LockedPcs, CapturePcs, FlashPcs
  <1>3. CASE service_init
    <2>1. \A t \in Threads : op[t].pc \notin LockedPcs
      BY <1>3, ServiceAssumption DEF service_init, MutexInv
    <2>2. store.reason = "ready" => flash = [kind |-> "valid", snap |-> store.snap]
      BY DEF RecordInv
    <2>3. \A t \in Threads : t # Main => op'[t] = op[t]
      BY <1>3 DEF service_init, Goes, TypeOK, Ops
    <2>4. /\ op'[Main].pc = "acquire" => store.reason = "ready" /\ snap' = store.snap
          /\ op'[Main].pc \in {"acquire", "idle"}
      BY <1>3, ServiceAssumption DEF service_init, Goes, TypeOK, Ops, Idle
    <2>5. flash' = flash
      BY <1>3 DEF service_init
    <2> QED
      BY <2>1, <2>2, <2>3, <2>4, <2>5 DEF ReplayInv, OkMeansApplied,
         LockedPcs, CapturePcs, FlashPcs
  <1>4. ASSUME NEW t \in Threads, capture_try_acquire(t)
        PROVE  (ReplayInv /\ OkMeansApplied)'
    BY <1>4, Alone DEF ReplayInv, OkMeansApplied, capture_try_acquire,
       TypeOK, Ops, Goes, Idle, LockedPcs, CapturePcs, FlashPcs
  <1>5. ASSUME NEW t \in Threads, flash_try_acquire(t)
        PROVE  (ReplayInv /\ OkMeansApplied)'
    <2>1. \A u \in Threads : u # t => op'[u] = op[u] /\ op[u].pc \notin LockedPcs
      BY <1>5, Alone DEF flash_try_acquire, Goes, TypeOK, Ops, LockedPcs,
         CapturePcs, FlashPcs
    <2>2. op[t].pc = "acquire_flash" /\ flash' = flash
      BY <1>5 DEF flash_try_acquire
    <2>3. CASE flashOwner = "none"
      <3>1. /\ snap' = snap /\ todo' = Listed(snap)
            /\ op'[t].kind = op[t].kind
            /\ op'[t].pc = CASE op[t].kind = "save"  -> "capture"
                             [] op[t].kind = "clear" -> "delete"
                             [] OTHER                -> "replay"
        BY <1>5, <2>3 DEF flash_try_acquire, Goes, TypeOK, Ops
      <3>2. \/ op[t].kind = "save" /\ op'[t].pc = "capture"
            \/ op[t].kind = "clear" /\ op'[t].pc = "delete"
            \/ op[t].kind \notin {"save", "clear"} /\ op'[t].pc = "replay"
        BY <3>1
      <3> QED
        BY <2>1, <2>2, <3>1, <3>2 DEF ReplayInv, OkMeansApplied, LockedPcs,
           CapturePcs, FlashPcs
    <2>4. CASE flashOwner # "none"
      <3>1. op'[t].pc = "idle"
        BY <1>5, <2>4 DEF flash_try_acquire, Idle, TypeOK
      <3> QED
        BY <2>1, <3>1 DEF ReplayInv, OkMeansApplied, LockedPcs, CapturePcs,
           FlashPcs
    <2> QED
      BY <2>3, <2>4
  <1>6. ASSUME NEW t \in Threads, capture(t)
        PROVE  (ReplayInv /\ OkMeansApplied)'
    <2>1. \A u \in Threads : u # t => op'[u] = op[u] /\ op[u].pc \notin LockedPcs
      BY <1>6, Alone DEF capture, Goes, Fails, TypeOK, Ops, LockedPcs,
         CapturePcs, FlashPcs
    <2>2. \/ op'[t].pc = "release_flash" /\ op'[t].res # "ok"
          \/ op'[t].pc = "store"
      BY <1>6 DEF capture, Goes, Fails, TypeOK, Ops
    <2> QED
      BY <2>1, <2>2 DEF ReplayInv, OkMeansApplied, LockedPcs, CapturePcs,
         FlashPcs
  <1>7. ASSUME NEW t \in Threads, store_save(t)
        PROVE  (ReplayInv /\ OkMeansApplied)'
    <2>1. /\ op[t].pc = "store"
          /\ \A u \in Threads : u # t => op'[u] = op[u] /\ op[u].pc \notin LockedPcs
      BY <1>7, Alone DEF store_save, Goes, Fails, TypeOK, Ops, LockedPcs,
         CapturePcs, FlashPcs
    <2>2. CASE Goes(t, "replay") /\ flash' = [kind |-> "valid", snap |-> snap]
               /\ todo' = Listed(snap)
      <3>1. op'[t].pc = "replay" /\ snap' = snap
        BY <1>7, <2>2 DEF store_save, Goes, TypeOK, Ops
      <3> QED
        BY <2>1, <2>2, <3>1 DEF ReplayInv, OkMeansApplied, LockedPcs,
           CapturePcs, FlashPcs
    <2>3. CASE \E r \in {"storage_error", "backend_unavailable"} : Fails(t, r)
      <3>1. op'[t].pc = "release_flash" /\ op'[t].res # "ok"
        BY <2>3 DEF Fails, TypeOK, Ops
      <3> QED
        BY <2>1, <3>1 DEF ReplayInv, OkMeansApplied, LockedPcs, CapturePcs,
           FlashPcs
    <2> QED
      BY <1>7, <2>2, <2>3 DEF store_save
  <1>8. ASSUME NEW t \in Threads, store_clear(t)
        PROVE  (ReplayInv /\ OkMeansApplied)'
    <2>1. \A u \in Threads : u # t => op'[u] = op[u] /\ op[u].pc \notin LockedPcs
      BY <1>8, Alone DEF store_clear, Goes, Fails, TypeOK, Ops, LockedPcs,
         CapturePcs, FlashPcs
    <2>2. /\ op'[t].pc = "release_flash"
          /\ op'[t].kind = "clear" \/ op'[t].res # "ok"
      BY <1>8 DEF store_clear, Goes, Fails, TypeOK, Ops, ReplayInv
    <2> QED
      BY <2>1, <2>2 DEF ReplayInv, OkMeansApplied, LockedPcs, CapturePcs,
         FlashPcs
  <1>9. ASSUME NEW t \in Threads, replay_entry(t)
        PROVE  (ReplayInv /\ OkMeansApplied)'
    BY <1>9, Alone DEF ReplayInv, OkMeansApplied, replay_entry, TypeOK, Ops,
       Goes, LockedPcs, CapturePcs, FlashPcs
  <1>10. ASSUME NEW t \in Threads, replay_result(t)
         PROVE  (ReplayInv /\ OkMeansApplied)'
    <2>1. \A u \in Threads : u # t => op'[u] = op[u] /\ op[u].pc \notin LockedPcs
      BY <1>10, Alone DEF replay_result, Goes, Fails, TypeOK, Ops, LockedPcs,
         CapturePcs, FlashPcs
    <2> DEFINE i == call[t].item
    <2>2. /\ op[t].pc = "setting" /\ snap' = snap /\ flash' = flash
          /\ i \in Items
      BY <1>10 DEF replay_result, TypeOK, ControlTypeOK, Calls
    <2>3. CASE call[t].ok
      <3>1. /\ op'[t].pc = "replay" /\ op'[t].kind = op[t].kind
            /\ todo' = todo \ {i}
        BY <1>10, <2>3 DEF replay_result, Goes, TypeOK, Ops
      <3>2. svc' = [svc EXCEPT !.state = [svc.state EXCEPT ![i] = "applied"],
                               !.pending = svc.pending - 1,
                               !.applied = svc.applied + 1]
        BY <1>10, <2>3 DEF replay_result
      <3>3. svc \in Services /\ svc.state \in [Items -> ApplyStates]
        BY DEF TypeOK, Services
      <3>4. svc'.state = [svc.state EXCEPT ![i] = "applied"]
        BY <3>2, <3>3 DEF Services
      <3>5. \A j \in Items : j = i \/ svc.state[j] = "applied"
                               => svc'.state[j] = "applied"
        BY <3>3, <3>4
      <3>6. op'[t].kind \in {"save", "boot"} =>
              \A j \in Listed(snap') \ todo' : svc'.state[j] = "applied"
        BY <2>2, <3>1, <3>5 DEF ReplayInv, Listed
      <3> QED
        BY <2>1, <2>2, <3>1, <3>6 DEF ReplayInv, OkMeansApplied, LockedPcs,
           CapturePcs, FlashPcs
    <2>4. CASE ~call[t].ok
      <3>1. op'[t].pc = "release_flash" /\ op'[t].res # "ok"
        BY <1>10, <2>4 DEF replay_result, Fails, TypeOK, Ops
      <3> QED
        BY <2>1, <3>1 DEF ReplayInv, OkMeansApplied, LockedPcs, CapturePcs,
           FlashPcs
    <2> QED
      BY <2>3, <2>4
  <1>11. ASSUME NEW t \in Threads, replay_end(t)
         PROVE  (ReplayInv /\ OkMeansApplied)'
    BY <1>11, Alone DEF ReplayInv, OkMeansApplied, replay_end, TypeOK, Ops,
       Goes, LockedPcs, CapturePcs, FlashPcs
  <1>12. ASSUME NEW t \in Threads, flash_release(t)
         PROVE  (ReplayInv /\ OkMeansApplied)'
    BY <1>12, Alone DEF ReplayInv, OkMeansApplied, flash_release, TypeOK,
       Ops, Goes, LockedPcs, CapturePcs, FlashPcs
  <1>13. ASSUME NEW t \in Threads, capture_release(t)
         PROVE  (ReplayInv /\ OkMeansApplied)'
    BY <1>13, Alone DEF ReplayInv, OkMeansApplied, capture_release, TypeOK,
       Ops, Idle, LockedPcs, CapturePcs, FlashPcs
  <1>14. ASSUME NEW t \in Threads, control_section(t)
         PROVE  (ReplayInv /\ OkMeansApplied)'
    BY <1>14 DEF ReplayInv, OkMeansApplied, control_section
  <1>15. ASSUME NEW t \in Threads, save_request(t)
         PROVE  (ReplayInv /\ OkMeansApplied)'
    BY <1>15, Alone DEF ReplayInv, OkMeansApplied, save_request, TypeOK, Ops,
       LockedPcs, CapturePcs, FlashPcs
  <1>16. ASSUME NEW t \in Threads, clear_request(t)
         PROVE  (ReplayInv /\ OkMeansApplied)'
    BY <1>16, Alone DEF ReplayInv, OkMeansApplied, clear_request, TypeOK,
       Ops, Idle, LockedPcs, CapturePcs, FlashPcs
  <1>17. ASSUME NEW t \in Threads, service_lock(t)
         PROVE  (ReplayInv /\ OkMeansApplied)'
    BY <1>17, Alone DEF ReplayInv, OkMeansApplied, service_lock, TypeOK, Ops,
       Goes, LockedPcs, CapturePcs, FlashPcs
  <1>18. ASSUME NEW t \in Threads, client_call(t)
         PROVE  (ReplayInv /\ OkMeansApplied)'
    BY <1>18 DEF ReplayInv, OkMeansApplied, client_call, svcVars
  <1>19. ASSUME NEW t \in Threads, client_return(t)
         PROVE  (ReplayInv /\ OkMeansApplied)'
    BY <1>19 DEF ReplayInv, OkMeansApplied, client_return, svcVars
  <1>20. ASSUME NEW k \in CaptureKinds, capture_taken(k) \/ capture_returned(k)
        PROVE  (ReplayInv /\ OkMeansApplied)'
    BY <1>20 DEF ReplayInv, OkMeansApplied, capture_taken, capture_returned
  <1>21. ASSUME NEW k \in FlashKinds, flash_taken(k) \/ flash_returned(k)
        PROVE  (ReplayInv /\ OkMeansApplied)'
    BY <1>21 DEF ReplayInv, OkMeansApplied, flash_taken, flash_returned
  <1>22. CASE crash
    BY <1>22 DEF ReplayInv, OkMeansApplied, crash, Boot, Idle
  <1> QED
    BY <1>1, <1>2, <1>3, <1>4, <1>5, <1>6, <1>7, <1>8, <1>9, <1>10, <1>11,
       <1>12, <1>13, <1>14, <1>15, <1>16, <1>17, <1>18, <1>19, <1>20, <1>21,
       <1>22 DEF Next, ServiceStep, Clients

-----------------------------------------------------------------------------
(* The invariant and its consequences.                                     *)

LEMMA InitIInv == Init => IInv
  <1> SUFFICES ASSUME Init PROVE IInv
    OBVIOUS
  <1>1. ControlInv
    BY ControlInitInv DEF Init
  <1>2. /\ flash \in [kind : BlobKinds, snap : Snapshots]
        /\ TypedSnap(flash.snap) /\ flash.kind # "valid"
    BY Initials DEF Init, Blobs, BlobKinds
  <1>3. op \in [Threads -> Ops]
    BY Initials DEF Init
  <1>4. TypeOK
    BY <1>1, <1>2, <1>3, Initials DEF Init, TypeOK, ControlInv
  <1>5. SnapsTyped
    BY <1>2, Initials DEF Init, SnapsTyped, StoreReset
  <1>6. \A t \in Threads : op[t].pc \in {"idle", "store_init"}
    BY DEF Init, Boot, Idle
  <1>7. MutexInv
    BY <1>6 DEF Init, MutexInv, LockedPcs, CapturePcs, FlashPcs
  <1>8. RecordInv
    BY DEF Init, RecordInv, StoreReset, StatusReset
  <1>9. GateInv /\ ReplayInv /\ OkMeansApplied
    BY <1>2, <1>6 DEF GateInv, DangerConfirmed, ReplayInv, OkMeansApplied
  <1> QED
    BY <1>1, <1>4, <1>5, <1>7, <1>8, <1>9 DEF IInv, ControlInv

LEMMA NextIInv == IInv /\ [Next]_vars => IInv'
  <1> SUFFICES ASSUME IInv, [Next]_vars PROVE IInv'
    OBVIOUS
  <1>1. TypeOK' /\ CallShape'
    BY TypeNext, ControlPart DEF IInv, ControlInv
  <1>2. SnapsTyped'
    BY SnapsNext DEF IInv
  <1>3. MutexInv'
    BY MutexNext DEF IInv
  <1>4. RecordInv'
    BY RecordNext DEF IInv
  <1>5. GateInv'
    BY GateNext DEF IInv
  <1>6. ReplayInv' /\ OkMeansApplied'
    BY ReplayNext DEF IInv
  <1> QED
    BY <1>1, <1>2, <1>3, <1>4, <1>5, <1>6 DEF IInv

THEOREM Invariant == Spec => []IInv
  BY InitIInv, NextIInv, PTL DEF Spec

\* Every variable keeps its type, for any catalog and any number of clients.
THEOREM Typed == Spec => []TypeOK
  <1>1. IInv => TypeOK
    BY DEF IInv
  <1> QED
    BY <1>1, Invariant, PTL

\* No path of a save, clear or boot replay works without the mutex and both
\* owners, and none leaves an owner taken behind.
THEOREM OwnersAreHeld == Spec => []OwnersHeld
  <1>1. IInv => OwnersHeld
    BY DEF IInv, MutexInv, OwnersHeld, LockedPcs, CapturePcs, FlashPcs
  <1> QED
    BY <1>1, Invariant, PTL

\* The reported snapshot is the one the next boot finds, through failed
\* writes, failed deletes and crashes.
THEOREM ReportIsFlash == Spec => []ReportMatchesFlash
  <1>1. IInv => ReportMatchesFlash
    BY DEF IInv, RecordInv, ReportMatchesFlash, Quiet
  <1> QED
    BY <1>1, Invariant, PTL

\* Nothing dangerous is stored, and so replayed at every boot, without a
\* confirmed save of exactly those values.
THEOREM DangerIsConfirmed == Spec => []DangerConfirmed
  <1>1. IInv => DangerConfirmed
    BY DEF IInv, GateInv
  <1> QED
    BY <1>1, Invariant, PTL

\* A save or boot replay that returns success has applied every listed item
\* of the snapshot in flash.
THEOREM SuccessMeansApplied == Spec => []OkMeansApplied
  <1>1. IInv => OkMeansApplied
    BY DEF IInv
  <1> QED
    BY <1>1, Invariant, PTL

\* Flash is written only by the service while it owns the flash and no
\* capture session runs.
THEOREM OnlyOwnerWrites == Spec => FlashWrittenByOwner
  <1>1. ASSUME IInv, [Next]_vars
        PROVE  [flash' # flash => flashOwner = "config" /\ capOwner = "config"]_vars
    <2> SUFFICES ASSUME flash' # flash
                 PROVE  flashOwner = "config" /\ capOwner = "config"
      OBVIOUS
    <2>1. PICK t \in Threads : store_save(t) \/ store_clear(t)
      BY <1>1 DEF Next, ServiceStep, Clients, vars, svcVars, store_init,
         service_init, capture_try_acquire, flash_try_acquire, capture,
         replay_entry, replay_result, replay_end, flash_release,
         capture_release, control_section, save_request, clear_request,
         service_lock, client_call, client_return, capture_taken,
         capture_returned, flash_taken, flash_returned, crash
    <2>2. op[t].pc \in FlashPcs
      BY <2>1 DEF store_save, store_clear, FlashPcs
    <2> QED
      BY <1>1, <2>2 DEF IInv, MutexInv, CapturePcs
  <1> QED
    BY <1>1, Invariant, PTL DEF Spec, FlashWrittenByOwner

-----------------------------------------------------------------------------
(***************************************************************************)
(* What a replay leaves needs ReplayWorkInv beside IInv: the replay works  *)
(* through the entries still pending, in an order in which no two items    *)
(* are level and the USB route comes before the hub rail it drives.        *)
(***************************************************************************)

(* The replay order.                                                       *)

\* Where an item is replayed: the routes and rails at a stage each, the GPIOs
\* before or after all of them in the order of the catalog.
LEMMA RankTyped ==
  ASSUME NEW i \in Items, NEW v
  PROVE  /\ Rank(i, v) \in Int
         /\ i \notin Gpio =>
              Rank(i, v) = CASE i = "sd"      -> 200
                             [] i = "tf_wp"   -> 300
                             [] i = "usb"     -> 400
                             [] i = "vdd_5v"  -> 500
                             [] i = "12v_out" -> 600
                             [] i = "5v_out"  -> 700
                             [] i = "20v_out" -> 800
                             [] i = "vin"     -> 900
         /\ i \in Gpio => \E n \in 1..15 : GpioOrder[n] = i /\ Rank(i, v) \in {100 + n, 1000 + n}
  <1>1. CASE i \notin Gpio
    <2>1. i \in {"sd", "tf_wp", "usb", "vdd_5v", "12v_out", "5v_out", "20v_out", "vin"}
      BY <1>1, ItemsAssumption DEF Power, Switch
    <2> QED
      BY <1>1, <2>1 DEF Rank, Stage
  <1>2. CASE i \in Gpio
    <2>1. i \notin {"sd", "tf_wp", "usb", "vdd_5v", "12v_out", "5v_out", "20v_out", "vin"}
      BY <1>2, GpioNames
    <2>2. Stage(i, v) \in {1, 10}
      BY <1>2, <2>1 DEF Stage
    <2> DEFINE n == CHOOSE n \in 1..15 : GpioOrder[n] = i
    <2>3. n \in 1..15 /\ GpioOrder[n] = i
      BY <1>2 DEF Gpio
    <2>4. Rank(i, v) = 100 * Stage(i, v) + n
      BY <1>2 DEF Rank
    <2> HIDE DEF n
    <2>5. Rank(i, v) \in {100 + n, 1000 + n}
      BY <2>2, <2>3, <2>4
    <2> QED
      BY <1>2, <2>3, <2>5
  <1> QED
    BY <1>1, <1>2

\* No two items, whatever their values, are replayed at the same place.
LEMMA RankInjective ==
  ASSUME NEW i \in Items, NEW j \in Items, NEW v, NEW w, Rank(i, v) = Rank(j, w)
  PROVE  i = j
  <1>1. CASE i \in Gpio /\ j \in Gpio
    <2>1. PICK n \in 1..15 : GpioOrder[n] = i /\ Rank(i, v) \in {100 + n, 1000 + n}
      BY <1>1, RankTyped
    <2>2. PICK m \in 1..15 : GpioOrder[m] = j /\ Rank(j, w) \in {100 + m, 1000 + m}
      BY <1>1, RankTyped
    <2>3. n = m
      BY <2>1, <2>2
    <2> QED
      BY <2>1, <2>2, <2>3
  <1>2. CASE i \in Gpio /\ j \notin Gpio
    <2>1. PICK n \in 1..15 : Rank(i, v) \in {100 + n, 1000 + n}
      BY <1>2, RankTyped
    <2>2. Rank(i, v) < 200 \/ Rank(i, v) > 900
      BY <2>1
    <2>3. j \in {"sd", "tf_wp", "usb", "vdd_5v", "12v_out", "5v_out", "20v_out", "vin"}
      BY <1>2, ItemsAssumption DEF Power, Switch
    <2>4. Rank(j, w) >= 200 /\ Rank(j, w) <= 900
      BY <1>2, <2>3, RankTyped
    <2> QED
      BY <2>2, <2>4, RankTyped
  <1>3. CASE i \notin Gpio /\ j \in Gpio
    <2>1. PICK n \in 1..15 : Rank(j, w) \in {100 + n, 1000 + n}
      BY <1>3, RankTyped
    <2>2. Rank(j, w) < 200 \/ Rank(j, w) > 900
      BY <2>1
    <2>3. i \in {"sd", "tf_wp", "usb", "vdd_5v", "12v_out", "5v_out", "20v_out", "vin"}
      BY <1>3, ItemsAssumption DEF Power, Switch
    <2>4. Rank(i, v) >= 200 /\ Rank(i, v) <= 900
      BY <1>3, <2>3, RankTyped
    <2> QED
      BY <2>2, <2>4, RankTyped
  <1>4. CASE i \notin Gpio /\ j \notin Gpio
    <2>1. /\ i \in {"sd", "tf_wp", "usb", "vdd_5v", "12v_out", "5v_out", "20v_out", "vin"}
          /\ j \in {"sd", "tf_wp", "usb", "vdd_5v", "12v_out", "5v_out", "20v_out", "vin"}
      BY <1>4, ItemsAssumption DEF Power, Switch
    <2> QED
      BY <1>4, <2>1, RankTyped
  <1> QED
    BY <1>1, <1>2, <1>3, <1>4

\* The USB route is replayed before the hub rail it drives.
LEMMA UsbBeforeRail == \A v, w : Rank("usb", v) < Rank("vdd_5v", w)
  <1>1. "usb" \notin Gpio /\ "vdd_5v" \notin Gpio
    BY GpioNames
  <1> QED
    BY <1>1, RankTyped, RouteValues

-----------------------------------------------------------------------------
(* Counting.                                                               *)

\* An item that changes its state leaves one count and enters another.
LEMMA CountMoves ==
  ASSUME NEW st \in [Items -> ApplyStates], NEW i \in Items, NEW b \in ApplyStates,
         st[i] # b, NEW new, new = [st EXCEPT ![i] = b]
  PROVE  /\ Cardinality(StateItems(new, b)) = Cardinality(StateItems(st, b)) + 1
         /\ Cardinality(StateItems(new, st[i])) = Cardinality(StateItems(st, st[i])) - 1
         /\ \A a : a \notin {b, st[i]} => StateItems(new, a) = StateItems(st, a)
  <1>1. StateItems(new, b) = StateItems(st, b) \cup {i} /\ i \notin StateItems(st, b)
    BY DEF StateItems
  <1>2. StateItems(new, st[i]) = StateItems(st, st[i]) \ {i} /\ i \in StateItems(st, st[i])
    BY DEF StateItems
  <1>3. \A a : StateItems(st, a) \subseteq Items
    BY DEF StateItems
  <1>4. \A a : IsFiniteSet(StateItems(st, a))
    BY <1>3, ItemsFinite, FS_Subset
  <1>5. \A a : a \notin {b, st[i]} => StateItems(new, a) = StateItems(st, a)
    BY DEF StateItems
  <1>6. Cardinality(StateItems(new, b)) = Cardinality(StateItems(st, b)) + 1
    BY <1>1, <1>4, FS_AddElement
  <1>7. Cardinality(StateItems(new, st[i])) = Cardinality(StateItems(st, st[i])) - 1
    BY <1>2, <1>4, FS_RemoveElement
  <1> QED
    BY <1>5, <1>6, <1>7

\* Nothing is counted where nothing is.
LEMMA NoneIn == ASSUME NEW S, S = {} PROVE Cardinality(S) = 0
  BY FS_EmptySet

\* The record of a snapshot that was just stored, loaded or removed counts right.
LEMMA SyncCounts ==
  ASSUME NEW s \in Snapshots, NEW r, NEW a \in {"pending", "not_saved"},
         a = "not_saved" => Listed(s) = {},
         svc' = sync_saved(s, r, a)
  PROVE  /\ CountInv' /\ AppliedIsAPrefix' /\ CurrentInv'
         /\ svc'.saved = s /\ ItemsIn("applied")' = {} /\ ItemsIn("failed")' = {}
         /\ a = "pending" => ItemsIn("pending")' = Listed(s)
  <1>1. /\ svc'.state = [i \in Items |-> IF s[i] # "none" THEN a ELSE "not_saved"]
        /\ svc'.saved = s /\ svc'.applied = 0 /\ svc'.failed = 0
        /\ svc'.pending = IF a = "pending" THEN Cardinality(Listed(s)) ELSE 0
    BY DEF sync_saved
  <1>2. ItemsIn("applied")' = {} /\ ItemsIn("failed")' = {}
    BY <1>1 DEF ItemsIn, StateItems
  <1>3. a = "pending" => ItemsIn("pending")' = Listed(s)
    BY <1>1 DEF ItemsIn, StateItems, Listed
  <1>4. a = "not_saved" => ItemsIn("pending")' = {}
    BY <1>1 DEF ItemsIn, StateItems
  <1>5. \A i \in Items : svc'.state[i] = "not_saved" <=> svc'.saved[i] = "none"
    BY <1>1 DEF Listed
  <1>6. CountInv'
    BY <1>1, <1>2, <1>3, <1>4, <1>5, NoneIn DEF CountInv
  <1>7. AppliedIsAPrefix' /\ CurrentInv'
    BY <1>2 DEF AppliedIsAPrefix, CurrentInv, ItemsIn, StateItems
  <1> QED
    BY <1>1, <1>2, <1>3, <1>6, <1>7

-----------------------------------------------------------------------------
(* The steps.                                                              *)

\* The counts, the order and what is current depend on three variables only.
LEMMA Uncounted ==
  ASSUME CountInv, AppliedIsAPrefix, CurrentInv,
         svc' = svc, live' = live, touched' = touched
  PROVE  CountInv' /\ AppliedIsAPrefix' /\ CurrentInv'
  BY DEF CountInv, AppliedIsAPrefix, CurrentInv, ItemsIn, StateItems

\* What moving, failing and ending do to the operations.
LEMMA OpMoves ==
  ASSUME TypeOK, NEW t \in Threads
  PROVE  /\ \A p : Goes(t, p) =>
              /\ op'[t].pc = p /\ op'[t].kind = op[t].kind
              /\ \A u \in Threads : u # t => op'[u] = op[u]
         /\ \A r : Fails(t, r) =>
              /\ op'[t].pc = "release_flash"
              /\ \A u \in Threads : u # t => op'[u] = op[u]
         /\ op' = [op EXCEPT ![t] = Idle] =>
              /\ op'[t].pc = "idle"
              /\ \A u \in Threads : u # t => op'[u] = op[u]
  BY DEF TypeOK, Ops, Goes, Fails, Idle

\* The threads beside the one that holds the mutex are in no operation.
LEMMA WorkOfOne ==
  ASSUME TypeOK, MutexInv, ReplayWorkInv, NEW t \in Threads,
         op[t].pc \in LockedPcs,
         \A u \in Threads : u # t => op'[u] = op[u],
         WorkOf(t)', SettingOf(t)'
  PROVE  \A u \in Threads : WorkOf(u)' /\ SettingOf(u)'
  <1> SUFFICES ASSUME NEW u \in Threads, u # t PROVE WorkOf(u)' /\ SettingOf(u)'
    OBVIOUS
  <1>1. op'[u] = op[u] /\ op[u].pc \notin LockedPcs
    BY Alone
  <1>2. WorkOf(u)
    BY DEF ReplayWorkInv
  <1> QED
    BY <1>1, <1>2 DEF WorkOf, SettingOf, LockedPcs, CapturePcs, FlashPcs

\* A step to where nothing is asked of an operation.
LEMMA WorkIsOver ==
  ASSUME NEW t, op'[t].pc \notin {"store_init", "service_init", "wait", "acquire", "acquire_flash", "replay", "setting"}
  PROVE  WorkOf(t)' /\ SettingOf(t)'
  BY DEF WorkOf, SettingOf

\* A section of a setter writes its item, or the hub rail for the USB route;
\* once it is past that write the value is there.
LEMMA SectionWrites ==
  ASSUME ControlInv, NEW t \in Threads, Section(t)
  PROVE  /\ \/ live' = live
            \/ live' = [live EXCEPT ![call[t].item] = call[t].val]
            \/ /\ call[t].item = "usb"
               /\ \E v \in {"off", "on"} : live' = [live EXCEPT !["vdd_5v"] = v]
         /\ call'[t].pc = "vdd_off" \/ (call'[t].pc = "done" /\ call'[t].ok) =>
              \/ live'[call[t].item] = call[t].val
              \/ /\ call[t].pc = "vdd_off"
                 /\ live'[call[t].item] = live[call[t].item]
         /\ call'[t].item = call[t].item /\ call'[t].val = call[t].val
         /\ call'[t].pc \notin {"idle", "vin_store"}
         /\ \A u \in Threads : u # t => call'[u] = call[u]
  <1>0. /\ live \in [Items -> Values] /\ call \in [Threads -> Calls]
        /\ call[t].item \in Items
    BY DEF ControlInv, ControlTypeOK, Calls
  <1>1. CASE SetSection(t)
    <2>1. CASE call[t].item \in Power
      BY <1>0, <1>1, <2>1 DEF SetSection, power_output_set, Power, Return, Calls
    <2>2. CASE call[t].item = "vin"
      BY <1>0, <1>1, <2>2 DEF SetSection, vin_route_set, Power, Return, Calls
    <2>3. CASE call[t].item \notin Power /\ call[t].item # "vin"
      BY <1>0, <1>1, <2>3 DEF SetSection, pin_set, Return, Calls
    <2> QED
      BY <2>1, <2>2, <2>3
  <1>2. CASE usb_vdd_on(t)
    <2>1. call[t].item = "usb"
      BY <1>2 DEF usb_vdd_on, ControlInv, CallShape
    <2> QED
      BY <1>0, <1>2, <2>1 DEF usb_vdd_on, power_output_set, Goto, Return, Calls
  <1>3. CASE usb_mux(t)
    <2>1. call[t].item = "usb"
      BY <1>3 DEF usb_mux, ControlInv, CallShape
    <2> QED
      BY <1>0, <1>3, <2>1 DEF usb_mux, Goto, Return, Calls
  <1>4. CASE usb_vdd_off(t)
    <2>1. call[t].item = "usb"
      BY <1>4 DEF usb_vdd_off, ControlInv, CallShape
    <2>2. \/ live' = live
          \/ \E v \in {"off", "on"} : live' = [live EXCEPT !["vdd_5v"] = v]
      BY <1>4 DEF usb_vdd_off, power_output_set
    <2>3. live'["usb"] = live["usb"]
      BY <1>0, <2>2, RouteValues
    <2>4. \E good \in BOOLEAN : Return(t, good)
      BY <1>4 DEF usb_vdd_off, power_output_set
    <2>5. call[t].pc = "vdd_off"
      BY <1>4 DEF usb_vdd_off
    <2> QED
      BY <1>0, <2>1, <2>2, <2>3, <2>4, <2>5 DEF Return, Calls
  <1>5. CASE vin_route_store(t)
    <2>1. call[t].item = "vin"
      BY <1>5 DEF vin_route_store, ControlInv, CallShape
    <2> QED
      BY <1>0, <1>5, <2>1 DEF vin_route_store, Return, Calls
  <1> QED
    BY <1>1, <1>2, <1>3, <1>4, <1>5 DEF Section
\* The steps of an operation up to its replay.
LEMMA ReplayWorkStore ==
  ASSUME IInv, ReplayWorkInv, NEW t \in Threads,
         \/ capture_try_acquire(t) \/ flash_try_acquire(t) \/ capture(t)
         \/ store_save(t) \/ store_clear(t)
  PROVE  ReplayWorkInv'
  <1> USE DEF ReplayWorkInv
  <1>0. TypeOK /\ MutexInv
    BY DEF IInv
  <1>1. CASE capture_try_acquire(t)
    <2>1. /\ op[t].pc = "acquire" /\ op[t].pc \in LockedPcs
          /\ (Goes(t, "acquire_flash") /\ snap' = snap) \/ op' = [op EXCEPT ![t] = Idle]
          /\ svc' = svc /\ live' = live /\ touched' = touched
      BY <1>1 DEF capture_try_acquire, LockedPcs, ctlVars
    <2>2. WorkOf(t)' /\ SettingOf(t)'
      <3>1. CASE Goes(t, "acquire_flash") /\ snap' = snap
        <4>1. op'[t].pc = "acquire_flash" /\ op'[t].kind = op[t].kind
          BY <1>0, <3>1, OpMoves
        <4>2. WorkOf(t)
          OBVIOUS
        <4> QED
          BY <2>1, <3>1, <4>1, <4>2 DEF WorkOf, SettingOf, ItemsIn, StateItems
      <3>2. CASE op' = [op EXCEPT ![t] = Idle]
        BY <1>0, <3>2, OpMoves, WorkIsOver
      <3> QED
        BY <2>1, <3>1, <3>2
    <2>3. \A u \in Threads : u # t => op'[u] = op[u]
      BY <1>0, <2>1, OpMoves
    <2> QED
      BY <1>0, <2>1, <2>2, <2>3, WorkOfOne, Uncounted
  <1>2. CASE flash_try_acquire(t)
    <2>1. /\ op[t].pc = "acquire_flash" /\ op[t].pc \in LockedPcs
          /\ svc' = svc /\ live' = live /\ touched' = touched
          /\ \/ /\ \/ op[t].kind = "save" /\ Goes(t, "capture")
                   \/ op[t].kind = "clear" /\ Goes(t, "delete")
                   \/ op[t].kind \notin {"save", "clear"} /\ Goes(t, "replay")
                /\ todo' = Listed(snap) /\ snap' = snap
             \/ op' = [op EXCEPT ![t] = Idle]
      <3>1. \/ op[t].kind = "save" \/ op[t].kind = "clear"
            \/ op[t].kind \notin {"save", "clear"}
        OBVIOUS
      <3> QED
        BY <1>2, <3>1 DEF flash_try_acquire, LockedPcs, CapturePcs, ctlVars
    <2>2. WorkOf(t)' /\ SettingOf(t)'
      <3>1. CASE Goes(t, "capture") \/ Goes(t, "delete") \/ op' = [op EXCEPT ![t] = Idle]
        BY <1>0, <3>1, OpMoves, WorkIsOver
      <3>2. CASE /\ op[t].kind \notin {"save", "clear"} /\ Goes(t, "replay")
                 /\ todo' = Listed(snap) /\ snap' = snap
        <4>1. op'[t].pc = "replay"
          BY <1>0, <3>2, OpMoves
        <4>2. svc.saved = snap /\ ItemsIn("applied") = {} /\ ItemsIn("failed") = {}
          BY <2>1, <3>2 DEF WorkOf
        <4>3. svc.state \in [Items -> ApplyStates]
          BY <1>0 DEF TypeOK, Services
        <4>4. ItemsIn("pending") = Listed(snap)
          BY <4>2, <4>3 DEF ItemsIn, StateItems, Listed, CountInv, ApplyStates
        <4> QED
          BY <2>1, <3>2, <4>1, <4>2, <4>4 DEF WorkOf, SettingOf, ItemsIn, StateItems
      <3> QED
        BY <2>1, <3>1, <3>2
    <2>3. \A u \in Threads : u # t => op'[u] = op[u]
      BY <1>0, <2>1, OpMoves
    <2> QED
      BY <1>0, <2>1, <2>2, <2>3, WorkOfOne, Uncounted
  <1>3. CASE capture(t)
    <2>1. /\ op[t].pc \in LockedPcs
          /\ svc' = svc /\ live' = live /\ touched' = touched
          /\ Goes(t, "store") \/ \E r : Fails(t, r)
      BY <1>3 DEF capture, LockedPcs, CapturePcs, FlashPcs, ctlVars
    <2>2. WorkOf(t)' /\ SettingOf(t)'
      BY <1>0, <2>1, OpMoves, WorkIsOver
    <2>3. \A u \in Threads : u # t => op'[u] = op[u]
      BY <1>0, <2>1, OpMoves
    <2> QED
      BY <1>0, <2>1, <2>2, <2>3, WorkOfOne, Uncounted
  <1>4. CASE store_save(t)
    <2>1. op[t].pc \in LockedPcs /\ live' = live /\ touched' = touched /\ snap' = snap
      BY <1>4 DEF store_save, LockedPcs, CapturePcs, FlashPcs, ctlVars
    <2>2. CASE /\ svc' = sync_saved(snap, "ready", "pending")
               /\ todo' = Listed(snap) /\ Goes(t, "replay")
      <3>1. snap \in Snapshots
        BY <1>0 DEF TypeOK
      <3>2. /\ CountInv' /\ AppliedIsAPrefix' /\ CurrentInv'
            /\ svc'.saved = snap /\ ItemsIn("failed")' = {}
            /\ ItemsIn("pending")' = Listed(snap)
        BY <2>2, <3>1, SyncCounts
      <3>3. /\ op'[t].pc = "replay"
            /\ \A u \in Threads : u # t => op'[u] = op[u]
        BY <1>0, <2>2, OpMoves
      <3>4. WorkOf(t)' /\ SettingOf(t)'
        BY <2>1, <2>2, <3>2, <3>3 DEF WorkOf, SettingOf
      <3> QED
        BY <1>0, <2>1, <3>2, <3>3, <3>4, WorkOfOne
    <2>3. CASE svc' = svc /\ \E r : Fails(t, r)
      <3>1. WorkOf(t)' /\ SettingOf(t)'
        BY <1>0, <2>3, OpMoves, WorkIsOver
      <3>2. \A u \in Threads : u # t => op'[u] = op[u]
        BY <1>0, <2>3, OpMoves
      <3> QED
        BY <1>0, <2>1, <2>3, <3>1, <3>2, WorkOfOne, Uncounted
    <2> QED
      BY <1>4, <2>2, <2>3 DEF store_save
  <1>5. CASE store_clear(t)
    <2>1. op[t].pc \in LockedPcs /\ live' = live /\ touched' = touched
      BY <1>5 DEF store_clear, LockedPcs, CapturePcs, FlashPcs, ctlVars
    <2>2. /\ Goes(t, "release_flash") \/ \E r : Fails(t, r)
          /\ svc' = svc \/ svc' = sync_saved(EmptySnap, "absent", "not_saved")
      BY <1>5 DEF store_clear
    <2>3. WorkOf(t)' /\ SettingOf(t)'
      BY <1>0, <2>2, OpMoves, WorkIsOver
    <2>4. \A u \in Threads : u # t => op'[u] = op[u]
      BY <1>0, <2>2, OpMoves
    <2>5. CountInv' /\ AppliedIsAPrefix' /\ CurrentInv'
      <3>1. Listed(EmptySnap) = {}
        BY DEF Listed, EmptySnap
      <3>2. CASE svc' = sync_saved(EmptySnap, "absent", "not_saved")
        BY <3>1, <3>2, SyncCounts, Initials
      <3> QED
        BY <2>1, <2>2, <3>2, Uncounted
    <2> QED
      BY <1>0, <2>1, <2>3, <2>4, <2>5, WorkOfOne
  <1> QED
    BY <1>1, <1>2, <1>3, <1>4, <1>5
\* The steps of a replay, up to the end of the operation.
LEMMA ReplayWorkReplay ==
  ASSUME IInv, ReplayWorkInv, NEW t \in Threads,
         \/ replay_entry(t) \/ replay_result(t) \/ replay_end(t)
         \/ flash_release(t) \/ capture_release(t)
  PROVE  ReplayWorkInv'
  <1> USE DEF ReplayWorkInv
  <1>0. TypeOK /\ MutexInv /\ CallShape
    BY DEF IInv
  <1>1. CASE replay_entry(t)
    <2>1. /\ op[t].pc \in LockedPcs /\ op[t].pc = "replay" /\ Goes(t, "setting")
          /\ svc' = svc /\ live' = live /\ snap' = snap /\ todo' = todo
      BY <1>1 DEF replay_entry, LockedPcs, CapturePcs, FlashPcs, BeginSet
    <2>2. PICK i \in todo : /\ \A j \in todo : Rank(i, snap[i]) <= Rank(j, snap[j])
                            /\ BeginSet(t, i, snap[i])
                            /\ touched' = touched \ {i}
      BY <1>1 DEF replay_entry
    <2>3. /\ op'[t].pc = "setting"
          /\ \A u \in Threads : u # t => op'[u] = op[u]
      BY <1>0, <2>1, OpMoves
    <2>4. todo = ItemsIn("pending") /\ svc.saved = snap /\ ItemsIn("failed") = {}
      BY <2>1 DEF WorkOf
    <2>5. WorkOf(t)'
      BY <2>1, <2>3, <2>4 DEF WorkOf, ItemsIn, StateItems
    <2>6. /\ call'[t].pc \in {"done", "vdd_on", "mux", "set"}
          /\ call'[t].pc = "done" => ~call'[t].ok
          /\ call'[t].item = i /\ call'[t].val = snap[i]
      BY <1>0, <2>2 DEF BeginSet, Entry, TypeOK, ControlTypeOK
    <2>7. SettingOf(t)'
      BY <2>1, <2>2, <2>3, <2>6 DEF SettingOf
    <2>8. CountInv' /\ AppliedIsAPrefix'
      BY <2>1 DEF CountInv, AppliedIsAPrefix, ItemsIn, StateItems
    <2>9. CurrentInv'
      <3>1. svc.state[i] = "pending"
        BY <2>2, <2>4 DEF ItemsIn, StateItems
      <3> QED
        BY <2>1, <2>2, <3>1 DEF CurrentInv
    <2> QED
      BY <1>0, <2>1, <2>3, <2>5, <2>7, <2>8, <2>9, WorkOfOne
  <1>2. CASE replay_result(t)
    <2> DEFINE i == call[t].item
               st(a) == [svc.state EXCEPT ![i] = a]
    <2>1. /\ op[t].pc \in LockedPcs /\ op[t].pc = "setting"
          /\ live' = live /\ snap' = snap /\ touched' = touched
          /\ call[t].pc = "done"
      BY <1>2 DEF replay_result, LockedPcs, CapturePcs, FlashPcs, EndSet
    <2>2. /\ todo = ItemsIn("pending") /\ svc.saved = snap /\ ItemsIn("failed") = {}
          /\ i \in todo /\ \A j \in todo : Rank(i, snap[i]) <= Rank(j, snap[j])
          /\ call[t].ok => i \in touched \/ live[i] = snap[i]
      BY <2>1 DEF WorkOf, SettingOf
    <2>3. /\ i \in Items /\ svc.state[i] = "pending"
          /\ svc \in Services /\ svc.state \in [Items -> ApplyStates]
      BY <1>0, <2>2 DEF ItemsIn, StateItems, TypeOK, Services
    <2>4. \A a : st(a)[i] = a /\ \A j \in Items : j # i => st(a)[j] = svc.state[j]
      BY <2>3
    <2>5. \A j \in todo : j # i => Rank(i, snap[i]) < Rank(j, snap[j])
      <3> SUFFICES ASSUME NEW j \in todo, j # i PROVE Rank(i, snap[i]) < Rank(j, snap[j])
        OBVIOUS
      <3>1. j \in Items
        BY <2>2 DEF ItemsIn, StateItems
      <3>2. Rank(i, snap[i]) # Rank(j, snap[j])
        BY <2>3, <3>1, RankInjective
      <3> QED
        BY <2>2, <2>3, <3>1, <3>2, RankTyped
    <2>6. CASE call[t].ok
      <3>1. /\ svc' = [svc EXCEPT !.state = st("applied"), !.pending = svc.pending - 1,
                                  !.applied = svc.applied + 1]
            /\ todo' = todo \ {i} /\ Goes(t, "replay")
        BY <1>2, <2>6 DEF replay_result
      <3>2. /\ svc'.state = st("applied") /\ svc'.saved = svc.saved
            /\ svc'.pending = svc.pending - 1 /\ svc'.applied = svc.applied + 1
            /\ svc'.failed = svc.failed
        <4> HIDE DEF st
        <4> QED
          BY <2>3, <3>1 DEF Services
      <3>3. /\ Cardinality(ItemsIn("applied")') = Cardinality(ItemsIn("applied")) + 1
            /\ Cardinality(ItemsIn("pending")') = Cardinality(ItemsIn("pending")) - 1
            /\ ItemsIn("failed")' = ItemsIn("failed")
        <4>1. "applied" \in ApplyStates
          BY DEF ApplyStates
        <4> QED
          BY <2>3, <3>2, <4>1, CountMoves DEF ItemsIn
      <3>4. CountInv'
        <4>1. \A j \in Items : svc'.state[j] = "not_saved" <=> svc.state[j] = "not_saved"
          BY <2>3, <2>4, <3>2
        <4> QED
          BY <3>2, <3>3, <4>1 DEF CountInv
      <3>5. todo' = ItemsIn("pending")'
        BY <2>2, <2>4, <3>1, <3>2 DEF ItemsIn, StateItems
      <3>6. op'[t].pc = "replay" /\ \A u \in Threads : u # t => op'[u] = op[u]
        BY <1>0, <3>1, OpMoves
      <3>7. WorkOf(t)' /\ SettingOf(t)'
        BY <2>1, <2>2, <3>2, <3>3, <3>5, <3>6 DEF WorkOf, SettingOf
      <3>8. AppliedIsAPrefix'
        <4> SUFFICES ASSUME NEW a \in Items, NEW c \in Items,
                            svc'.state[a] = "applied",
                            svc'.state[c] \in {"pending", "failed"}
                     PROVE  Rank(a, svc.saved[a]) < Rank(c, svc.saved[c])
          BY <3>2 DEF AppliedIsAPrefix
        <4>1. c # i /\ svc.state[c] \in {"pending", "failed"}
          BY <2>4, <3>2
        <4>2. c \in todo
          BY <2>2, <4>1 DEF ItemsIn, StateItems
        <4>3. CASE a = i
          BY <2>2, <2>5, <4>1, <4>2, <4>3
        <4>4. CASE a # i
          BY <2>4, <3>2, <4>1, <4>4 DEF AppliedIsAPrefix
        <4> QED
          BY <4>3, <4>4
      <3>9. CurrentInv'
        BY <2>1, <2>2, <2>4, <2>6, <3>2 DEF CurrentInv
      <3> QED
        BY <1>0, <2>1, <3>4, <3>6, <3>7, <3>8, <3>9, WorkOfOne
    <2>7. CASE ~call[t].ok
      <3>1. /\ svc' = [svc EXCEPT !.state = st("failed"), !.pending = svc.pending - 1,
                                  !.failed = 1]
            /\ Fails(t, "apply_failed")
        BY <1>2, <2>7 DEF replay_result
      <3>2. /\ svc'.state = st("failed") /\ svc'.saved = svc.saved
            /\ svc'.pending = svc.pending - 1 /\ svc'.applied = svc.applied
            /\ svc'.failed = 1
        <4> HIDE DEF st
        <4> QED
          BY <2>3, <3>1 DEF Services
      <3>3. /\ Cardinality(ItemsIn("failed")') = Cardinality(ItemsIn("failed")) + 1
            /\ Cardinality(ItemsIn("pending")') = Cardinality(ItemsIn("pending")) - 1
            /\ ItemsIn("applied")' = ItemsIn("applied")
        <4>1. "failed" \in ApplyStates
          BY DEF ApplyStates
        <4> QED
          BY <2>3, <3>2, <4>1, CountMoves DEF ItemsIn
      <3>4. CountInv'
        <4>1. \A j \in Items : svc'.state[j] = "not_saved" <=> svc.state[j] = "not_saved"
          BY <2>3, <2>4, <3>2
        <4>2. Cardinality(ItemsIn("failed")) = 0
          BY <2>2, NoneIn
        <4> QED
          BY <3>2, <3>3, <4>1, <4>2 DEF CountInv
      <3>5. /\ op'[t].pc = "release_flash"
            /\ \A u \in Threads : u # t => op'[u] = op[u]
        BY <1>0, <3>1, OpMoves
      <3>6. WorkOf(t)' /\ SettingOf(t)'
        BY <3>5, WorkIsOver
      <3>7. AppliedIsAPrefix'
        <4> SUFFICES ASSUME NEW a \in Items, NEW c \in Items,
                            svc'.state[a] = "applied",
                            svc'.state[c] \in {"pending", "failed"}
                     PROVE  Rank(a, svc.saved[a]) < Rank(c, svc.saved[c])
          BY <3>2 DEF AppliedIsAPrefix
        <4>1. svc.state[a] = "applied" /\ svc.state[c] \in {"pending", "failed"}
          BY <2>3, <2>4, <3>2
        <4> QED
          BY <4>1 DEF AppliedIsAPrefix
      <3>8. CurrentInv'
        BY <2>1, <2>4, <3>2 DEF CurrentInv
      <3> QED
        BY <1>0, <2>1, <3>4, <3>5, <3>6, <3>7, <3>8, WorkOfOne
    <2> QED
      BY <2>6, <2>7
  <1>3. CASE replay_end(t) \/ flash_release(t)
    <2>1. /\ op[t].pc \in LockedPcs /\ \E p \in {"release_flash", "release_capture"} : Goes(t, p)
          /\ svc' = svc /\ live' = live /\ touched' = touched
      BY <1>3 DEF replay_end, flash_release, LockedPcs, CapturePcs, FlashPcs, ctlVars
    <2> QED
      BY <1>0, <2>1, OpMoves, WorkIsOver, WorkOfOne, Uncounted
  <1>4. CASE capture_release(t)
    <2>1. /\ op[t].pc \in LockedPcs /\ op' = [op EXCEPT ![t] = Idle]
          /\ svc' = svc /\ live' = live /\ touched' = touched
      BY <1>4 DEF capture_release, LockedPcs, CapturePcs, ctlVars
    <2> QED
      BY <1>0, <2>1, OpMoves, WorkIsOver, WorkOfOne, Uncounted
  <1> QED
    BY <1>1, <1>2, <1>3, <1>4

\* A section of a setter, of the thread that replays or of another.
LEMMA ReplayWorkSection ==
  ASSUME IInv, ReplayWorkInv, NEW t \in Threads, control_section(t)
  PROVE  ReplayWorkInv'
  <1> USE DEF ReplayWorkInv
  <1>0. /\ TypeOK /\ MutexInv /\ ControlInv
        /\ live \in [Items -> Values] /\ call[t].item \in Items
    BY DEF IInv, TypeOK, ControlInv, ControlTypeOK, Calls
  <1>1. /\ Section(t)
        /\ svc' = svc /\ op' = op /\ snap' = snap /\ todo' = todo
        /\ touched' = IF op[t].pc = "setting" THEN touched
                      ELSE touched \cup {i \in Items : live'[i] # live[i]}
    BY DEF control_section
  <1>2. CountInv' /\ AppliedIsAPrefix'
    BY <1>1 DEF CountInv, AppliedIsAPrefix, ItemsIn, StateItems
  <1>3. \A u \in Threads : WorkOf(u)'
    BY <1>1 DEF WorkOf, ItemsIn, StateItems
  <1>4. CASE op[t].pc = "setting"
    <2> DEFINE i == call[t].item
    <2>1. /\ todo = ItemsIn("pending") /\ svc.saved = snap
          /\ i \in todo /\ call[t].val = snap[i]
          /\ \A j \in todo : Rank(i, snap[i]) <= Rank(j, snap[j])
          /\ call[t].pc = "vdd_off" => i \in touched \/ live[i] = snap[i]
      BY <1>4 DEF WorkOf, SettingOf
    <2>2. SettingOf(t)'
      <3>1. /\ call'[t].item = i /\ call'[t].val = call[t].val
            /\ call'[t].pc \notin {"idle", "vin_store"}
        BY <1>0, <1>1, SectionWrites
      <3>2. call'[t].pc = "vdd_off" \/ (call'[t].pc = "done" /\ call'[t].ok) =>
              \/ live'[i] = call[t].val
              \/ call[t].pc = "vdd_off" /\ live'[i] = live[i]
        BY <1>0, <1>1, SectionWrites
      <3>3. touched' = touched /\ todo' = todo /\ snap' = snap
        BY <1>1, <1>4
      <3>4. i \in todo' /\ \A j \in todo' : Rank(i, snap'[i]) <= Rank(j, snap'[j])
        BY <2>1, <3>3
      <3>5. call'[t].pc = "vdd_off" \/ (call'[t].pc = "done" /\ call'[t].ok) =>
              i \in touched' \/ live'[i] = snap'[i]
        BY <2>1, <3>2, <3>3
      <3> HIDE DEF i
      <3> QED
        BY <2>1, <3>1, <3>3, <3>4, <3>5 DEF SettingOf
    <2>3. \A u \in Threads : SettingOf(u)'
      <3> SUFFICES ASSUME NEW u \in Threads, u # t PROVE SettingOf(u)'
        BY <2>2
      <3>1. op[u].pc # "setting"
        BY <1>0, <1>4, Alone DEF LockedPcs, CapturePcs, FlashPcs
      <3> QED
        BY <1>1, <3>1 DEF SettingOf
    <2>4. CurrentInv'
      <3> SUFFICES ASSUME NEW j \in Items, svc.state[j] = "applied", j \notin touched
                   PROVE  live'[j] = svc.saved[j]
        BY <1>1, <1>4 DEF CurrentInv
      <3>1. live[j] = svc.saved[j]
        BY DEF CurrentInv
      <3>2. j # i /\ svc.state[i] = "pending"
        BY <2>1 DEF ItemsIn, StateItems
      <3>3. i = "usb" => j # "vdd_5v"
        <4> SUFFICES ASSUME i = "usb", j = "vdd_5v" PROVE FALSE
          OBVIOUS
        <4>1. Rank(j, svc.saved[j]) < Rank(i, svc.saved[i])
          BY <1>0, <3>2 DEF AppliedIsAPrefix
        <4>2. Rank(i, svc.saved[i]) < Rank(j, svc.saved[j])
          BY UsbBeforeRail
        <4> QED
          BY <1>0, <4>1, <4>2, RankTyped
      <3>4. live'[j] = live[j]
        BY <1>0, <1>1, <3>2, <3>3, SectionWrites
      <3> QED
        BY <3>1, <3>4
    <2> QED
      BY <1>2, <1>3, <2>3, <2>4
  <1>5. CASE op[t].pc # "setting"
    <2>1. \A i \in Items : live'[i] = live[i] \/ i \in touched'
      BY <1>1, <1>5
    <2>2. touched \subseteq touched'
      BY <1>1, <1>5
    <2>3. CurrentInv'
      BY <1>1, <2>1, <2>2 DEF CurrentInv
    <2>4. \A u \in Threads : SettingOf(u)'
      <3> SUFFICES ASSUME NEW u \in Threads, op[u].pc = "setting" PROVE SettingOf(u)'
        BY <1>1 DEF SettingOf
      <3>1. u # t /\ call'[u] = call[u]
        BY <1>0, <1>1, <1>5, SectionWrites
      <3>2. call[u].item \in Items
        BY <1>0 DEF TypeOK, ControlTypeOK, Calls
      <3> QED
        BY <1>1, <2>1, <2>2, <3>1, <3>2 DEF SettingOf
    <2> QED
      BY <1>2, <1>3, <2>3, <2>4
  <1> QED
    BY <1>4, <1>5

\* A step of one thread outside a replay, to where little is asked of it.
LEMMA WorkOfRest ==
  ASSUME ReplayWorkInv, NEW t \in Threads,
         svc' = svc, live' = live, touched' = touched, snap' = snap, todo' = todo,
         \A u \in Threads : u # t => op'[u] = op[u] /\ call'[u] = call[u],
         WorkOf(t)', SettingOf(t)'
  PROVE  ReplayWorkInv'
  <1>1. \A u \in Threads : u # t => WorkOf(u)' /\ SettingOf(u)'
    BY DEF ReplayWorkInv, WorkOf, SettingOf, ItemsIn, StateItems
  <1>2. CountInv' /\ AppliedIsAPrefix' /\ CurrentInv'
    BY Uncounted DEF ReplayWorkInv
  <1> QED
    BY <1>1, <1>2 DEF ReplayWorkInv

\* Boot, the clients' calls, the other owners and a crash.
LEMMA ReplayWorkNext ==
  ASSUME IInv, ReplayWorkInv, [Next]_vars
  PROVE  ReplayWorkInv'
  <1> USE DEF ReplayWorkInv
  <1>0. /\ TypeOK /\ MutexInv /\ op \in [Threads -> Ops] /\ call \in [Threads -> Calls]
        /\ Main \in Threads
    BY ServiceAssumption DEF IInv, TypeOK, ControlTypeOK
  <1>1. ASSUME /\ svc' = svc /\ live' = live /\ touched' = touched /\ snap' = snap
               /\ todo' = todo /\ op' = op /\ call' = call
        PROVE  ReplayWorkInv'
    <2>1. \A u \in Threads : WorkOf(u)' /\ SettingOf(u)'
      BY <1>1 DEF WorkOf, SettingOf, ItemsIn, StateItems
    <2> QED
      BY <1>1, <2>1, Uncounted
  <1>2. CASE store_init
    <2>1. /\ Goes(Main, "service_init") /\ op[Main].pc = "store_init"
          /\ svc' = svc /\ live' = live /\ touched' = touched /\ snap' = snap
          /\ todo' = todo /\ call' = call
      BY <1>2 DEF store_init, ctlVars
    <2>2. /\ op'[Main].pc = "service_init" /\ op'[Main].kind = op[Main].kind
          /\ \A u \in Threads : u # Main => op'[u] = op[u]
      BY <1>0, <2>1, OpMoves
    <2>3. op[Main].kind = "boot"
      BY <1>0, <2>1 DEF WorkOf
    <2>4. WorkOf(Main)' /\ SettingOf(Main)'
      BY <2>2, <2>3 DEF WorkOf, SettingOf
    <2> QED
      BY <1>0, <2>1, <2>2, <2>4, WorkOfRest
  <1>3. CASE service_init
    <2>1. \A u \in Threads : op[u].pc \notin LockedPcs
      BY <1>0, <1>3, ServiceAssumption DEF service_init, MutexInv
    <2>2. /\ live' = live /\ touched' = touched
          /\ \/ /\ svc' = sync_saved(store.snap, "ready", "pending")
                /\ snap' = store.snap /\ Goes(Main, "acquire")
             \/ /\ svc' = sync_saved(EmptySnap, store.reason, "not_saved")
                /\ op' = [op EXCEPT ![Main] = Idle]
      BY <1>3 DEF service_init, ctlVars
    <2>3. \A u \in Threads : u # Main => op'[u] = op[u]
      BY <1>0, <2>2, OpMoves
    <2>4. \A u \in Threads : u # Main => WorkOf(u)' /\ SettingOf(u)'
      <3> SUFFICES ASSUME NEW u \in Threads, u # Main PROVE WorkOf(u)' /\ SettingOf(u)'
        OBVIOUS
      <3>1. op'[u] = op[u] /\ op[u].pc \notin LockedPcs
        BY <2>1, <2>3
      <3>2. WorkOf(u)
        OBVIOUS
      <3> QED
        BY <3>1, <3>2 DEF WorkOf, SettingOf, LockedPcs, CapturePcs, FlashPcs
    <2>5. CASE /\ svc' = sync_saved(store.snap, "ready", "pending")
               /\ snap' = store.snap /\ Goes(Main, "acquire")
      <3>1. store.snap \in Snapshots
        BY <1>0 DEF TypeOK, Stores
      <3>2. /\ CountInv' /\ AppliedIsAPrefix' /\ CurrentInv'
            /\ svc'.saved = snap'
            /\ ItemsIn("applied")' = {} /\ ItemsIn("failed")' = {}
        BY <2>5, <3>1, SyncCounts
      <3>3. op'[Main].pc = "acquire" /\ op'[Main].kind = op[Main].kind
        BY <1>0, <2>5, OpMoves
      <3>4. op[Main].kind \in {"save", "clear", "boot"}
        BY <1>0, <1>3 DEF service_init, WorkOf
      <3>5. WorkOf(Main)' /\ SettingOf(Main)'
        BY <3>2, <3>3, <3>4 DEF WorkOf, SettingOf
      <3> QED
        BY <2>4, <3>2, <3>5
    <2>6. CASE /\ svc' = sync_saved(EmptySnap, store.reason, "not_saved")
               /\ op' = [op EXCEPT ![Main] = Idle]
      <3>1. Listed(EmptySnap) = {}
        BY DEF Listed, EmptySnap
      <3>2. CountInv' /\ AppliedIsAPrefix' /\ CurrentInv'
        BY <2>6, <3>1, SyncCounts, Initials
      <3>3. WorkOf(Main)' /\ SettingOf(Main)'
        BY <1>0, <2>6, OpMoves, WorkIsOver
      <3> QED
        BY <2>4, <3>2, <3>3
    <2> QED
      BY <2>2, <2>5, <2>6
  <1>4. ASSUME NEW t \in Threads, ServiceStep(t) PROVE ReplayWorkInv'
    BY <1>4, ReplayWorkStore, ReplayWorkReplay DEF ServiceStep
  <1>5. ASSUME NEW t \in Threads, control_section(t) PROVE ReplayWorkInv'
    BY <1>5, ReplayWorkSection
  <1>6. ASSUME NEW t \in Threads, save_request(t) \/ clear_request(t)
        PROVE  ReplayWorkInv'
    <2>1. /\ svc' = svc /\ live' = live /\ touched' = touched /\ snap' = snap
          /\ todo' = todo /\ call' = call
          /\ op'[t].pc = "wait" /\ op'[t].kind \in {"save", "clear"}
          /\ \A u \in Threads : u # t => op'[u] = op[u]
      <3>1. CASE save_request(t)
        BY <1>0, <3>1 DEF save_request, ctlVars
      <3>2. CASE clear_request(t)
        BY <1>0, <3>2 DEF clear_request, ctlVars, Idle
      <3> QED
        BY <1>6, <3>1, <3>2
    <2>2. WorkOf(t)' /\ SettingOf(t)'
      BY <2>1 DEF WorkOf, SettingOf
    <2> QED
      BY <2>1, <2>2, WorkOfRest
  <1>7. ASSUME NEW t \in Threads, service_lock(t) PROVE ReplayWorkInv'
    <2>1. /\ svc' = svc /\ live' = live /\ touched' = touched /\ snap' = snap
          /\ todo' = todo /\ call' = call /\ Goes(t, "acquire") /\ op[t].pc = "wait"
      BY <1>7 DEF service_lock, ctlVars
    <2>2. /\ op'[t].pc = "acquire" /\ op'[t].kind = op[t].kind
          /\ \A u \in Threads : u # t => op'[u] = op[u]
      BY <1>0, <2>1, OpMoves
    <2>3. op[t].kind \in {"save", "clear"}
      BY <2>1 DEF WorkOf
    <2>4. WorkOf(t)' /\ SettingOf(t)'
      BY <2>2, <2>3 DEF WorkOf, SettingOf
    <2> QED
      BY <2>1, <2>2, <2>4, WorkOfRest
  <1>8. ASSUME NEW t \in Threads, client_call(t) \/ client_return(t)
        PROVE  ReplayWorkInv'
    <2>1. /\ svc' = svc /\ live' = live /\ touched' = touched /\ snap' = snap
          /\ todo' = todo /\ op' = op /\ op[t].pc = "idle"
          /\ \A u \in Threads : u # t => call'[u] = call[u]
      BY <1>0, <1>8 DEF client_call, client_return, svcVars, BeginSet, EndSet, vin_route_read
    <2>2. WorkOf(t)' /\ SettingOf(t)'
      BY <2>1, WorkIsOver
    <2> QED
      BY <2>1, <2>2, WorkOfRest
  <1>9. CASE crash
    <2>1. /\ svc' = StatusReset
          /\ \A u \in Threads : \/ op'[u].pc = "idle"
                                \/ op'[u].pc = "store_init" /\ op'[u].kind = "boot"
      BY <1>9 DEF crash, Idle, Boot
    <2>2. \A u \in Threads : WorkOf(u)' /\ SettingOf(u)'
      BY <2>1 DEF WorkOf, SettingOf
    <2>3. \A a \in {"applied", "pending", "failed"} : ItemsIn(a)' = {}
      BY <2>1 DEF ItemsIn, StateItems, StatusReset
    <2>4. CountInv'
      BY <2>1, <2>3, NoneIn DEF CountInv, StatusReset, EmptySnap
    <2>5. AppliedIsAPrefix' /\ CurrentInv'
      BY <2>3 DEF AppliedIsAPrefix, CurrentInv, ItemsIn, StateItems
    <2> QED
      BY <2>2, <2>4, <2>5
  <1> QED
    BY <1>1, <1>2, <1>3, <1>4, <1>5, <1>6, <1>7, <1>8, <1>9 DEF Next, Clients, vars,
       svcVars, ctlVars, capture_taken, capture_returned, flash_taken, flash_returned
\* Before the boot nothing is saved, counted or replayed.
LEMMA InitReplayWork == Init => ReplayWorkInv
  <1> SUFFICES ASSUME Init PROVE ReplayWorkInv
    OBVIOUS
  <1>1. \A t \in Threads : \/ op[t].pc = "idle"
                           \/ op[t].pc = "store_init" /\ op[t].kind = "boot"
    BY DEF Init, Idle, Boot
  <1>2. \A t \in Threads : WorkOf(t) /\ SettingOf(t)
    BY <1>1 DEF WorkOf, SettingOf
  <1>3. \A a \in {"applied", "pending", "failed"} : ItemsIn(a) = {}
    BY DEF Init, ItemsIn, StateItems, StatusReset
  <1>4. CountInv
    BY <1>3, NoneIn DEF Init, CountInv, StatusReset, EmptySnap
  <1>5. AppliedIsAPrefix /\ CurrentInv
    BY <1>3 DEF AppliedIsAPrefix, CurrentInv, ItemsIn, StateItems
  <1> QED
    BY <1>2, <1>4, <1>5 DEF ReplayWorkInv

\* Whatever a replay meets (a missing or failing device, setters of other
\* threads between its sections, a reset), its counters are the numbers of the
\* items in each state, what it applied comes before what it did not reach, and
\* what it applied is on the hardware unless somebody changed it since
\* (linkr_debugger_config_replay_execute).
THEOREM ReplayStaysExact == Spec => []ReplayIsExact
  <1>1. IInv /\ ReplayWorkInv /\ [Next]_vars => (IInv /\ ReplayWorkInv)'
    BY NextIInv, ReplayWorkNext
  <1>2. ReplayWorkInv => ReplayIsExact
    <2> SUFFICES ASSUME ReplayWorkInv PROVE ReplayIsExact
      OBVIOUS
    <2>1. CountersMatchItems
      BY DEF ReplayWorkInv, CountInv, CountersMatchItems, ItemsIn, StateItems, Listed
    <2>2. AppliedIsAPrefix /\ AppliedIsCurrent
      BY DEF ReplayWorkInv, CurrentInv, AppliedIsCurrent
    <2> QED
      BY <2>1, <2>2 DEF ReplayIsExact
  <1> QED
    BY <1>1, <1>2, InitIInv, InitReplayWork, PTL DEF Spec

-----------------------------------------------------------------------------
(* The service implements PersistentConfig.                                *)

\* Its initial states are initial states of the abstract specification.
LEMMA InitAbstract == Init => Abstract!AbstractInit
  <1> SUFFICES ASSUME Init PROVE Abstract!AbstractInit
    OBVIOUS
  <1>1. live \in [Items -> Values]
    BY InitIInv DEF IInv, TypeOK, ControlTypeOK
  <1>2. \A t \in Threads : op[t].pc # "store"
    BY DEF Init, Idle, Boot
  <1>3. Captured = Abstract!Nothing
    BY <1>2 DEF Captured, Abstract!Nothing, EmptySnap
  <1> QED
    BY <1>1, <1>3 DEF Init, Abstract!AbstractInit

\* A step that moves no operation into or out of the store, of a snapshot
\* that stays, leaves what is captured as it is.
LEMMA CaptureStays ==
  ASSUME \A t \in Threads : op'[t].pc = "store" <=> op[t].pc = "store",
         snap' = snap \/ \A t \in Threads : op[t].pc # "store"
  PROVE  Captured' = Captured
  <1> DEFINE saving == {t \in Threads : op[t].pc = "store"}
  <1>1. saving' = saving
    OBVIOUS
  <1>2. saving = {} \/ snap' = snap
    OBVIOUS
  <1> QED
    BY <1>1, <1>2 DEF Captured, EmptySnap

\* Every step is one of the abstract specification, or changes nothing of it.
LEMMA StepAbstract ==
  ASSUME IInv, IInv', [Next]_vars
  PROVE  [Abstract!AbstractNext]_(Abstract!abstractVars)
  <1>0. /\ TypeOK /\ MutexInv
        /\ live' \in [Items -> Values]
    BY DEF IInv, TypeOK, ControlTypeOK
  <1> USE DEF Abstract!AbstractNext, Abstract!abstractVars
  <1>1. ASSUME flash' = flash, Captured' = Captured
        PROVE  [Abstract!AbstractNext]_(Abstract!abstractVars)
    BY <1>0, <1>1 DEF Abstract!Hardware
  <1>2. ASSUME flash' = flash, Captured' = Abstract!Nothing
        PROVE  [Abstract!AbstractNext]_(Abstract!abstractVars)
    BY <1>0, <1>2 DEF Abstract!Hardware
  <1>3. CASE crash
    <2>1. \A t \in Threads : op'[t].pc # "store"
      BY <1>3 DEF crash, Idle, Boot
    <2>2. Captured' = Abstract!Nothing
      BY <2>1 DEF Captured, Abstract!Nothing, EmptySnap
    <2> QED
      BY <1>2, <1>3, <2>2 DEF crash
  <1>4. ASSUME NEW t \in Threads, capture(t)
        PROVE  [Abstract!AbstractNext]_(Abstract!abstractVars)
    <2> DEFINE s == [i \in Items |-> IF i \in op[t].sel THEN live[i] ELSE "none"]
    <2>1. op[t].pc = "capture" /\ flash' = flash /\ live' = live
      BY <1>4 DEF capture, ctlVars
    <2>2. \A u \in Threads : u # t => op[u].pc # "store" /\ op'[u].pc # "store"
      BY <1>0, <1>4, <2>1, Alone, OpMoves DEF capture, LockedPcs, CapturePcs, FlashPcs
    <2>3. CASE \E r : Fails(t, r)
      <3>1. op'[t].pc # "store"
        BY <1>0, <2>3, OpMoves
      <3>2. Captured' = Captured
        BY <2>1, <2>2, <3>1, CaptureStays
      <3> QED
        BY <1>1, <2>1, <3>2
    <2>4. CASE snap' = s /\ Goes(t, "store") /\ (Dangerous(s) # {} => op[t].conf)
      <3>1. op'[t].pc = "store"
        BY <1>0, <2>4, OpMoves
      <3>2. Captured' = [some |-> TRUE, snap |-> s]
        <4>1. {u \in Threads : op'[u].pc = "store"} # {}
          BY <3>1
        <4> QED
          BY <2>4, <4>1 DEF Captured
      <3>3. op[t].sel \in SUBSET Items /\ op[t].conf \in BOOLEAN
        BY <1>0 DEF TypeOK, Ops
      <3>4. Abstract!Capture
        BY <2>1, <2>4, <3>2, <3>3 DEF Abstract!Capture
      <3> QED
        BY <3>4
    <2> QED
      BY <1>4, <2>3, <2>4 DEF capture
  <1>5. ASSUME NEW t \in Threads, store_save(t)
        PROVE  [Abstract!AbstractNext]_(Abstract!abstractVars)
    <2>1. op[t].pc = "store" /\ live' = live
      BY <1>5 DEF store_save, ctlVars
    <2>2. \A u \in Threads : op'[u].pc # "store"
      <3>1. Goes(t, "replay") \/ \E r : Fails(t, r)
        BY <1>5 DEF store_save
      <3>2. op'[t].pc # "store" /\ \A u \in Threads : u # t => op'[u] = op[u]
        BY <1>0, <3>1, OpMoves
      <3> QED
        BY <1>0, <2>1, <3>2, Alone DEF LockedPcs, CapturePcs, FlashPcs
    <2>3. Captured' = Abstract!Nothing
      BY <2>2 DEF Captured, Abstract!Nothing, EmptySnap
    <2>4. Captured = [some |-> TRUE, snap |-> snap]
      <3>1. {u \in Threads : op[u].pc = "store"} # {}
        BY <2>1
      <3> QED
        BY <3>1 DEF Captured
    <2>5. CASE flash' = [kind |-> "valid", snap |-> snap]
      BY <2>1, <2>3, <2>4, <2>5 DEF Abstract!Commit
    <2>6. CASE flash' = flash
      BY <1>2, <2>3, <2>6
    <2> QED
      BY <1>5, <2>5, <2>6 DEF store_save
  <1>6. ASSUME NEW t \in Threads, store_clear(t)
        PROVE  [Abstract!AbstractNext]_(Abstract!abstractVars)
    <2>1. op[t].pc = "delete" /\ live' = live /\ snap' = snap
      BY <1>6 DEF store_clear, ctlVars
    <2>2. Goes(t, "release_flash") \/ \E r : Fails(t, r)
      BY <1>6 DEF store_clear
    <2>3. op'[t].pc # "store" /\ \A u \in Threads : u # t => op'[u] = op[u]
      BY <1>0, <2>2, OpMoves
    <2>4. Captured' = Captured
      BY <2>1, <2>3, CaptureStays
    <2>5. CASE flash' = [kind |-> "absent", snap |-> EmptySnap]
      BY <2>1, <2>4, <2>5 DEF Abstract!Clear, EmptySnap
    <2>6. CASE flash' = flash
      BY <1>1, <2>4, <2>6
    <2> QED
      BY <1>6, <2>5, <2>6 DEF store_clear
  <1>7. ASSUME NEW t \in Threads,
               \/ capture_try_acquire(t) \/ flash_try_acquire(t) \/ replay_entry(t)
               \/ replay_result(t) \/ replay_end(t) \/ flash_release(t)
               \/ capture_release(t)
        PROVE  [Abstract!AbstractNext]_(Abstract!abstractVars)
    <2>1. /\ flash' = flash /\ op[t].pc \in LockedPcs /\ op[t].pc # "store"
      BY <1>7 DEF capture_try_acquire, flash_try_acquire, replay_entry, replay_result,
         replay_end, flash_release, capture_release, LockedPcs, CapturePcs, FlashPcs
    <2>2. \/ \E p \in {"acquire_flash", "capture", "delete", "replay", "setting",
                       "release_flash", "release_capture"} : Goes(t, p)
          \/ \E r : Fails(t, r)
          \/ op' = [op EXCEPT ![t] = Idle]
      <3>1. CASE flash_try_acquire(t)
        <4>1. \/ op[t].kind = "save" \/ op[t].kind = "clear"
              \/ op[t].kind \notin {"save", "clear"}
          OBVIOUS
        <4> QED
          BY <3>1, <4>1 DEF flash_try_acquire
      <3> QED
        BY <1>7, <3>1 DEF capture_try_acquire, replay_entry, replay_result,
           replay_end, flash_release, capture_release
    <2>3. op'[t].pc # "store" /\ \A u \in Threads : u # t => op'[u] = op[u]
      BY <1>0, <2>2, OpMoves
    <2>4. \A u \in Threads : op[u].pc # "store"
      BY <1>0, <2>1, Alone DEF LockedPcs, CapturePcs, FlashPcs
    <2>5. Captured' = Captured
      BY <2>3, <2>4, CaptureStays
    <2> QED
      BY <1>1, <2>1, <2>5
  <1>8. CASE store_init \/ service_init
    <2>1. Main \in Threads
      BY ServiceAssumption
    <2>2. \/ Goes(Main, "service_init") \/ Goes(Main, "acquire")
          \/ op' = [op EXCEPT ![Main] = Idle]
      BY <1>8 DEF store_init, service_init
    <2>3. op[Main].pc # "store" /\ flash' = flash
      BY <1>8 DEF store_init, service_init
    <2>4. op'[Main].pc # "store" /\ \A u \in Threads : u # Main => op'[u] = op[u]
      BY <1>0, <2>1, <2>2, OpMoves
    <2>5. snap' = snap \/ \A u \in Threads : op[u].pc # "store"
      BY <1>0, <1>8, ServiceAssumption DEF store_init, service_init, MutexInv, LockedPcs,
         CapturePcs, FlashPcs
    <2>6. Captured' = Captured
      BY <2>3, <2>4, <2>5, CaptureStays
    <2> QED
      BY <1>1, <2>3, <2>6
  <1>9. ASSUME NEW t \in Threads, save_request(t) \/ clear_request(t) \/ service_lock(t)
        PROVE  [Abstract!AbstractNext]_(Abstract!abstractVars)
    <2>1. flash' = flash /\ snap' = snap /\ op[t].pc # "store"
      BY <1>9 DEF save_request, clear_request, service_lock
    <2>2. op'[t].pc # "store" /\ \A u \in Threads : u # t => op'[u] = op[u]
      <3>1. CASE save_request(t)
        BY <1>0, <3>1 DEF save_request, TypeOK
      <3>2. CASE clear_request(t)
        BY <1>0, <3>2 DEF clear_request, Idle, TypeOK
      <3>3. CASE service_lock(t)
        BY <1>0, <3>3, OpMoves DEF service_lock
      <3> QED
        BY <1>9, <3>1, <3>2, <3>3
    <2>3. Captured' = Captured
      BY <2>1, <2>2, CaptureStays
    <2> QED
      BY <1>1, <2>1, <2>3
  <1>10. ASSUME flash' = flash, op' = op, snap' = snap
         PROVE  [Abstract!AbstractNext]_(Abstract!abstractVars)
    <2>1. Captured' = Captured
      BY <1>10, CaptureStays
    <2> QED
      BY <1>1, <1>10, <2>1
  <1> QED
    BY <1>3, <1>4, <1>5, <1>6, <1>7, <1>8, <1>9, <1>10 DEF Next, ServiceStep, Clients,
       vars, svcVars, control_section, client_call, client_return, capture_taken,
       capture_returned, flash_taken, flash_returned

\* Through every interleaving of saves, clears, setters, owners, failed writes
\* and resets, what is stored changes only by storing a snapshot captured at
\* one moment, confirmed if dangerous, or by a clear: the service implements
\* PersistentConfig.
THEOREM ServiceImplementsPersistentConfig == Spec => ImplementsPersistentConfig
  <1>1. IInv /\ IInv' /\ [Next]_vars => [Abstract!AbstractNext]_(Abstract!abstractVars)
    BY StepAbstract
  <1> QED
    BY <1>1, InitAbstract, Invariant, PTL DEF Spec, ImplementsPersistentConfig,
       Abstract!AbstractSpec
=============================================================================
