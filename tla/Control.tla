------------------------------ MODULE Control ------------------------------
(***************************************************************************)
(* Live hardware control of the debugger board: power rails, route         *)
(* switches and safe GPIOs (linkr_debugger_control.c), set concurrently by *)
(* the HTTP server thread, one thread per WebSocket client, the CDC shell  *)
(* and the replay of a saved configuration.                                *)
(*                                                                         *)
(* Every setter is a sequence of sections of linkr_debugger_control_lock;  *)
(* one section is one step here.  All of them are a single section except  *)
(*   - usb_route_set, which powers the hub rail and moves the mux in two   *)
(*     sections, and                                                       *)
(*   - vin_route_get, which reads the regulator outside the lock and then  *)
(*     stores what it read in a section of its own.                        *)
(*                                                                         *)
(* live[i] is the firmware's record of item i.  For every item but "vin"   *)
(* it is written together with the pin; the voltage the VIO regulator      *)
(* really drives is kept apart, in vio.                                    *)
(***************************************************************************)
EXTENDS Integers, FiniteSets

CONSTANTS
  Items,    \* the catalog items of this instance
  Threads,  \* the threads that call setters
  Faulty,   \* the items whose hardware access may fail
  Missing   \* the items whose device is not ready

\* The catalog (linkr_debugger_config_items) by domain.
Power  == {"12v_out", "5v_out", "vdd_5v", "20v_out"}
Switch == {"sd", "usb", "tf_wp", "vin"}
GpioOrder == <<"GP7", "GP8", "GP9", "GP10", "GP11", "GP12", "GP13", "GP14",
               "GP15", "GP16", "GP17", "GP18", "GP19", "GP20", "GP29">>
Gpio   == {GpioOrder[n] : n \in 1..15}

ASSUME ItemsAssumption ==
  /\ Items \subseteq Power \cup Switch \cup Gpio
  /\ {"usb", "vdd_5v", "vin"} \subseteq Items
  /\ Faulty \subseteq Items
  /\ Missing \subseteq Items

\* The values of an item.  A GPIO's value byte holds a direction and, for an
\* output only, a level.
ValuesOf(i) ==
  CASE i \in Power  -> {"off", "on"}
    [] i = "sd"     -> {"target", "usb-reader"}
    [] i = "usb"    -> {"target", "pc"}
    [] i = "tf_wp"  -> {"writable", "protected"}
    [] i = "vin"    -> {"3.3v", "1.8v"}
    [] OTHER        -> {"in", "low", "high"}

Values == UNION {ValuesOf(i) : i \in Items}

VARIABLES
  live,  \* [Items -> Values]: regulator_states, the four routes, the GPIOs
  vio,   \* the voltage the VIO regulator drives
  call   \* [Threads -> call record]: the setter each thread is executing

ctlVars == <<live, vio, call>>

Calls == [pc   : {"idle", "set", "vdd_on", "mux", "vdd_off", "vin_store",
                  "done"},
          item : Items,
          val  : Values,
          ok   : BOOLEAN]

NoCall == [pc |-> "idle", item |-> "usb", val |-> "target", ok |-> TRUE]

\* control_init: rails off, routes at their defaults, GPIOs inputs.
Default(i) ==
  CASE i \in Power -> "off"
    [] i = "tf_wp" -> "writable"
    [] i = "vin"   -> "3.3v"
    [] i \in Gpio  -> "in"
    [] OTHER       -> "target"

ControlTypeOK ==
  /\ live \in [Items -> Values]
  /\ \A i \in Items : live[i] \in ValuesOf(i)
  /\ vio \in ValuesOf("vin")
  /\ call \in [Threads -> Calls]
  /\ \A t \in Threads : call[t].val \in ValuesOf(call[t].item)

\* Which calls are in which section: the first two sections of usb_route_set
\* belong to one route each.
CallShape ==
  \A t \in Threads :
    /\ call[t].pc \in {"vdd_on", "mux", "vdd_off"} => call[t].item = "usb"
    /\ call[t].pc = "vdd_on" => call[t].val = "pc"
    /\ call[t].pc = "vdd_off" => call[t].val = "target"
    /\ call[t].pc = "vin_store" => call[t].item = "vin"
    /\ call[t].pc = "set" => call[t].item # "usb"

ControlInv == ControlTypeOK /\ CallShape

\* What a setter that runs alone relies on between its sections: the hub rail
\* stays on from the first section of usb_route_set to the mux, and the
\* record of VIN is the regulator's.
AloneInv ==
  /\ \A t \in Threads :
       /\ call[t].pc = "mux" /\ call[t].val = "pc" => live["vdd_5v"] = "on"
       /\ call[t].pc = "done" /\ call[t].item = "usb" /\ call[t].ok =>
            live["vdd_5v"] = (IF call[t].val = "pc" THEN "on" ELSE "off")
       /\ call[t].pc = "vin_store" => call[t].val = vio
  /\ live["vin"] = vio

ControlInit ==
  /\ live = [i \in Items |-> Default(i)]
  /\ vio = "3.3v"
  /\ call = [t \in Threads |-> NoCall]

-----------------------------------------------------------------------------
(* Calls.  Goto leaves the other threads' calls alone.                     *)

Goto(t, p) == call' = [call EXCEPT ![t].pc = p]

Return(t, good) == call' = [call EXCEPT ![t].pc = "done", ![t].ok = good]

\* Mutant of Entry: usb_route_set no longer powers the hub before the mux.
EntryMuxFirst(i, v) == IF i = "usb" THEN "mux" ELSE "set"

\* The first section a call to item i's setter executes.
Entry(i, v) ==
  IF i = "usb" THEN (IF v = "pc" THEN "vdd_on" ELSE "mux") ELSE "set"

\* A thread calls the setter of item i: a device that is not ready is
\* refused before any section runs.
BeginSet(t, i, v) ==
  /\ call[t].pc = "idle"
  /\ call' = [call EXCEPT ![t] =
                IF i \in Missing
                THEN [pc |-> "done", item |-> i, val |-> v, ok |-> FALSE]
                ELSE [pc |-> Entry(i, v), item |-> i, val |-> v, ok |-> TRUE]]
  /\ UNCHANGED <<live, vio>>

\* The caller takes the result and is free again.
EndSet(t) ==
  /\ call[t].pc = "done"
  /\ call' = [call EXCEPT ![t] = NoCall]
  /\ UNCHANGED <<live, vio>>

-----------------------------------------------------------------------------
(* The sections.                                                           *)

\* linkr_debugger_power_output_set: nothing to do when the rail already has
\* the state; otherwise the regulator is driven and the state recorded.
power_output_set(t, i, v, next) ==
  \/ /\ live[i] = v
     /\ next
     /\ UNCHANGED <<live, vio>>
  \/ /\ live[i] # v
     /\ live' = [live EXCEPT ![i] = v]
     /\ next
     /\ UNCHANGED vio
  \/ /\ live[i] # v
     /\ i \in Faulty
     /\ Return(t, FALSE)
     /\ UNCHANGED <<live, vio>>

\* sd_route_set, tf_wp_route_set, gpio_set_input and gpio_set_output: the pin
\* is written whatever the recorded value is.
pin_set(t) ==
  \/ /\ live' = [live EXCEPT ![call[t].item] = call[t].val]
     /\ Return(t, TRUE)
     /\ UNCHANGED vio
  \/ /\ call[t].item \in Faulty
     /\ Return(t, FALSE)
     /\ UNCHANGED <<live, vio>>

\* Mutant of vin_route_set: the record is not updated with the regulator.
vin_route_set_unrecorded(t) ==
  \/ /\ live["vin"] = call[t].val
     /\ Return(t, TRUE)
     /\ UNCHANGED <<live, vio>>
  \/ /\ live["vin"] # call[t].val
     /\ vio' = call[t].val
     /\ Return(t, TRUE)
     /\ UNCHANGED live

\* linkr_debugger_vin_route_set: compared with the record, not the regulator.
vin_route_set(t) ==
  \/ /\ live["vin"] = call[t].val
     /\ Return(t, TRUE)
     /\ UNCHANGED <<live, vio>>
  \/ /\ live["vin"] # call[t].val
     /\ vio' = call[t].val
     /\ live' = [live EXCEPT !["vin"] = call[t].val]
     /\ Return(t, TRUE)
  \/ /\ live["vin"] # call[t].val
     /\ "vin" \in Faulty
     /\ Return(t, FALSE)
     /\ UNCHANGED <<live, vio>>

\* The single section of every setter but usb_route_set.
SetSection(t) ==
  /\ call[t].pc = "set"
  /\ CASE call[t].item \in Power ->
            power_output_set(t, call[t].item, call[t].val, Return(t, TRUE))
       [] call[t].item = "vin" -> vin_route_set(t)
       [] OTHER -> pin_set(t)

\* linkr_debugger_usb_route_set(PC), first section: the hub rail goes live.
usb_vdd_on(t) ==
  /\ call[t].pc = "vdd_on"
  /\ power_output_set(t, "vdd_5v", "on", Goto(t, "mux"))

\* Mutant of usb_mux: the target route leaves the hub rail as it is.
usb_mux_keeps_rail(t) ==
  /\ call[t].pc = "mux"
  /\ live' = [live EXCEPT !["usb"] = call[t].val]
  /\ Return(t, TRUE)
  /\ UNCHANGED vio

\* linkr_debugger_usb_route_set, the section that moves the mux.
usb_mux(t) ==
  /\ call[t].pc = "mux"
  /\ \/ /\ live' = [live EXCEPT !["usb"] = call[t].val]
        /\ IF call[t].val = "pc" THEN Return(t, TRUE) ELSE Goto(t, "vdd_off")
     \/ /\ "usb" \in Faulty
        /\ Return(t, FALSE)
        /\ UNCHANGED live
  /\ UNCHANGED vio

\* Mutant of usb_vdd_off: the rail is handed the route instead of off.
usb_vdd_off_passes_route(t) ==
  /\ call[t].pc = "vdd_off"
  /\ power_output_set(t, "vdd_5v", call[t].val, Return(t, TRUE))

\* linkr_debugger_usb_route_set(TARGET), last section: the hub rail is cut.
usb_vdd_off(t) ==
  /\ call[t].pc = "vdd_off"
  /\ power_output_set(t, "vdd_5v", "off", Return(t, TRUE))

\* linkr_debugger_vin_route_get, up to the regulator read, which happens
\* outside the lock; a failed read changes nothing and is not a step.
vin_route_read(t) ==
  /\ "vin" \notin Missing
  /\ call[t].pc = "idle"
  /\ call' = [call EXCEPT ![t] = [pc |-> "vin_store", item |-> "vin",
                                  val |-> vio, ok |-> TRUE]]
  /\ UNCHANGED <<live, vio>>

\* linkr_debugger_vin_route_get, the section that records what was read.
vin_route_store(t) ==
  /\ call[t].pc = "vin_store"
  /\ live' = [live EXCEPT !["vin"] = call[t].val]
  /\ Return(t, TRUE)
  /\ UNCHANGED vio

Section(t) ==
  \/ SetSection(t)
  \/ usb_vdd_on(t)
  \/ usb_mux(t)
  \/ usb_vdd_off(t)
  \/ vin_route_store(t)

-----------------------------------------------------------------------------
ControlNext ==
  \E t \in Threads :
    \/ \E i \in Items : \E v \in ValuesOf(i) : BeginSet(t, i, v)
    \/ vin_route_read(t)
    \/ Section(t)
    \/ EndSet(t)

ControlSpec == ControlInit /\ [][ControlNext]_ctlVars

-----------------------------------------------------------------------------
(* Properties.                                                             *)

\* "The VDD_5V hub domain must be live before the mux attaches it": the step
\* of usb_route_set that moves the mux to pc finds the hub rail on.
MuxAttachesLiveHub ==
  [][ live["usb"] = "target" /\ live'["usb"] = "pc" => live["vdd_5v"] = "on"
    ]_ctlVars

\* A usb_route_set that returns success leaves the hub rail in the state its
\* route asks for, whatever was set by hand before: on for pc, off for
\* target.
HubFollowsRoute ==
  \A t \in Threads :
    call[t].pc = "done" /\ call[t].item = "usb" /\ call[t].ok =>
      live["vdd_5v"] = (IF call[t].val = "pc" THEN "on" ELSE "off")

\* The recorded VIN route, which a Save captures as the live value and
\* vin_route_set compares with, is what the VIO regulator drives whenever no
\* call is between its steps.
VinRecordCoherent ==
  (\A t \in Threads : call[t].pc \in {"idle", "done"}) => live["vin"] = vio

=============================================================================
