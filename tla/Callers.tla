------------------------------ MODULE Callers ------------------------------
(* The two programs that ask the thermometer: the command line tool         *)
(* (app/main.c), from its search of the busses to its exit, and the         *)
(* collector's Get_Environment (collector/usb.go) with the row it saves.    *)
(* They may run at the same time; the kernel queues their transfers.  Below *)
(* them is ControlTransfer, with the timeouts, and with the one thing a     *)
(* lost packet adds to it (AllOrNothing of UsbBus): a getEnv that ends      *)
(* without an error and without a byte.  Neither caller looks at the count. *)
EXTENDS UsbProtocol, Sequences

CONSTANTS
  Trees,        \* the busses a computer may have, each with its devices
  Rounds,       \* readings the tool takes; 1000 in the code
  MaxSample     \* bound: measurements the firmware takes

\* A device is another one, or a thermometer that usb_open opens or not.
Devices == {"other", "opens", "refuses"}

ASSUME TreesAssumption == Trees \subseteq Seq(Seq(Devices))
ASSUME RoundsAssumption == Rounds \in Nat \ {0}
ASSUME SampleNumbers == Samples = 1 .. MaxSample

VARIABLES
  stage, asked, pending, answer, result,        \* of ControlTransfer
  sample, led, ledon, configuration,            \* of ControlTransfer
  caller,       \* whose transfer is running, or "nobody"
  since,        \* history: the newest measurement when that call was made
  report,       \* the last reading each caller printed or saved
  pc, round,    \* where the tool is
  busses,       \* the busses it has not searched yet
  handle,       \* its usb_dev_handle, 0 for NULL
  opened,       \* the handles it has opened and not closed
  found,        \* history: the thermometers on the busses it has searched
  buffer,       \* the stack memory ue_get_environment's buffer lies in
  commanded     \* history: the LED as the tool set it, if nothing came between

Device == INSTANCE ControlTransfer

device == <<sample, led, ledon, configuration>>
transferVars ==
  <<stage, asked, pending, answer, result, device, caller, since>>
searchVars == <<busses, handle, opened, found>>
toolVars == <<pc, round, searchVars, buffer, commanded>>
vars == <<transferVars, report, toolVars>>

Programs == {"tool", "collector"}
Request(name, value, wLength) ==
  [name |-> name, value |-> value, wLength |-> wLength]

\* usb_control_msg as the tool calls it at each place.
ToolRequest ==
  [version |-> Request("getVersion", 0, 64),
   ledOff |-> Request("setLed", 0, 0),
   ledOn |-> Request("setLed", 1, 0),
   environment |-> Request("getEnv", 0, 64)]

Get_Environment == Request("getEnv", 0, 256)

Garbage == <<Word("garbage", 0)>>
NoReport == [words |-> << >>, outcome |-> "none", since |-> 0]

\* The thermometer is attached, enumerated and has measured.
Init ==
  /\ stage = "idle" /\ asked = NoRequest /\ pending = NoRequest
  /\ answer = NoReply /\ result = NoReply
  /\ sample = 1 /\ led = 0 /\ ledon = 0 /\ configuration = 1
  /\ caller = "nobody" /\ since = 0
  /\ report = [p \in Programs |-> NoReport]
  /\ pc = "search" /\ round = 0
  /\ busses \in Trees /\ handle = 0 /\ opened = {} /\ found = {}
  /\ buffer = Garbage
  /\ commanded = -1

-----------------------------------------------------------------------------
(* main(): the search *)

Thermometer(d) == d \in {"opens", "refuses"}

NoThermometer(bus) == \A i \in DOMAIN bus : ~Thermometer(bus[i])
FirstThermometer(bus, i) ==
  Thermometer(bus[i]) /\ \A j \in 1 .. i - 1 : ~Thermometer(bus[j])

Thermometers(bus, n) ==
  {[bus |-> n, at |-> i, device |-> bus[i]] :
     i \in {j \in DOMAIN bus : Thermometer(bus[j])}}

\* usb_open, whose failure leaves a NULL handle behind.
OpenThermometer(d) ==
  /\ handle' = IF d = "opens" THEN Len(busses) ELSE 0
  /\ opened' = IF d = "opens" THEN opened \cup {Len(busses)} ELSE opened

\* Faulty variant: every bus that has no thermometer forgets the handle.
SearchBusAnew ==
  LET bus == Head(busses) IN
  /\ found' = found \cup Thermometers(bus, Len(busses))
  /\ \/ NoThermometer(bus) /\ handle' = 0 /\ UNCHANGED opened
     \/ \E i \in DOMAIN bus : FirstThermometer(bus, i) /\ OpenThermometer(bus[i])

\* Whether or not the first thermometer of a bus can be opened, the break
\* leaves the loop over that bus's devices.  The loop over the busses goes
\* on, and the next thermometer overwrites the handle.
SearchBus ==
  LET bus == Head(busses) IN
  /\ found' = found \cup Thermometers(bus, Len(busses))
  /\ \/ NoThermometer(bus) /\ UNCHANGED <<handle, opened>>
     \/ \E i \in DOMAIN bus : FirstThermometer(bus, i) /\ OpenThermometer(bus[i])

\* Faulty variant: the handle is used without a look at it.
SearchUnchecked ==
  /\ pc = "search"
  /\ IF busses # << >>
     THEN SearchBus /\ busses' = Tail(busses) /\ UNCHANGED pc
     ELSE pc' = "version" /\ UNCHANGED searchVars
  /\ UNCHANGED <<transferVars, report, round, buffer, commanded>>

Search ==
  /\ pc = "search"
  /\ IF busses # << >>
     THEN SearchBus /\ busses' = Tail(busses) /\ UNCHANGED pc
     ELSE /\ pc' = IF handle = 0 THEN "notFound" ELSE "version"
          /\ UNCHANGED searchVars
  /\ UNCHANGED <<transferVars, report, round, buffer, commanded>>

-----------------------------------------------------------------------------
(* Transfers: the kernel runs one at a time. *)

Call(p, r) ==
  /\ Device!Ask(r)
  /\ caller' = p
  /\ since' = sample

ToolCalls ==
  /\ pc \in DOMAIN ToolRequest
  /\ Call("tool", ToolRequest[pc])
  /\ commanded' = IF pc \in {"ledOff", "ledOn"} THEN -1 ELSE commanded
  /\ UNCHANGED <<report, pc, round, searchVars, buffer>>

CollectorCalls ==
  /\ Call("collector", Get_Environment)
  /\ UNCHANGED <<report, toolVars>>

\* The transfer of a getEnv whose first packet was lost: see AllOrNothing.
EndEmpty ==
  /\ stage = "served"
  /\ asked.name = "getEnv"
  /\ stage' = "done"
  /\ result' = NoReply
  /\ answer' = NoReply
  /\ UNCHANGED <<asked, pending, device>>

TransferStep ==
  /\ \/ Device!Take \/ Device!Serve \/ Device!Return \/ EndEmpty
  /\ UNCHANGED <<caller, since, report, toolVars>>

\* The main loop of the firmware measures and blinks.
Measure ==
  /\ sample < MaxSample
  /\ Device!Measure(sample + 1)
  /\ commanded' = -1
  /\ UNCHANGED <<caller, since, report, pc, round, searchVars, buffer>>

-----------------------------------------------------------------------------
(* What the callers do with the outcome *)

\* usb_control_msg returns a negative number after its timeout.
Outcome ==
  IF stage # "done" THEN "failed"
  ELSE IF result.len = 0 THEN "empty" ELSE "complete"

\* Faulty variant: a call waits for its answer without a limit.
EndTransferUnlimited(p) ==
  /\ caller = p
  /\ Device!Finish
  /\ caller' = "nobody"
  /\ UNCHANGED since

EndTransfer(p) ==
  /\ caller = p
  /\ Device!GiveUp \/ Device!Finish
  /\ caller' = "nobody"
  /\ UNCHANGED since

Report(p, words) ==
  report' = [report EXCEPT ![p] =
               [words |-> words, outcome |-> Outcome, since |-> since]]

\* Faulty variant: not even a negative result is noticed.
PrintEnvironmentAlways ==
  \E stack \in {buffer, Garbage} :
    /\ buffer' = IF Outcome = "complete" THEN result.words ELSE stack
    /\ Report("tool", buffer')

\* Anything but a negative result is printed, from a buffer on the stack that
\* still holds what it held before when no byte came.
PrintEnvironment ==
  IF Outcome = "failed" THEN UNCHANGED <<buffer, report>>
  ELSE \E stack \in {buffer, Garbage} :
         /\ buffer' = IF Outcome = "complete" THEN result.words ELSE stack
         /\ Report("tool", buffer')

NextPlace ==
  [version |-> "ledOff", ledOff |-> "ledOn", ledOn |-> "environment",
   environment |-> IF round + 1 < Rounds THEN "ledOff" ELSE "exit"]

\* usb_close follows the last round.
ToolReturns ==
  /\ EndTransfer("tool")
  /\ pc' = NextPlace[pc]
  /\ IF pc = "environment"
     THEN round' = round + 1 /\ PrintEnvironment
     ELSE UNCHANGED <<round, buffer, report>>
  /\ commanded' =
       IF Outcome # "failed" /\ sample = since /\ pc \in {"ledOff", "ledOn"}
       THEN ToolRequest[pc].value ELSE commanded
  /\ opened' = IF pc' = "exit" THEN opened \ {handle} ELSE opened
  /\ UNCHANGED <<busses, handle, found>>

\* Get_Environment reads into zeroed memory and hands on what is there.
CollectorReturns ==
  /\ EndTransfer("collector")
  /\ IF Outcome = "failed" THEN UNCHANGED report
                           ELSE Report("collector", result.words)
  /\ UNCHANGED toolVars

-----------------------------------------------------------------------------

ToolStep == Search \/ ToolReturns
Next ==
  \/ ToolStep \/ ToolCalls
  \/ CollectorCalls \/ CollectorReturns
  \/ TransferStep \/ Measure

Spec == Init /\ [][Next]_vars

\* Timeouts end a call whatever the device does, and the kernel queues the
\* transfers of two programs.  Nothing is assumed of the device.
FairSpec ==
  /\ Spec
  /\ WF_vars(ToolStep) /\ SF_vars(ToolCalls) /\ WF_vars(CollectorReturns)

-----------------------------------------------------------------------------
(* Properties *)

\* A reading the device had at some moment of the call: all its fields of one
\* measurement, and none from before the call.
Genuine(r) ==
  \E s \in r.since .. sample : r.words = Reply(Get_Environment, s, 0).words

CallersTypeOK ==
  /\ stage \in {"idle", "asked", "taken", "served", "done"}
  /\ caller \in Programs \cup {"nobody"}
  /\ caller = "nobody" <=> stage = "idle"
  /\ pc \in DOMAIN ToolRequest \cup {"search", "notFound", "exit"}
  /\ round \in 0 .. Rounds
  /\ handle \in opened \cup {0} \/ pc = "exit"
  /\ pc \in DOMAIN ToolRequest => handle # 0
  /\ commanded \in -1 .. 1

\* Whatever calls were given up, by either program, and whatever is still
\* pending of them: a printed or saved reading was measured during its own
\* call, unless that call's transfer ended with no byte.
OnlyEmptyTransfersMislead ==
  \A p \in Programs :
    report[p] # NoReport /\ ~Genuine(report[p]) => report[p].outcome = "empty"

\* After a set_led that succeeded the LED is as it was set, until the tool
\* sets it again or the firmware blinks: no call given up earlier, by
\* whichever program, takes effect late.
LedAsCommanded == commanded # -1 => led = commanded

\* A thermometer that is the only one and can be opened is found, on
\* whichever bus it is; and while all thermometers are on one bus, the tool
\* closes what it opens.  Neither holds of more: on a bus the first one
\* decides, also when it cannot be opened, and of the busses the last.
OneThermometerServed ==
  /\ pc = "notFound" => \A t \in found : found = {t} => t.device # "opens"
  /\ pc = "exit" /\ (\A t, u \in found : t.bus = u.bus) => opened = {}

\* The tool always comes to its end, though the device may stop answering.
ToolEnds == <>(pc \in {"exit", "notFound"})
=============================================================================
