-------------------------- MODULE ControlTransfer --------------------------
(* What a control transfer promises, with neither packets nor buffers: the  *)
(* host asks, the device takes the request, serves it in one step from one  *)
(* state of the thermometer, and the host gets exactly that answer.  A host *)
(* that gives up takes nothing back: a request the device has taken is      *)
(* still served, but its answer goes nowhere.  UsbBus implements this.      *)
EXTENDS UsbProtocol

VARIABLES
  stage,          \* how far the host's transfer has come
  asked,          \* the request of that transfer, or NoRequest
  pending,        \* the request the device has taken and not yet served
  answer,         \* the answer to the request asked, once it is served
  result,         \* what the host received
  sample, led, ledon, configuration       \* the thermometer

hostSide == <<stage, asked, answer, result>>
device == <<sample, led, ledon, configuration>>
vars == <<hostSide, pending, device>>

Init ==
  /\ stage = "idle"
  /\ asked = NoRequest
  /\ pending = NoRequest
  /\ answer = NoReply
  /\ result = NoReply
  /\ sample = Placeholder
  /\ led = 0
  /\ ledon = 0
  /\ configuration = 0

Ask(r) ==
  /\ stage = "idle"
  /\ stage' = "asked"
  /\ asked' = r
  /\ UNCHANGED <<pending, answer, result, device>>

\* The device takes one request at a time.
Take ==
  /\ stage = "asked"
  /\ pending = NoRequest
  /\ stage' = "taken"
  /\ pending' = asked
  /\ UNCHANGED <<asked, answer, result, device>>

Effect(r) ==
  /\ led' = IF r.name # "setLed" THEN led ELSE IF r.value = 0 THEN 0 ELSE 1
  /\ configuration' = IF r.name = "setConfiguration" THEN r.value
                      ELSE configuration
  /\ UNCHANGED <<sample, ledon>>

\* A request whose host has given up has its effect all the same.
Serve ==
  /\ pending # NoRequest
  /\ Effect(pending)
  /\ pending' = NoRequest
  /\ IF stage = "taken"
     THEN stage' = "served" /\ answer' = Reply(pending, sample, configuration)
     ELSE UNCHANGED <<stage, answer>>
  /\ UNCHANGED <<asked, result>>

\* Faulty variant: the host has its answer before the device serves it.
ReturnEarly ==
  /\ stage \in {"taken", "served"}
  /\ stage' = "done"
  /\ result' = answer
  /\ answer' = NoReply
  /\ UNCHANGED <<asked, pending, device>>

Return ==
  /\ stage = "served"
  /\ stage' = "done"
  /\ result' = answer
  /\ answer' = NoReply
  /\ UNCHANGED <<asked, pending, device>>

Leave == stage' = "idle" /\ asked' = NoRequest

Finish ==
  /\ stage = "done"
  /\ Leave
  /\ result' = NoReply
  /\ UNCHANGED <<pending, answer, device>>

GiveUp ==
  /\ stage \in {"asked", "taken", "served"}
  /\ Leave
  /\ answer' = NoReply
  /\ UNCHANGED <<pending, result, device>>

Measure(s) ==
  /\ sample' = s
  /\ ledon' = 1 - ledon
  /\ led' = ledon'
  /\ UNCHANGED <<hostSide, pending, configuration>>

Next ==
  \/ \E r \in Requests : Ask(r)
  \/ Take \/ Serve \/ Return \/ Finish \/ GiveUp
  \/ \E s \in Samples : Measure(s)

Spec == Init /\ [][Next]_vars
=============================================================================
