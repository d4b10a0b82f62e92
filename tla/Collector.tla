----------------------------- MODULE Collector -----------------------------
(* The collector daemon: every five seconds cron starts a callback on a      *)
(* goroutine of its own, which opens the thermometer, fetches and saves a    *)
(* reading and closes it again (main.go, cron.go, usb.go).  A transfer may   *)
(* take those five seconds (ControlTimeout), and saving takes its time, so   *)
(* callbacks may overlap.  They share the four pointers of one global        *)
(* usbenv, without a lock.                                                   *)
(*                                                                           *)
(* A step ends at every access to a pointer of usbenv.  A call on one of     *)
(* them loads the pointer when it begins and stores its result when it       *)
(* returns.  The device and libusb, and the database, are outside: a call    *)
(* on them succeeds or fails.                                                *)
EXTENDS Naturals, FiniteSets

CONSTANTS Runs,         \* identities of callbacks, reused
          MaxRunning,   \* callbacks at one time
          nil

ASSUME NilAssumption == nil \notin Runs

VARIABLES
  usbenv,       \* the shared pointers; a handle is named by who opened it
  open,         \* the handles of each kind that are open
  pc,           \* where each callback is
  local,        \* the pointer it has loaded
  err,          \* OpenDeviceWithVIDPID has failed
  \* History: no code reads these.
  overlapped,   \* callbacks that ran beside another one
  inherited,    \* callbacks that found pointers left behind
  misused       \* callbacks that used or closed a closed handle, or closed
                \* handles in the wrong order

progress == <<pc, local, err>>
blame == <<overlapped, inherited, misused>>
vars == <<usbenv, open, progress, blame>>

Kinds == {"ctx", "dev", "config", "iface"}

\* The kind a handle is opened on, and the kind opened on it.
Parent == [dev |-> "ctx", config |-> "dev", iface |-> "config"]
Child == [ctx |-> "dev", dev |-> "config", config |-> "iface"]

\* What a callback does at a step, and to which kind of handle.
At(do, kind) == [do |-> do, kind |-> kind]
Idle == At("idle", "ctx")

Active(r) == pc[r] # Idle
Running == {r \in Runs : Active(r)}

Nothing == [k \in Kinds |-> nil]

Init ==
  /\ usbenv = Nothing
  /\ open = [k \in Kinds |-> {}]
  /\ pc = [r \in Runs |-> Idle]
  /\ local = [r \in Runs |-> nil]
  /\ err = [r \in Runs |-> FALSE]
  /\ overlapped = {}
  /\ inherited = {}
  /\ misused = {}

Goto(r, do, kind) == pc' = [pc EXCEPT ![r] = At(do, kind)]

\* An identity is used again when nothing is left of its last callback.
Unused(r) == \A k \in Kinds : r \notin open[k] /\ usbenv[k] # r

\* cron starts a callback whether or not the last one has returned.
Tick(r) ==
  /\ ~Active(r)
  /\ Unused(r)
  /\ Cardinality(Running) < MaxRunning
  /\ Goto(r, "new", "ctx")
  /\ overlapped' = IF Running = {} THEN {} ELSE Running \cup {r}
  /\ inherited' = IF usbenv = Nothing THEN inherited ELSE inherited \cup {r}
  /\ UNCHANGED <<usbenv, open, local, err, misused>>

\* What is not needed any more is nil.
Load(r, h) == local' = [local EXCEPT ![r] = h]

End(r) ==
  /\ pc' = [pc EXCEPT ![r] = Idle]
  /\ Load(r, nil)
  /\ overlapped' = overlapped \ {r}
  /\ inherited' = inherited \ {r}
  /\ misused' = misused \ {r}
  /\ UNCHANGED err

\* Between testing a pointer and using it, the compiled code may load it
\* again or not.
Loaded(r, k) == {local[r], usbenv[k]}

\* A call on a nil pointer panics.  Depending on its version cron recovers,
\* which ends this callback, or the process exits (see Restart).
Panic(r) == End(r) /\ UNCHANGED <<usbenv, open>>

Blame(r, wrong) == misused' = IF wrong THEN misused \cup {r} ELSE misused

Uses(r, k, h) == Blame(r, h \notin open[k])

-----------------------------------------------------------------------------
(* USB_init *)

\* The call to Debug that follows uses the same pointer as the next call and
\* is one with it.
NewContext(r) ==
  /\ pc[r] = At("new", "ctx")
  /\ usbenv' = [usbenv EXCEPT !["ctx"] = r]
  /\ open' = [open EXCEPT !["ctx"] = @ \cup {r}]
  /\ Goto(r, "open", "dev")
  /\ UNCHANGED <<local, err, blame>>

\* Faulty variant: nil is passed on.
BeginOpenOnNil(r, k) ==
  /\ pc[r] = At("open", k)
  /\ Load(r, usbenv[Parent[k]])
  /\ Goto(r, "opening", k)
  /\ Uses(r, Parent[k], usbenv[Parent[k]])
  /\ UNCHANGED <<usbenv, open, err, overlapped, inherited>>

BeginOpen(r, k) ==
  LET h == usbenv[Parent[k]] IN
  /\ pc[r] = At("open", k)
  /\ \/ h = nil /\ Panic(r)
     \/ /\ h # nil
        /\ Load(r, h)
        /\ Goto(r, "opening", k)
        /\ Uses(r, Parent[k], h)
        /\ UNCHANGED <<usbenv, open, err, overlapped, inherited>>

\* The device is not Reset when it was not there to be opened.
AfterOpen(r, k, ok) ==
  IF k = "dev" THEN Goto(r, "check", "dev")
  ELSE IF ~ok THEN Goto(r, "reset", "dev")
  ELSE IF k = "config" THEN Goto(r, "open", "iface")
  ELSE Goto(r, "get", "dev")

\* The result is stored; opening the device may return both a device and an
\* error, or neither.
EndOpen(r, k) ==
  /\ pc[r] = At("opening", k)
  /\ Uses(r, Parent[k], local[r])
  /\ \E got, ok \in BOOLEAN :
       /\ k # "dev" => got = ok
       /\ usbenv' = [usbenv EXCEPT ![k] = IF got THEN r ELSE nil]
       /\ open' = IF got THEN [open EXCEPT ![k] = @ \cup {r}] ELSE open
       /\ err' = [err EXCEPT ![r] = k = "dev" /\ ~ok]
       /\ AfterOpen(r, k, ok)
  /\ Load(r, nil)
  /\ UNCHANGED <<overlapped, inherited>>

Close(r) == Goto(r, "close", "iface")

CheckDevice(r) ==
  /\ pc[r] = At("check", "dev")
  /\ IF usbenv["dev"] = nil \/ err[r]
     THEN Close(r) /\ UNCHANGED local
     ELSE Goto(r, "detach", "dev") /\ Load(r, usbenv["dev"])
  /\ err' = [err EXCEPT ![r] = FALSE]
  /\ UNCHANGED <<usbenv, open, blame>>

\* ControlTimeout and SetAutoDetach.
SetAutoDetach(r) ==
  /\ pc[r] = At("detach", "dev")
  /\ \E h \in Loaded(r, "dev") :
       \/ h = nil /\ Panic(r)
       \/ /\ h # nil
          /\ Uses(r, "dev", h)
          /\ Goto(r, "open", "config") \/ Goto(r, "reset", "dev")
          /\ Load(r, nil)
          /\ UNCHANGED <<usbenv, open, err, overlapped, inherited>>

\* Faulty variant: a callback whose USB_init fails does not call USB_close.
ResetAndReturn(r) ==
  /\ pc[r] = At("reset", "dev")
  /\ End(r)
  /\ UNCHANGED <<usbenv, open>>

Reset(r) ==
  /\ pc[r] = At("reset", "dev")
  /\ \/ usbenv["dev"] = nil /\ Panic(r)
     \/ /\ usbenv["dev"] # nil
        /\ Uses(r, "dev", usbenv["dev"])
        /\ Close(r)
        /\ UNCHANGED <<usbenv, open, local, err, overlapped, inherited>>

-----------------------------------------------------------------------------
(* Get_Environment and Save *)

CheckAvailable(r) ==
  /\ pc[r] = At("get", "dev")
  /\ Load(r, usbenv["dev"])
  /\ IF usbenv["dev"] = nil THEN Close(r) ELSE Goto(r, "control", "dev")
  /\ UNCHANGED <<usbenv, open, err, blame>>

BeginControl(r) ==
  /\ pc[r] = At("control", "dev")
  /\ \E h \in Loaded(r, "dev") :
       \/ h = nil /\ Panic(r)
       \/ /\ h # nil
          /\ Load(r, h)
          /\ Goto(r, "transfer", "dev")
          /\ Uses(r, "dev", h)
          /\ UNCHANGED <<usbenv, open, err, overlapped, inherited>>

\* An answer is saved, an error or a timeout is not.
EndControl(r) ==
  /\ pc[r] = At("transfer", "dev")
  /\ Uses(r, "dev", local[r])
  /\ Goto(r, "save", "dev") \/ Close(r)
  /\ Load(r, nil)
  /\ UNCHANGED <<usbenv, open, err, overlapped, inherited>>

Save(r) ==
  /\ pc[r] = At("save", "dev")
  /\ Close(r)
  /\ UNCHANGED <<usbenv, open, local, err, blame>>

-----------------------------------------------------------------------------
(* USB_close, which the callback calls in every case *)

\* Faulty variant: USB_close forgets the configuration.
NextCloseSkips(r, k) ==
  IF k = "ctx" THEN End(r)
  ELSE /\ Goto(r, "close", IF k = "iface" THEN "dev" ELSE Parent[k])
       /\ UNCHANGED <<local, err, blame>>

NextClose(r, k) ==
  IF k = "ctx" THEN End(r)
  ELSE Goto(r, "close", Parent[k]) /\ UNCHANGED <<local, err, blame>>

CheckOpen(r, k) ==
  /\ pc[r] = At("close", k)
  /\ IF usbenv[k] = nil THEN NextClose(r, k)
     ELSE /\ Load(r, usbenv[k])
          /\ Goto(r, "closing", k)
          /\ UNCHANGED <<err, blame>>
  /\ UNCHANGED <<usbenv, open>>

\* A handle is to be closed after those opened on it and before the one it
\* was opened on.  Here a callback's handles are taken to be opened on its
\* own, as they are when it does not overlap.
OutOfOrder(k, h) ==
  \/ k # "iface" /\ h \in open[Child[k]]
  \/ k # "ctx" /\ h \notin open[Parent[k]]

CloseHandle(r, k) ==
  /\ pc[r] = At("closing", k)
  /\ \E h \in Loaded(r, k) :
       \/ h = nil /\ Panic(r)
       \/ /\ h # nil
          /\ open' = [open EXCEPT ![k] = @ \ {h}]
          /\ Blame(r, h \notin open[k] \/ OutOfOrder(k, h))
          /\ Goto(r, "clear", k)
          /\ Load(r, nil)
          /\ UNCHANGED <<usbenv, err, overlapped, inherited>>

ClearPointer(r, k) ==
  /\ pc[r] = At("clear", k)
  /\ usbenv' = [usbenv EXCEPT ![k] = nil]
  /\ NextClose(r, k)
  /\ UNCHANGED open

-----------------------------------------------------------------------------

\* The process exits, by a panic or with its container, and is started
\* again; the kernel closes what it had open.
Restart ==
  /\ usbenv' = Nothing
  /\ open' = [k \in Kinds |-> {}]
  /\ pc' = [r \in Runs |-> Idle]
  /\ local' = [r \in Runs |-> nil]
  /\ err' = [r \in Runs |-> FALSE]
  /\ overlapped' = {}
  /\ inherited' = {}
  /\ misused' = {}

Step(r) ==
  \/ NewContext(r) \/ CheckDevice(r) \/ SetAutoDetach(r) \/ Reset(r)
  \/ CheckAvailable(r) \/ BeginControl(r) \/ EndControl(r) \/ Save(r)
  \/ \E k \in Kinds \ {"ctx"} : BeginOpen(r, k) \/ EndOpen(r, k)
  \/ \E k \in Kinds : CheckOpen(r, k) \/ CloseHandle(r, k) \/ ClearPointer(r, k)

Next == Restart \/ \E r \in Runs : Tick(r) \/ Step(r)

Spec == Init /\ [][Next]_vars

-----------------------------------------------------------------------------
(* Properties *)

Steps == {"idle", "new", "open", "opening", "check", "detach", "reset", "get",
          "control", "transfer", "save", "close", "closing", "clear"}

\* Every variable stays within its range, and a call in progress has a handle
\* to work on, whoever has set the pointer to nil.
CollectorTypeOK ==
  /\ \A r \in Runs : pc[r].do \in {"opening", "transfer"} => local[r] # nil
  /\ usbenv \in [Kinds -> Runs \cup {nil}]
  /\ open \in [Kinds -> SUBSET Runs]
  /\ pc \in [Runs -> [do : Steps, kind : Kinds]]
  /\ local \in [Runs -> Runs \cup {nil}]
  /\ err \in [Runs -> BOOLEAN]
  /\ overlapped \subseteq Runs
  /\ inherited \subseteq Runs
  /\ misused \subseteq Runs

\* A callback that had usbenv to itself leaves nothing behind, wherever
\* USB_init failed and whatever overlapping callbacks left before it: every
\* pointer is nil and every handle it opened is closed.
AloneLeavesNothing ==
  [][\A r \in Runs :
       Active(r) /\ ~Active(r)' /\ r \notin overlapped =>
         usbenv' = Nothing /\ \A k \in Kinds : r \notin open'[k]]_vars

\* Only callbacks that overlap, or that find what such callbacks have left,
\* use a closed handle, close one twice or close them in the wrong order.
\* With AloneLeavesNothing: one undisturbed callback ends the consequences.
OnlyOverlapsMisuse == misused \subseteq overlapped \cup inherited
=============================================================================
