-------------------------- MODULE CollectorProofs --------------------------
(* What a callback of the collector that does not overlap can rely on, for   *)
(* any number of callbacks running at one time before it.                    *)
EXTENDS Collector, TLAPS

Lone(r) == Active(r) /\ r \notin overlapped

\* The kinds from k on, in the order of USB_init.
From == [ctx |-> Kinds, dev |-> {"dev", "config", "iface"},
         config |-> {"config", "iface"}, iface |-> {"iface"}]

\* A lone callback has reached a handle it opened through usbenv.
Reachable(r) == \A k \in Kinds : r \in open[k] => usbenv[k] = r

\* USB_init opens each kind once.
NotYetOpen(r) ==
  /\ pc[r].do \in {"new", "open", "opening"} =>
       \A k \in From[pc[r].kind] : r \notin open[k]
  /\ pc[r].do \in {"check", "detach"} =>
       \A k \in From["config"] : r \notin open[k]

\* No pointer it tested or stored has become nil.
Present(r) ==
  /\ pc[r].do \in {"open", "opening"} =>
       /\ pc[r].kind # "ctx"
       /\ usbenv[Parent[pc[r].kind]] # nil
       /\ pc[r].kind = "iface" => usbenv["dev"] # nil
  /\ pc[r].do \in {"detach", "control"} => local[r] = usbenv["dev"]
  /\ pc[r].do \in {"detach", "control", "reset"} => usbenv["dev"] # nil
  /\ pc[r].do = "closing" => local[r] = usbenv[pc[r].kind] /\ local[r] # nil

\* USB_close goes from the last kind to the first.
Closed(r) ==
  /\ pc[r].do = "clear" => r \notin open[pc[r].kind]
  /\ pc[r].do \in {"close", "closing", "clear"} =>
       \A k \in From[pc[r].kind] \ {pc[r].kind} : usbenv[k] = nil

LoneInv(r) ==
  /\ \A s \in Runs \ {r} : ~Active(s)
  /\ Reachable(r) /\ NotYetOpen(r) /\ Present(r) /\ Closed(r)

\* A lone callback that found no pointers has only handles of its own, and
\* they are open.
CleanInv(r) ==
  /\ \A k \in Kinds : usbenv[k] \in {nil, r}
  /\ \A k \in Kinds : usbenv[k] = r /\ pc[r] # At("clear", k) => r \in open[k]
  /\ \A k \in Kinds \ {"ctx"} : r \in open[k] => r \in open[Parent[k]]
  /\ pc[r].do = "opening" => local[r] = usbenv[Parent[pc[r].kind]]
  /\ pc[r].do = "transfer" => local[r] = usbenv["dev"]
  /\ r \notin misused

IInv ==
  /\ CollectorTypeOK
  /\ misused \subseteq Running
  /\ \A r \in Runs : Lone(r) => LoneInv(r)
  /\ \A r \in Runs : Lone(r) /\ r \notin inherited => CleanInv(r)

-----------------------------------------------------------------------------

LEMMA InitIInv == Init => IInv
<1> SUFFICES ASSUME Init PROVE IInv
  OBVIOUS
<1>1. \A r \in Runs : ~Active(r)
  BY DEF Init, Active
<1>2. CollectorTypeOK
  BY DEF Init, CollectorTypeOK, Nothing, Idle, At, Steps, Kinds
<1> QED
  BY <1>1, <1>2 DEF IInv, Lone, Init

\* What a step of one callback has to keep for IInv to hold after it.
Kept(r) ==
  /\ Reachable(r)' /\ NotYetOpen(r)' /\ Present(r)' /\ Closed(r)'
  /\ r \notin inherited => CleanInv(r)'

\* The others are not running when r is alone, and not alone when it is not.
LEMMA OneCallback ==
  ASSUME IInv, NEW r \in Runs, Active(r), CollectorTypeOK',
         \A s \in Runs \ {r} : pc'[s] = pc[s],
         overlapped' = overlapped, inherited' = inherited,
         misused' \subseteq misused \cup {r}, Active(r)',
         Lone(r) => Kept(r)
  PROVE  IInv'
<1>1. \A s \in Runs \ {r} : Active(s)' <=> Active(s)
  BY DEF Active, Idle, At
<1>2. \A s \in Runs \ {r} : ~Lone(s)
  BY DEF IInv, LoneInv
<1>3. \A s \in Runs \ {r} : ~Lone(s)'
  BY <1>1, <1>2 DEF Lone
<1>4. (misused \subseteq Running)'
  BY <1>1 DEF IInv, Running
<1>5. Lone(r)' => Lone(r)
  BY DEF Lone
<1>6. Lone(r)' => LoneInv(r)'
  BY <1>1, <1>5 DEF IInv, LoneInv, Kept
<1>7. Lone(r)' /\ r \notin inherited' => CleanInv(r)'
  BY <1>5 DEF Kept
<1> QED
  BY <1>3, <1>4, <1>6, <1>7 DEF IInv

LEMMA LastStep ==
  ASSUME IInv, NEW r \in Runs, Active(r), CollectorTypeOK', End(r)
  PROVE  IInv'
<1>1. ~Active(r)'
  BY DEF End, Active, Idle, At, CollectorTypeOK, IInv
<1>2. \A s \in Runs \ {r} : Active(s)' <=> Active(s)
  BY DEF End, Active, Idle, At, CollectorTypeOK, IInv
<1>3. \A s \in Runs : ~Lone(s)'
  BY <1>1, <1>2 DEF IInv, LoneInv, Lone, End
<1>4. (misused \subseteq Running)'
  BY <1>1, <1>2 DEF IInv, Running, End
<1> QED
  BY <1>3, <1>4 DEF IInv

LEMMA EndType == ASSUME CollectorTypeOK, NEW r \in Runs, End(r),
                        usbenv' \in [Kinds -> Runs \cup {nil}],
                        open' \in [Kinds -> SUBSET Runs]
                 PROVE  CollectorTypeOK'
  BY DEF CollectorTypeOK, End, Load, Idle, At, Steps, Kinds

-----------------------------------------------------------------------------
(* Starting a callback and restarting the process *)

LEMMA TickStep == ASSUME IInv, NEW r \in Runs, Tick(r) PROVE IInv'
<1> USE DEF Tick, Goto, At
<1>1. CollectorTypeOK'
  BY DEF IInv, CollectorTypeOK, Steps, Kinds, Running
<1>2. /\ Active(r)'
      /\ \A s \in Runs \ {r} : Active(s)' <=> Active(s)
  BY DEF IInv, CollectorTypeOK, Active, Idle
<1>3. (misused \subseteq Running)'
  BY <1>2 DEF IInv, Running
<1>4. ASSUME NEW s \in Runs, Lone(s)' PROVE s = r /\ Running = {}
  BY <1>2, <1>4 DEF Lone, Running
<1>5. Lone(r)' => LoneInv(r)'
  <2> SUFFICES ASSUME Lone(r)' PROVE LoneInv(r)'
    OBVIOUS
  <2>1. \A s \in Runs \ {r} : ~Active(s)'
    BY <1>2, <1>4 DEF Running
  <2>2. pc'[r] = [do |-> "new", kind |-> "ctx"]
    BY DEF IInv, CollectorTypeOK
  <2>3. \A k \in Kinds : r \notin open'[k]
    BY DEF Unused
  <2>4. From["ctx"] = Kinds
    BY DEF From
  <2> QED
    BY <2>1, <2>2, <2>3, <2>4
       DEF LoneInv, Reachable, NotYetOpen, Present, Closed
<1>6. Lone(r)' /\ r \notin inherited' => CleanInv(r)'
  <2> SUFFICES ASSUME Lone(r)', r \notin inherited' PROVE CleanInv(r)'
    OBVIOUS
  <2>1. usbenv = Nothing
    OBVIOUS
  <2>2. pc'[r] = [do |-> "new", kind |-> "ctx"]
    BY DEF IInv, CollectorTypeOK
  <2>3. r \notin misused
    BY DEF IInv, Running
  <2>4. \A k \in Kinds : usbenv'[k] = nil /\ r \notin open'[k]
    BY <2>1 DEF Nothing, Unused
  <2> QED
    BY <2>2, <2>3, <2>4, NilAssumption DEF CleanInv
<1> QED
  BY <1>1, <1>3, <1>4, <1>5, <1>6 DEF IInv

LEMMA RestartStep == ASSUME IInv, Restart PROVE IInv'
<1>1. CollectorTypeOK'
  BY DEF Restart, CollectorTypeOK, Nothing, Idle, At, Steps, Kinds
<1>2. \A s \in Runs : ~Active(s)'
  BY DEF Restart, Active
<1> QED
  BY <1>1, <1>2 DEF IInv, Lone, Restart

-----------------------------------------------------------------------------
(* USB_init *)

\* Goto moves one callback, to a step that is not Idle.
LEMMA Moved ==
  ASSUME CollectorTypeOK, NEW r \in Runs, NEW do \in Steps \ {"idle"},
         NEW k \in Kinds, Goto(r, do, k)
  PROVE  /\ pc'[r] = [do |-> do, kind |-> k]
         /\ Active(r)'
         /\ \A s \in Runs \ {r} : pc'[s] = pc[s]
         /\ pc' \in [Runs -> [do : Steps, kind : Kinds]]
  BY DEF CollectorTypeOK, Goto, At, Active, Idle, Steps

LEMMA NewContextStep ==
  ASSUME IInv, NEW r \in Runs, NewContext(r) PROVE IInv'
<1>1. Active(r)
  BY DEF NewContext, Active, Idle, At
<1>2. /\ pc'[r] = [do |-> "open", kind |-> "dev"]
      /\ Active(r)'
      /\ \A s \in Runs \ {r} : pc'[s] = pc[s]
      /\ pc' \in [Runs -> [do : Steps, kind : Kinds]]
  BY Moved DEF NewContext, IInv, Steps, Kinds
<1>3. /\ usbenv' = [usbenv EXCEPT !["ctx"] = r]
      /\ open' = [open EXCEPT !["ctx"] = @ \cup {r}]
      /\ UNCHANGED <<local, err, overlapped, inherited, misused>>
  BY DEF NewContext, blame
<1>4. CollectorTypeOK'
  BY <1>2, <1>3 DEF IInv, CollectorTypeOK, Kinds
<1>5. ASSUME Lone(r) PROVE Kept(r)
  <2>1. \A k \in Kinds : r \notin open[k]
    BY <1>5 DEF IInv, LoneInv, NotYetOpen, NewContext, At, From, Kinds
  <2>2. Reachable(r)' /\ NotYetOpen(r)' /\ Present(r)' /\ Closed(r)'
    BY <1>2, <1>3, <2>1, NilAssumption
       DEF Reachable, NotYetOpen, Present, Closed, From, Parent, Kinds, IInv,
           CollectorTypeOK
  <2>3. ASSUME r \notin inherited PROVE CleanInv(r)'
    <3>1. CleanInv(r)
      BY <1>5, <2>3 DEF IInv
    <3> QED
      BY <1>2, <1>3, <2>1, <3>1
         DEF CleanInv, At, NewContext, Parent, Kinds, IInv, CollectorTypeOK
  <2> QED
    BY <2>2, <2>3 DEF Kept
<1> QED
  BY <1>1, <1>2, <1>3, <1>4, <1>5, OneCallback

LEMMA BeginOpenStep ==
  ASSUME IInv, NEW r \in Runs, NEW k \in Kinds \ {"ctx"}, BeginOpen(r, k)
  PROVE  IInv'
<1>1. Active(r) /\ pc[r] = [do |-> "open", kind |-> k]
  BY DEF BeginOpen, Active, Idle, At
<1>2. CASE Panic(r)
  BY <1>1, <1>2, EndType, LastStep DEF Panic, IInv, CollectorTypeOK
<1>3. CASE ~Panic(r)
  <2> DEFINE h == usbenv[Parent[k]]
  <2>1. /\ h # nil
        /\ Load(r, h)
        /\ Goto(r, "opening", k)
        /\ Uses(r, Parent[k], h)
        /\ UNCHANGED <<usbenv, open, err, overlapped, inherited>>
    BY <1>3 DEF BeginOpen
  <2>2. Parent[k] \in Kinds /\ h \in Runs
    BY <2>1 DEF Parent, Kinds, IInv, CollectorTypeOK
  <2>3. /\ pc'[r] = [do |-> "opening", kind |-> k]
        /\ Active(r)'
        /\ \A s \in Runs \ {r} : pc'[s] = pc[s]
        /\ pc' \in [Runs -> [do : Steps, kind : Kinds]]
    BY <2>1, Moved DEF IInv, Steps
  <2>4. /\ local'[r] = h
        /\ local' \in [Runs -> Runs \cup {nil}]
        /\ \A s \in Runs \ {r} : local'[s] = local[s]
    BY <2>1, <2>2 DEF Load, IInv, CollectorTypeOK
  <2>5. misused' \subseteq misused \cup {r}
    BY <2>1 DEF Uses, Blame
  <2>6. CollectorTypeOK'
    BY <2>1, <2>2, <2>3, <2>4, <2>5 DEF IInv, CollectorTypeOK
  <2>7. ASSUME Lone(r) PROVE Kept(r)
    <3>1. Reachable(r)' /\ NotYetOpen(r)' /\ Present(r)' /\ Closed(r)'
      BY <1>1, <2>1, <2>3, <2>7
         DEF IInv, LoneInv, Reachable, NotYetOpen, Present, Closed
    <3>2. ASSUME r \notin inherited PROVE CleanInv(r)'
      <4>1. CleanInv(r)
        BY <2>7, <3>2 DEF IInv
      <4>2. h = r /\ r \in open[Parent[k]]
        <5>1. pc[r] # At("clear", Parent[k])
          BY <1>1 DEF At
        <5>2. h = r
          BY <2>1, <2>2, <4>1 DEF CleanInv
        <5> HIDE DEF h
        <5>3. usbenv[Parent[k]] = r
          BY <5>2 DEF h
        <5> QED
          BY <2>2, <4>1, <5>1, <5>2, <5>3 DEF CleanInv
      <4>3. r \notin misused'
        BY <2>1, <4>1, <4>2 DEF CleanInv, Uses, Blame
      <4> QED
        BY <1>1, <2>1, <2>3, <2>4, <4>1, <4>3 DEF CleanInv, At
    <3> QED
      BY <3>1, <3>2 DEF Kept
  <2> QED
    BY <1>1, <2>1, <2>3, <2>5, <2>6, <2>7, OneCallback
<1> QED
  BY <1>2, <1>3

LEMMA EndOpenStep ==
  ASSUME IInv, NEW r \in Runs, NEW k \in Kinds \ {"ctx"}, EndOpen(r, k)
  PROVE  IInv'
<1>1. Active(r) /\ pc[r] = [do |-> "opening", kind |-> k]
  BY DEF EndOpen, Active, Idle, At
<1>2. PICK got \in BOOLEAN, ok \in BOOLEAN :
        /\ k # "dev" => got = ok
        /\ usbenv' = [usbenv EXCEPT ![k] = IF got THEN r ELSE nil]
        /\ open' = IF got THEN [open EXCEPT ![k] = @ \cup {r}] ELSE open
        /\ err' = [err EXCEPT ![r] = k = "dev" /\ ~ok]
        /\ AfterOpen(r, k, ok)
  BY DEF EndOpen
<1>3. /\ Uses(r, Parent[k], local[r])
      /\ Load(r, nil)
      /\ overlapped' = overlapped /\ inherited' = inherited
  BY DEF EndOpen
<1> DEFINE next == IF k = "dev" THEN [do |-> "check", kind |-> "dev"]
                   ELSE IF ~ok THEN [do |-> "reset", kind |-> "dev"]
                   ELSE IF k = "config" THEN [do |-> "open", kind |-> "iface"]
                   ELSE [do |-> "get", kind |-> "dev"]
<1>4. /\ pc'[r] = next
      /\ Active(r)'
      /\ \A s \in Runs \ {r} : pc'[s] = pc[s]
      /\ pc' \in [Runs -> [do : Steps, kind : Kinds]]
  <2>1. AfterOpen(r, k, ok)
    BY <1>2
  <2>2. CASE k = "dev"
    BY <2>1, <2>2, Moved DEF AfterOpen, IInv, Steps, Kinds
  <2>3. CASE k # "dev" /\ ~ok
    BY <2>1, <2>3, Moved DEF AfterOpen, IInv, Steps, Kinds
  <2>4. CASE k = "config" /\ ok
    BY <2>1, <2>4, Moved DEF AfterOpen, IInv, Steps, Kinds
  <2>5. CASE k = "iface" /\ ok
    BY <2>1, <2>5, Moved DEF AfterOpen, IInv, Steps, Kinds
  <2> QED
    BY <2>2, <2>3, <2>4, <2>5 DEF Kinds
<1>5. misused' \subseteq misused \cup {r}
  BY <1>3 DEF Uses, Blame
<1>6. CollectorTypeOK'
  <2>1. usbenv' \in [Kinds -> Runs \cup {nil}] /\ open' \in [Kinds -> SUBSET Runs]
    BY <1>2 DEF IInv, CollectorTypeOK
  <2>2. local' \in [Runs -> Runs \cup {nil}]
        /\ \A s \in Runs \ {r} : local'[s] = local[s]
    BY <1>3 DEF Load, IInv, CollectorTypeOK
  <2>3. pc'[r].do \notin {"opening", "transfer"}
    BY <1>4
  <2> QED
    BY <1>2, <1>3, <1>4, <1>5, <2>1, <2>2, <2>3 DEF IInv, CollectorTypeOK
<1>7. ASSUME Lone(r) PROVE Kept(r)
  <2>1. LoneInv(r)
    BY <1>7 DEF IInv
  <2>2. Reachable(r)'
    BY <1>1, <1>2, <2>1
       DEF LoneInv, Reachable, NotYetOpen, From, Kinds, IInv, CollectorTypeOK
  <2>3. NotYetOpen(r)'
    BY <1>1, <1>2, <1>4, <2>1
       DEF LoneInv, NotYetOpen, From, Kinds, IInv, CollectorTypeOK
  <2>4. Present(r)'
    BY <1>1, <1>2, <1>4, <2>1, NilAssumption
       DEF LoneInv, Present, Parent, Kinds, IInv, CollectorTypeOK
  <2>5. Closed(r)'
    BY <1>4 DEF Closed
  <2>6. ASSUME r \notin inherited PROVE CleanInv(r)'
    <3>1. CleanInv(r)
      BY <1>7, <2>6 DEF IInv
    <3>2. local[r] = r /\ usbenv[Parent[k]] = r /\ Parent[k] \in Kinds
      BY <1>1, <3>1 DEF CleanInv, IInv, CollectorTypeOK, Parent, Kinds
    <3>3. pc[r] # At("clear", Parent[k])
      BY <1>1 DEF At
    <3>4. r \in open[Parent[k]]
      BY <3>1, <3>2, <3>3 DEF CleanInv
    <3>5. r \notin misused'
      BY <1>3, <3>1, <3>2, <3>4 DEF CleanInv, Uses, Blame
    <3>6. \A j \in Kinds : pc[r] # At("clear", j)
      BY <1>1 DEF At
    <3>7. \A j \in Kinds : usbenv'[j] \in {nil, r}
      BY <1>2, <3>1 DEF CleanInv, IInv, CollectorTypeOK
    <3>8. \A j \in Kinds : usbenv'[j] = r => r \in open'[j]
      BY <1>2, <3>1, <3>6, NilAssumption DEF CleanInv, IInv, CollectorTypeOK
    <3>9. \A j \in Kinds \ {"ctx"} : r \in open'[j] => r \in open'[Parent[j]]
      BY <1>2, <3>1, <3>4 DEF CleanInv, IInv, CollectorTypeOK, Parent, Kinds
    <3>10. pc'[r].do \notin {"opening", "transfer"}
      BY <1>4
    <3> QED
      BY <3>5, <3>7, <3>8, <3>9, <3>10 DEF CleanInv
  <2> QED
    BY <2>2, <2>3, <2>4, <2>5, <2>6 DEF Kept
<1> QED
  BY <1>1, <1>3, <1>4, <1>5, <1>6, <1>7, OneCallback

-----------------------------------------------------------------------------
(* Steps that neither open nor close anything *)

LEMMA ReadingStep ==
  ASSUME IInv, NEW r \in Runs, Active(r), pc[r].do # "clear",
         NEW do \in Steps \ {"idle", "opening", "clear"}, NEW k \in Kinds,
         Goto(r, do, k),
         NEW h \in Runs \cup {nil}, Load(r, h),
         do = "transfer" => h # nil,
         err' \in [Runs -> BOOLEAN],
         UNCHANGED <<usbenv, open, overlapped, inherited>>,
         misused' \subseteq misused \cup {r},
         Lone(r) => NotYetOpen(r)' /\ Present(r)' /\ Closed(r)',
         Lone(r) /\ r \notin inherited =>
           /\ r \notin misused'
           /\ do = "transfer" => h = usbenv["dev"]
  PROVE  IInv'
<1>1. /\ pc'[r] = [do |-> do, kind |-> k]
      /\ Active(r)'
      /\ \A s \in Runs \ {r} : pc'[s] = pc[s]
      /\ pc' \in [Runs -> [do : Steps, kind : Kinds]]
  BY Moved DEF IInv
<1>2. /\ local'[r] = h
      /\ local' \in [Runs -> Runs \cup {nil}]
      /\ \A s \in Runs \ {r} : local'[s] = local[s]
  BY DEF Load, IInv, CollectorTypeOK
<1>3. CollectorTypeOK'
  BY <1>1, <1>2 DEF IInv, CollectorTypeOK
<1>4. ASSUME Lone(r) PROVE Kept(r)
  <2>1. Reachable(r)'
    BY <1>4 DEF IInv, LoneInv, Reachable
  <2>2. ASSUME r \notin inherited PROVE CleanInv(r)'
    <3>1. CleanInv(r)
      BY <1>4, <2>2 DEF IInv
    <3>2. \A j \in Kinds : pc[r] # At("clear", j)
      BY DEF At
    <3>3. \A j \in Kinds : usbenv[j] = r => r \in open[j]
      BY <3>1, <3>2 DEF CleanInv
    <3>4. /\ r \notin misused'
          /\ do = "transfer" => h = usbenv["dev"]
      BY <1>4, <2>2
    <3>5. UNCHANGED <<usbenv, open>>
      OBVIOUS
    <3> QED
      BY <1>1, <1>2, <3>1, <3>3, <3>4, <3>5 DEF CleanInv
  <2> QED
    BY <1>4, <2>1, <2>2 DEF Kept
<1> QED
  BY <1>1, <1>3, <1>4, OneCallback

\* A handle that a clean lone callback reaches is open.
LEMMA CleanHandles ==
  ASSUME IInv, NEW r \in Runs, Lone(r), r \notin inherited,
         pc[r].do # "clear", NEW k \in Kinds, usbenv[k] # nil
  PROVE  usbenv[k] = r /\ r \in open[k] /\ r \notin misused
<1>1. CleanInv(r)
  BY DEF IInv
<1>2. pc[r] # At("clear", k)
  BY DEF At
<1> QED
  BY <1>1, <1>2 DEF CleanInv

\* The last step before USB_close.
LEMMA CloseNext ==
  ASSUME IInv, NEW r \in Runs, Active(r), pc[r].do # "clear", Close(r),
         NEW h \in Runs \cup {nil}, Load(r, h),
         err' \in [Runs -> BOOLEAN],
         UNCHANGED <<usbenv, open, overlapped, inherited>>,
         misused' \subseteq misused \cup {r},
         Lone(r) /\ r \notin inherited => r \notin misused'
  PROVE  IInv'
<1>1. Goto(r, "close", "iface")
  BY DEF Close
<1>2. pc'[r] = [do |-> "close", kind |-> "iface"]
  BY <1>1, Moved DEF IInv, Steps, Kinds
<1>3. NotYetOpen(r)' /\ Present(r)' /\ Closed(r)'
  BY <1>2 DEF NotYetOpen, Present, Closed, From
<1> QED
  BY <1>1, <1>3, ReadingStep DEF Steps, Kinds

LEMMA CheckDeviceStep ==
  ASSUME IInv, NEW r \in Runs, CheckDevice(r) PROVE IInv'
<1>1. Active(r) /\ pc[r] = [do |-> "check", kind |-> "dev"]
  BY DEF CheckDevice, Active, Idle, At
<1>2. /\ UNCHANGED <<usbenv, open, overlapped, inherited, misused>>
      /\ err' \in [Runs -> BOOLEAN]
  BY DEF CheckDevice, blame, IInv, CollectorTypeOK
<1>3. Lone(r) /\ r \notin inherited => r \notin misused'
  BY <1>2 DEF IInv, CleanInv
<1>4. CASE usbenv["dev"] = nil \/ err[r]
  <2>1. Close(r) /\ Load(r, local[r]) /\ local[r] \in Runs \cup {nil}
    BY <1>4 DEF CheckDevice, Load, IInv, CollectorTypeOK
  <2> QED
    BY <1>1, <1>2, <1>3, <2>1, CloseNext
<1>5. CASE ~(usbenv["dev"] = nil \/ err[r])
  <2>1. Goto(r, "detach", "dev") /\ Load(r, usbenv["dev"])
    BY <1>5 DEF CheckDevice
  <2>2. pc'[r] = [do |-> "detach", kind |-> "dev"]
    BY <2>1, Moved DEF IInv, Steps, Kinds
  <2>3. local'[r] = usbenv["dev"] /\ usbenv["dev"] \in Runs \cup {nil}
    BY <2>1 DEF Load, IInv, CollectorTypeOK, Kinds
  <2>4. Lone(r) => NotYetOpen(r)' /\ Present(r)' /\ Closed(r)'
    BY <1>1, <1>2, <1>5, <2>2, <2>3
       DEF IInv, LoneInv, NotYetOpen, Present, Closed
  <2> QED
    BY <1>1, <1>2, <1>3, <2>1, <2>3, <2>4, ReadingStep DEF Steps, Kinds
<1> QED
  BY <1>4, <1>5

LEMMA SetAutoDetachStep ==
  ASSUME IInv, NEW r \in Runs, SetAutoDetach(r) PROVE IInv'
<1>1. Active(r) /\ pc[r] = [do |-> "detach", kind |-> "dev"]
  BY DEF SetAutoDetach, Active, Idle, At
<1>2. CASE Panic(r)
  BY <1>1, <1>2, EndType, LastStep DEF Panic, IInv, CollectorTypeOK
<1>3. CASE ~Panic(r)
  <2>1. PICK h \in Loaded(r, "dev") :
          /\ h # nil
          /\ Uses(r, "dev", h)
          /\ Goto(r, "open", "config") \/ Goto(r, "reset", "dev")
          /\ Load(r, nil)
          /\ UNCHANGED <<usbenv, open, err, overlapped, inherited>>
    BY <1>3 DEF SetAutoDetach
  <2>2. misused' \subseteq misused \cup {r} /\ err' \in [Runs -> BOOLEAN]
    BY <2>1 DEF Uses, Blame, IInv, CollectorTypeOK
  <2>3. Lone(r) => LoneInv(r) /\ h = usbenv["dev"]
    BY <1>1, <2>1 DEF IInv, LoneInv, Present, Loaded
  <2>4. Lone(r) /\ r \notin inherited => r \notin misused'
    BY <1>1, <2>1, <2>3, CleanHandles DEF Uses, Blame, Kinds
  <2>5. CASE Goto(r, "open", "config")
    <3>1. pc'[r] = [do |-> "open", kind |-> "config"]
      BY <2>5, Moved DEF IInv, Steps, Kinds
    <3>2. Lone(r) => NotYetOpen(r)' /\ Present(r)' /\ Closed(r)'
      BY <1>1, <2>1, <2>3, <3>1
         DEF LoneInv, NotYetOpen, Present, Closed, Parent, From
    <3> QED
      BY <1>1, <2>1, <2>2, <2>4, <2>5, <3>2, ReadingStep DEF Steps, Kinds
  <2>6. CASE Goto(r, "reset", "dev")
    <3>1. pc'[r] = [do |-> "reset", kind |-> "dev"]
      BY <2>6, Moved DEF IInv, Steps, Kinds
    <3>2. Lone(r) => NotYetOpen(r)' /\ Present(r)' /\ Closed(r)'
      BY <2>1, <2>3, <3>1 DEF LoneInv, NotYetOpen, Present, Closed
    <3> QED
      BY <1>1, <2>1, <2>2, <2>4, <2>6, <3>2, ReadingStep DEF Steps, Kinds
  <2> QED
    BY <2>1, <2>5, <2>6
<1> QED
  BY <1>2, <1>3

LEMMA ResetStep == ASSUME IInv, NEW r \in Runs, Reset(r) PROVE IInv'
<1>1. Active(r) /\ pc[r] = [do |-> "reset", kind |-> "dev"]
  BY DEF Reset, Active, Idle, At
<1>2. CASE Panic(r)
  BY <1>1, <1>2, EndType, LastStep DEF Panic, IInv, CollectorTypeOK
<1>3. CASE ~Panic(r)
  <2>1. /\ usbenv["dev"] # nil
        /\ Uses(r, "dev", usbenv["dev"])
        /\ Close(r)
        /\ UNCHANGED <<usbenv, open, local, err, overlapped, inherited>>
    BY <1>3 DEF Reset
  <2>2. misused' \subseteq misused \cup {r} /\ err' \in [Runs -> BOOLEAN]
    BY <2>1 DEF Uses, Blame, IInv, CollectorTypeOK
  <2>3. Lone(r) /\ r \notin inherited => r \notin misused'
    BY <1>1, <2>1, CleanHandles DEF Uses, Blame, Kinds
  <2>4. Load(r, local[r]) /\ local[r] \in Runs \cup {nil}
    BY <2>1 DEF Load, IInv, CollectorTypeOK
  <2> QED
    BY <1>1, <2>1, <2>2, <2>3, <2>4, CloseNext
<1> QED
  BY <1>2, <1>3

-----------------------------------------------------------------------------
(* Get_Environment and Save *)

LEMMA CheckAvailableStep ==
  ASSUME IInv, NEW r \in Runs, CheckAvailable(r) PROVE IInv'
<1>1. Active(r) /\ pc[r] = [do |-> "get", kind |-> "dev"]
  BY DEF CheckAvailable, Active, Idle, At
<1>2. /\ UNCHANGED <<usbenv, open, err, overlapped, inherited, misused>>
      /\ Load(r, usbenv["dev"])
      /\ usbenv["dev"] \in Runs \cup {nil}
      /\ err' \in [Runs -> BOOLEAN]
  BY DEF CheckAvailable, blame, IInv, CollectorTypeOK, Kinds
<1>3. Lone(r) /\ r \notin inherited => r \notin misused'
  BY <1>2 DEF IInv, CleanInv
<1>4. CASE usbenv["dev"] = nil
  <2>1. Close(r)
    BY <1>4 DEF CheckAvailable
  <2> QED
    BY <1>1, <1>2, <1>3, <2>1, CloseNext
<1>5. CASE usbenv["dev"] # nil
  <2>1. Goto(r, "control", "dev")
    BY <1>5 DEF CheckAvailable
  <2>2. pc'[r] = [do |-> "control", kind |-> "dev"]
    BY <2>1, Moved DEF IInv, Steps, Kinds
  <2>3. local'[r] = usbenv["dev"]
    BY <1>2 DEF Load, IInv, CollectorTypeOK
  <2>4. NotYetOpen(r)' /\ Present(r)' /\ Closed(r)'
    BY <1>2, <1>5, <2>2, <2>3 DEF NotYetOpen, Present, Closed
  <2> QED
    BY <1>1, <1>2, <1>3, <2>1, <2>4, ReadingStep DEF Steps, Kinds
<1> QED
  BY <1>4, <1>5

LEMMA BeginControlStep ==
  ASSUME IInv, NEW r \in Runs, BeginControl(r) PROVE IInv'
<1>1. Active(r) /\ pc[r] = [do |-> "control", kind |-> "dev"]
  BY DEF BeginControl, Active, Idle, At
<1>2. CASE Panic(r)
  BY <1>1, <1>2, EndType, LastStep DEF Panic, IInv, CollectorTypeOK
<1>3. CASE ~Panic(r)
  <2>1. PICK h \in Loaded(r, "dev") :
          /\ h # nil
          /\ Load(r, h)
          /\ Goto(r, "transfer", "dev")
          /\ Uses(r, "dev", h)
          /\ UNCHANGED <<usbenv, open, err, overlapped, inherited>>
    BY <1>3 DEF BeginControl
  <2>2. /\ misused' \subseteq misused \cup {r}
        /\ err' \in [Runs -> BOOLEAN]
        /\ h \in Runs \cup {nil}
    BY <2>1 DEF Uses, Blame, Loaded, IInv, CollectorTypeOK, Kinds
  <2>3. Lone(r) => h = usbenv["dev"]
    BY <1>1, <2>1 DEF IInv, LoneInv, Present, Loaded
  <2>4. Lone(r) /\ r \notin inherited => r \notin misused'
    BY <1>1, <2>1, <2>3, CleanHandles DEF Uses, Blame, Kinds
  <2>5. pc'[r] = [do |-> "transfer", kind |-> "dev"]
    BY <2>1, Moved DEF IInv, Steps, Kinds
  <2>6. NotYetOpen(r)' /\ Present(r)' /\ Closed(r)'
    BY <2>5 DEF NotYetOpen, Present, Closed
  <2> QED
    BY <1>1, <2>1, <2>2, <2>3, <2>4, <2>6, ReadingStep DEF Steps, Kinds
<1> QED
  BY <1>2, <1>3

LEMMA EndControlStep == ASSUME IInv, NEW r \in Runs, EndControl(r) PROVE IInv'
<1>1. Active(r) /\ pc[r] = [do |-> "transfer", kind |-> "dev"]
  BY DEF EndControl, Active, Idle, At
<1>2. /\ Uses(r, "dev", local[r])
      /\ Goto(r, "save", "dev") \/ Close(r)
      /\ Load(r, nil)
      /\ UNCHANGED <<usbenv, open, err, overlapped, inherited>>
  BY DEF EndControl
<1>3. misused' \subseteq misused \cup {r} /\ err' \in [Runs -> BOOLEAN]
  BY <1>2 DEF Uses, Blame, IInv, CollectorTypeOK
<1>4. Lone(r) /\ r \notin inherited => r \notin misused'
  <2> SUFFICES ASSUME Lone(r), r \notin inherited PROVE r \notin misused'
    OBVIOUS
  <2>1. local[r] = usbenv["dev"] /\ local[r] # nil
    BY <1>1 DEF IInv, CleanInv, CollectorTypeOK
  <2> QED
    BY <1>1, <1>2, <2>1, CleanHandles DEF Uses, Blame, Kinds
<1>5. CASE Goto(r, "save", "dev")
  <2>1. pc'[r] = [do |-> "save", kind |-> "dev"]
    BY <1>5, Moved DEF IInv, Steps, Kinds
  <2>2. NotYetOpen(r)' /\ Present(r)' /\ Closed(r)'
    BY <2>1 DEF NotYetOpen, Present, Closed
  <2> QED
    BY <1>1, <1>2, <1>3, <1>4, <1>5, <2>2, ReadingStep DEF Steps, Kinds
<1>6. CASE Close(r)
  BY <1>1, <1>2, <1>3, <1>4, <1>6, CloseNext
<1> QED
  BY <1>2, <1>5, <1>6

LEMMA SaveStep == ASSUME IInv, NEW r \in Runs, Save(r) PROVE IInv'
<1>1. Active(r) /\ pc[r] = [do |-> "save", kind |-> "dev"]
  BY DEF Save, Active, Idle, At
<1>2. /\ Close(r)
      /\ UNCHANGED <<usbenv, open, local, err, overlapped, inherited, misused>>
  BY DEF Save, blame
<1>3. /\ Load(r, local[r])
      /\ local[r] \in Runs \cup {nil}
      /\ err' \in [Runs -> BOOLEAN]
  BY <1>2 DEF Load, IInv, CollectorTypeOK
<1>4. Lone(r) /\ r \notin inherited => r \notin misused'
  BY <1>2 DEF IInv, CleanInv
<1> QED
  BY <1>1, <1>2, <1>3, <1>4, CloseNext

-----------------------------------------------------------------------------
(* USB_close *)

\* Closing k leaves nothing of the kinds opened on it.
LEMMA FromParent ==
  ASSUME NEW k \in Kinds \ {"ctx"}
  PROVE  Parent[k] \in Kinds /\ From[Parent[k]] \ {Parent[k]} = From[k]
  BY DEF Parent, From, Kinds

LEMMA CheckOpenStep ==
  ASSUME IInv, NEW r \in Runs, NEW k \in Kinds, CheckOpen(r, k) PROVE IInv'
<1>1. Active(r) /\ pc[r] = [do |-> "close", kind |-> k]
  BY DEF CheckOpen, Active, Idle, At
<1>2. UNCHANGED <<usbenv, open>>
  BY DEF CheckOpen
<1>3. CASE usbenv[k] = nil /\ k = "ctx"
  <2>1. End(r)
    BY <1>3 DEF CheckOpen, NextClose
  <2> QED
    BY <1>1, <1>2, <2>1, EndType, LastStep DEF IInv, CollectorTypeOK
<1>4. CASE usbenv[k] = nil /\ k # "ctx"
  <2>1. /\ Goto(r, "close", Parent[k])
        /\ UNCHANGED <<local, err, overlapped, inherited, misused>>
    BY <1>4 DEF CheckOpen, NextClose, blame
  <2>2. /\ Load(r, local[r])
        /\ local[r] \in Runs \cup {nil}
        /\ err' \in [Runs -> BOOLEAN]
    BY <2>1 DEF Load, IInv, CollectorTypeOK
  <2>3. /\ Parent[k] \in Kinds
        /\ From[Parent[k]] \ {Parent[k]} = From[k]
    BY <1>4, FromParent
  <2>4. pc'[r] = [do |-> "close", kind |-> Parent[k]]
    BY <2>1, <2>3, Moved DEF IInv, Steps
  <2>5. Lone(r) => NotYetOpen(r)' /\ Present(r)' /\ Closed(r)'
    <3> SUFFICES ASSUME Lone(r)
                 PROVE  NotYetOpen(r)' /\ Present(r)' /\ Closed(r)'
      OBVIOUS
    <3>1. \A j \in From[k] : usbenv[j] = nil
      BY <1>1, <1>4 DEF IInv, LoneInv, Closed
    <3> QED
      BY <1>2, <2>3, <2>4, <3>1 DEF NotYetOpen, Present, Closed
  <2>6. Lone(r) /\ r \notin inherited => r \notin misused'
    BY <2>1 DEF IInv, CleanInv
  <2> QED
    BY <1>1, <1>2, <2>1, <2>2, <2>3, <2>5, <2>6, ReadingStep DEF Steps
<1>5. CASE usbenv[k] # nil
  <2>1. /\ Load(r, usbenv[k])
        /\ Goto(r, "closing", k)
        /\ UNCHANGED <<err, overlapped, inherited, misused>>
    BY <1>5 DEF CheckOpen, blame
  <2>2. usbenv[k] \in Runs \cup {nil} /\ err' \in [Runs -> BOOLEAN]
    BY <2>1 DEF IInv, CollectorTypeOK
  <2>3. local'[r] = usbenv[k]
    BY <2>1 DEF Load, IInv, CollectorTypeOK
  <2>4. pc'[r] = [do |-> "closing", kind |-> k]
    BY <2>1, Moved DEF IInv, Steps
  <2>5. Lone(r) => NotYetOpen(r)' /\ Present(r)' /\ Closed(r)'
    BY <1>1, <1>2, <1>5, <2>3, <2>4
       DEF IInv, LoneInv, NotYetOpen, Present, Closed
  <2>6. Lone(r) /\ r \notin inherited => r \notin misused'
    BY <2>1 DEF IInv, CleanInv
  <2> QED
    BY <1>1, <1>2, <2>1, <2>2, <2>5, <2>6, ReadingStep DEF Steps
<1> QED
  BY <1>3, <1>4, <1>5

LEMMA CloseHandleStep ==
  ASSUME IInv, NEW r \in Runs, NEW k \in Kinds, CloseHandle(r, k) PROVE IInv'
<1>1. Active(r) /\ pc[r] = [do |-> "closing", kind |-> k]
  BY DEF CloseHandle, Active, Idle, At
<1>2. CASE Panic(r)
  BY <1>1, <1>2, EndType, LastStep DEF Panic, IInv, CollectorTypeOK
<1>3. CASE ~Panic(r)
  <2>1. PICK h \in Loaded(r, k) :
          /\ h # nil
          /\ open' = [open EXCEPT ![k] = @ \ {h}]
          /\ Blame(r, h \notin open[k] \/ OutOfOrder(k, h))
          /\ Goto(r, "clear", k)
          /\ Load(r, nil)
          /\ UNCHANGED <<usbenv, err, overlapped, inherited>>
    BY <1>3 DEF CloseHandle
  <2>2. /\ pc'[r] = [do |-> "clear", kind |-> k]
        /\ Active(r)'
        /\ \A s \in Runs \ {r} : pc'[s] = pc[s]
        /\ pc' \in [Runs -> [do : Steps, kind : Kinds]]
    BY <2>1, Moved DEF IInv, Steps
  <2>3. misused' \subseteq misused \cup {r}
    BY <2>1 DEF Blame
  <2>4. CollectorTypeOK'
    <3>1. /\ local' \in [Runs -> Runs \cup {nil}]
          /\ \A s \in Runs \ {r} : local'[s] = local[s]
      BY <2>1 DEF Load, IInv, CollectorTypeOK
    <3> QED
      BY <2>1, <2>2, <2>3, <3>1 DEF IInv, CollectorTypeOK
  <2>5. ASSUME Lone(r) PROVE Kept(r)
    <3>1. LoneInv(r)
      BY <2>5 DEF IInv
    <3>2. h = usbenv[k]
      BY <1>1, <2>1, <3>1 DEF LoneInv, Present, Loaded
    <3>3. \A j \in Kinds : r \in open'[j] => j # k /\ r \in open[j]
      BY <2>1, <3>1, <3>2 DEF LoneInv, Reachable, IInv, CollectorTypeOK
    <3>4. \A j \in From[k] \ {k} : usbenv[j] = nil
      BY <1>1, <3>1 DEF LoneInv, Closed
    <3>5. Reachable(r)' /\ NotYetOpen(r)' /\ Present(r)' /\ Closed(r)'
      BY <2>1, <2>2, <3>1, <3>3, <3>4
         DEF LoneInv, Reachable, NotYetOpen, Present, Closed
    <3>6. ASSUME r \notin inherited PROVE CleanInv(r)'
      <4>1. CleanInv(r)
        BY <2>5, <3>6 DEF IInv
      <4>2. h = r /\ r \in open[k]
        BY <1>1, <2>1, <2>5, <3>2, <3>6, CleanHandles
      <4>3. k # "iface" => r \notin open[Child[k]]
        BY <3>1, <3>4, NilAssumption
           DEF LoneInv, Reachable, Child, From, Kinds
      <4>4. k # "ctx" => r \in open[Parent[k]]
        BY <4>1, <4>2 DEF CleanInv
      <4>5. r \notin misused'
        BY <2>1, <4>1, <4>2, <4>3, <4>4 DEF CleanInv, Blame, OutOfOrder
      <4>6. \A j \in Kinds :
              usbenv[j] = r /\ pc'[r] # At("clear", j) => r \in open'[j]
        <5> SUFFICES ASSUME NEW j \in Kinds, usbenv[j] = r,
                            pc'[r] # At("clear", j)
                     PROVE  r \in open'[j]
          OBVIOUS
        <5>1. j # k
          BY <2>2 DEF At
        <5>2. pc[r] # At("clear", j)
          BY <1>1 DEF At
        <5>3. r \in open[j]
          BY <4>1, <5>2 DEF CleanInv
        <5> QED
          BY <2>1, <5>1, <5>3 DEF IInv, CollectorTypeOK
      <4>7. ASSUME NEW j \in Kinds \ {"ctx"}, r \in open'[j]
            PROVE  r \in open'[Parent[j]]
        <5>1. r \in open[j] /\ r \in open[Parent[j]]
          BY <3>3, <4>1, <4>7 DEF CleanInv
        <5>2. Parent[j] = k => j = Child[k] /\ k # "iface"
          BY DEF Parent, Child, Kinds
        <5>3. Parent[j] # k
          BY <4>3, <5>1, <5>2
        <5> QED
          BY <2>1, <5>1, <5>3 DEF IInv, CollectorTypeOK, Parent, Kinds
      <4> QED
        BY <2>1, <2>2, <4>1, <4>5, <4>6, <4>7 DEF CleanInv
    <3> QED
      BY <3>5, <3>6 DEF Kept
  <2> QED
    BY <1>1, <2>1, <2>2, <2>3, <2>4, <2>5, OneCallback
<1> QED
  BY <1>2, <1>3

LEMMA ClearPointerStep ==
  ASSUME IInv, NEW r \in Runs, NEW k \in Kinds, ClearPointer(r, k) PROVE IInv'
<1>1. Active(r) /\ pc[r] = [do |-> "clear", kind |-> k]
  BY DEF ClearPointer, Active, Idle, At
<1>2. /\ usbenv' = [usbenv EXCEPT ![k] = nil]
      /\ usbenv' \in [Kinds -> Runs \cup {nil}]
      /\ UNCHANGED open
  BY DEF ClearPointer, IInv, CollectorTypeOK
<1>3. CASE k = "ctx"
  <2>1. End(r)
    BY <1>3 DEF ClearPointer, NextClose
  <2> QED
    BY <1>1, <1>2, <2>1, EndType, LastStep DEF IInv, CollectorTypeOK
<1>4. CASE k # "ctx"
  <2>1. /\ Goto(r, "close", Parent[k])
        /\ UNCHANGED <<local, err, overlapped, inherited, misused>>
    BY <1>4 DEF ClearPointer, NextClose, blame
  <2>2. /\ Parent[k] \in Kinds
        /\ From[Parent[k]] \ {Parent[k]} = From[k]
    BY <1>4, FromParent
  <2>3. /\ pc'[r] = [do |-> "close", kind |-> Parent[k]]
        /\ Active(r)'
        /\ \A s \in Runs \ {r} : pc'[s] = pc[s]
        /\ pc' \in [Runs -> [do : Steps, kind : Kinds]]
    BY <2>1, <2>2, Moved DEF IInv, Steps
  <2>4. CollectorTypeOK'
    BY <1>2, <2>1, <2>3 DEF IInv, CollectorTypeOK
  <2>5. ASSUME Lone(r) PROVE Kept(r)
    <3>1. LoneInv(r)
      BY <2>5 DEF IInv
    <3>2. r \notin open[k] /\ \A j \in From[k] \ {k} : usbenv[j] = nil
      BY <1>1, <3>1 DEF LoneInv, Closed
    <3>3. \A j \in From[k] : usbenv'[j] = nil
      <4>1. From[k] \subseteq Kinds
        BY DEF From, Kinds
      <4> QED
        BY <1>2, <3>2, <4>1 DEF IInv, CollectorTypeOK
    <3>4. Reachable(r)'
      BY <1>2, <3>1, <3>2 DEF LoneInv, Reachable, IInv, CollectorTypeOK
    <3>5. NotYetOpen(r)' /\ Present(r)' /\ Closed(r)'
      BY <2>2, <2>3, <3>3 DEF NotYetOpen, Present, Closed
    <3>6. ASSUME r \notin inherited PROVE CleanInv(r)'
      <4>1. CleanInv(r)
        BY <2>5, <3>6 DEF IInv
      <4>2. \A j \in Kinds \ {k} : pc[r] # At("clear", j)
        BY <1>1 DEF At
      <4>3. \A j \in Kinds : usbenv'[j] = IF j = k THEN nil ELSE usbenv[j]
        BY <1>2 DEF IInv, CollectorTypeOK
      <4>4. \A j \in Kinds : usbenv'[j] \in {nil, r}
        BY <4>1, <4>3 DEF CleanInv
      <4>5. \A j \in Kinds : usbenv'[j] = r => r \in open'[j]
        BY <1>2, <4>1, <4>2, <4>3, NilAssumption DEF CleanInv
      <4> QED
        BY <1>2, <2>1, <2>3, <4>1, <4>4, <4>5 DEF CleanInv
    <3> QED
      BY <3>4, <3>5, <3>6 DEF Kept
  <2> QED
    BY <1>1, <2>1, <2>3, <2>4, <2>5, OneCallback
<1> QED
  BY <1>3, <1>4

-----------------------------------------------------------------------------
(* The theorems *)

LEMMA StepIInv == IInv /\ [Next]_vars => IInv'
<1> SUFFICES ASSUME IInv, [Next]_vars PROVE IInv'
  OBVIOUS
<1>1. CASE UNCHANGED vars
  <2>1. UNCHANGED <<usbenv, open, pc, local, err, overlapped, inherited, misused>>
    BY <1>1 DEF vars, progress, blame
  <2> QED
    BY <2>1 DEF IInv, CollectorTypeOK, Running, Lone, LoneInv, CleanInv, Active,
                Reachable, NotYetOpen, Present, Closed
<1>2. CASE Restart
  BY <1>2, RestartStep
<1>3. ASSUME NEW r \in Runs, Tick(r) PROVE IInv'
  BY <1>3, TickStep
<1>4. ASSUME NEW r \in Runs, Step(r) PROVE IInv'
  BY <1>4, NewContextStep, BeginOpenStep, EndOpenStep, CheckDeviceStep,
     SetAutoDetachStep, ResetStep, CheckAvailableStep, BeginControlStep,
     EndControlStep, SaveStep, CheckOpenStep, CloseHandleStep, ClearPointerStep
     DEF Step
<1> QED
  BY <1>1, <1>2, <1>3, <1>4 DEF Next

LEMMA IInvAlways == Spec => []IInv
  BY InitIInv, StepIInv, PTL DEF Spec

\* Every pointer, handle and position of a callback stays within its range,
\* and a call in progress has a handle to work on, however many callbacks
\* overlap and set the pointers to nil.
THEOREM CollectorTypeCorrect == Spec => []CollectorTypeOK
<1>1. IInv => CollectorTypeOK
  BY DEF IInv
<1> QED
  BY <1>1, IInvAlways, PTL

\* Using or closing a closed handle, or closing handles in the wrong order,
\* takes callbacks that overlap, or the pointers such callbacks have left.
THEOREM MisuseNeedsOverlap == Spec => []OnlyOverlapsMisuse
<1>1. IInv => OnlyOverlapsMisuse
  BY DEF IInv, OnlyOverlapsMisuse, Running, Lone, CleanInv, CollectorTypeOK
<1> QED
  BY <1>1, IInvAlways, PTL

\* A lone callback meets no nil pointer where it would panic, so it ends by
\* USB_close having dealt with the context.
LEMMA LoneEnds ==
  ASSUME IInv, NEW r \in Runs, Step(r), Lone(r), ~Active(r)'
  PROVE  \/ CheckOpen(r, "ctx") /\ usbenv["ctx"] = nil
         \/ ClearPointer(r, "ctx")
<1> DEFINE Stays == \E do \in Steps \ {"idle"}, k \in Kinds : Goto(r, do, k)
<1>1. ~Stays
  BY Moved DEF IInv
<1>2. LoneInv(r) /\ Present(r)
  BY DEF IInv, LoneInv
<1>3. NewContext(r) \/ CheckDevice(r) \/ CheckAvailable(r) \/ EndControl(r)
      \/ Save(r) => Stays
  BY DEF NewContext, CheckDevice, CheckAvailable, EndControl, Save, Close, Steps,
         Kinds
<1>4. Reset(r) => Stays
  BY <1>2 DEF Reset, Present, At, Close, Steps, Kinds
<1>5. SetAutoDetach(r) \/ BeginControl(r) => Stays
  BY <1>2 DEF SetAutoDetach, BeginControl, Loaded, Present, At, Steps, Kinds
<1>6. ASSUME NEW k \in Kinds \ {"ctx"}
      PROVE  BeginOpen(r, k) \/ EndOpen(r, k) => Stays
  <2>1. BeginOpen(r, k) => Stays
    BY <1>2 DEF BeginOpen, Present, At, Steps
  <2>2. EndOpen(r, k) => Stays
    BY DEF EndOpen, AfterOpen, Steps, Kinds
  <2> QED
    BY <2>1, <2>2
<1>7. ASSUME NEW k \in Kinds PROVE CloseHandle(r, k) => Stays
  BY <1>2 DEF CloseHandle, Loaded, Present, At, Steps
<1>8. ASSUME NEW k \in Kinds
      PROVE  /\ CheckOpen(r, k) => Stays \/ (k = "ctx" /\ usbenv["ctx"] = nil)
             /\ ClearPointer(r, k) => Stays \/ k = "ctx"
  <2>1. k # "ctx" /\ NextClose(r, k) => Stays
    BY FromParent DEF NextClose, Steps
  <2> QED
    BY <2>1 DEF CheckOpen, ClearPointer, Steps
<1> QED
  BY <1>1, <1>3, <1>4, <1>5, <1>6, <1>7, <1>8 DEF Step

LEMMA LoneStep ==
  ASSUME IInv, [Next]_vars, NEW r \in Runs, Active(r), ~Active(r)',
         r \notin overlapped
  PROVE  usbenv' = Nothing /\ \A k \in Kinds : r \notin open'[k]
<1>1. Lone(r) /\ LoneInv(r)
  BY DEF Lone, IInv
<1>2. CASE Restart
  BY <1>2 DEF Restart, Nothing
<1>3. CASE Step(r)
  <2>1. usbenv' \in [Kinds -> Runs \cup {nil}]
    BY StepIInv DEF IInv, CollectorTypeOK
  <2>2. \A k \in From["ctx"] \ {"ctx"} : usbenv[k] = nil
    BY <1>1, <1>3, LoneEnds
       DEF LoneInv, Closed, CheckOpen, ClearPointer, At, Kinds
  <2>3. \A k \in Kinds : usbenv'[k] = nil
    BY <1>1, <1>3, <2>2, LoneEnds
       DEF CheckOpen, ClearPointer, From, Kinds, IInv, CollectorTypeOK
  <2>4. UNCHANGED open
    BY <1>1, <1>3, LoneEnds DEF CheckOpen, ClearPointer
  <2>5. r \notin open["ctx"]
    BY <1>1, <1>3, LoneEnds, NilAssumption
       DEF LoneInv, Reachable, Closed, CheckOpen, ClearPointer, At, Kinds
  <2>6. \A k \in Kinds : r \notin open[k]
    BY <1>1, <2>2, <2>5, NilAssumption DEF LoneInv, Reachable, From, Kinds
  <2> QED
    BY <2>1, <2>3, <2>4, <2>6 DEF Nothing
<1>4. ASSUME NEW s \in Runs, Tick(s) PROVE FALSE
  BY <1>4 DEF Tick, Goto, At, Active, Idle, IInv, CollectorTypeOK
<1>5. ASSUME NEW s \in Runs, Step(s) PROVE s = r
  <2>1. pc[s].do # "idle"
    <3>1. NewContext(s) \/ CheckDevice(s) \/ SetAutoDetach(s) \/ Reset(s)
          \/ CheckAvailable(s) \/ BeginControl(s) \/ EndControl(s) \/ Save(s)
          => pc[s].do # "idle"
      BY DEF NewContext, CheckDevice, SetAutoDetach, Reset, CheckAvailable,
             BeginControl, EndControl, Save, At
    <3>2. \A k \in Kinds : BeginOpen(s, k) \/ EndOpen(s, k) => pc[s].do # "idle"
      BY DEF BeginOpen, EndOpen, At
    <3>3. \A k \in Kinds : CheckOpen(s, k) \/ CloseHandle(s, k)
                         \/ ClearPointer(s, k) => pc[s].do # "idle"
      BY DEF CheckOpen, CloseHandle, ClearPointer, At
    <3> QED
      BY <1>5, <3>1, <3>2, <3>3 DEF Step
  <2> QED
    BY <1>1, <2>1 DEF LoneInv, Active, Idle, At
<1>6. CASE UNCHANGED vars
  BY <1>6 DEF vars, progress, Active
<1> QED
  BY <1>2, <1>3, <1>4, <1>5, <1>6 DEF Next

\* A callback that had usbenv to itself leaves every pointer nil and no handle
\* of its own open, wherever USB_init failed, and whatever callbacks that
\* overlapped before it had left there.
THEOREM LoneCallbackLeavesNothing == Spec => AloneLeavesNothing
<1>1. IInv /\ [Next]_vars =>
        [\A r \in Runs :
           Active(r) /\ ~Active(r)' /\ r \notin overlapped =>
             usbenv' = Nothing /\ \A k \in Kinds : r \notin open'[k]]_vars
  BY LoneStep
<1> QED
  BY <1>1, IInvAlways, PTL DEF Spec, AloneLeavesNothing
=============================================================================
