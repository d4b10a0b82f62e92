--------------------------- MODULE CallersProofs ---------------------------
(* What the two programs can rely on, for every computer, every number of   *)
(* readings and of measurements, and any calls given up.                    *)
EXTENDS Callers, TLAPS

\* The places where the tool calls, by what it calls.
Calling == {"version", "ledOff", "ledOn", "environment"}
SettingLed == {"ledOff", "ledOn"}

EnvWords(s) == Reply(Get_Environment, s, 0).words

\* A request is what one of the two programs asks; while its call runs, that
\* program waits where it made it.
CallOK ==
  /\ caller = "nobody" <=> stage = "idle"
  /\ stage \in {"idle", "asked", "taken", "served", "done"}
  /\ caller \in Programs \cup {"nobody"}
  /\ caller = "tool" => pc \in Calling /\ asked = ToolRequest[pc]
  /\ caller = "collector" => asked = Get_Environment

\* A request that is taken is served before the next one is.
PendingOK ==
  /\ stage = "taken" => pending = asked
  /\ stage \in {"served", "done"} => pending = NoRequest

\* A measurement is known by its number.
NumbersOK == sample \in Nat /\ since \in Nat /\ since <= sample

Recent(words) == \E s \in since .. sample : words = EnvWords(s)

AnswerOK ==
  asked.name = "getEnv" =>
    /\ stage = "served" => Recent(answer.words)
    /\ stage = "done" => result.len = 0 \/ Recent(result.words)

ReportOK ==
  /\ DOMAIN report = Programs
  /\ \A p \in Programs :
       /\ report[p].since \in Nat
       /\ report[p] # NoReport /\ ~Genuine(report[p]) =>
            report[p].outcome = "empty"

\* Only the call that sets the LED, or one the tool gave up before that call,
\* may still change it.
LedOK ==
  /\ commanded \in -1 .. 1
  /\ commanded # -1 =>
       /\ led = commanded
       /\ pending.name # "setLed"
       /\ caller = "tool" => pc \notin SettingLed
  /\ /\ caller = "tool" /\ pc \in SettingLed
     /\ stage \in {"served", "done"} /\ sample = since
     => led = ToolRequest[pc].value

OnOneBus == \A t, u \in found : t.bus = u.bus

\* What the search knows of the busses it is done with, while all
\* thermometers are on one of them.
SearchOK ==
  /\ busses \in Seq(Seq(Devices))
  /\ \A t \in found : t.bus \in Nat /\ t.bus > Len(busses)
  /\ pc \in Calling \cup {"search", "notFound", "exit"}
  /\ handle \in opened \cup {0} \/ pc = "exit"
  /\ pc \in Calling => handle # 0
  /\ pc = "notFound" => handle = 0
  /\ found = {} => handle = 0
  /\ OnOneBus => opened = IF pc = "exit" THEN {} ELSE {handle} \ {0}
  /\ \A t \in found : found = {t} /\ t.device = "opens" => handle # 0

RoundOK ==
  /\ round \in 0 .. Rounds
  /\ pc \in Calling \cup {"search"} => round < Rounds

CallersInv ==
  /\ CallOK /\ PendingOK /\ NumbersOK /\ AnswerOK /\ ReportOK /\ LedOK
  /\ SearchOK /\ RoundOK

-----------------------------------------------------------------------------
(* Requests and answers *)

LEMMA RequestsOfTool ==
  /\ DOMAIN ToolRequest = Calling
  /\ \A p \in Calling :
       /\ ToolRequest[p].name = "setLed" <=> p \in SettingLed
       /\ ToolRequest[p].name = "getEnv" <=> p = "environment"
       /\ ToolRequest[p] # NoRequest
  /\ ToolRequest["ledOff"].value = 0 /\ ToolRequest["ledOn"].value = 1
  BY DEF ToolRequest, Calling, SettingLed, Request, NoRequest

LEMMA PlacesOfTool ==
  /\ NextPlace["version"] = "ledOff" /\ NextPlace["ledOff"] = "ledOn"
  /\ NextPlace["ledOn"] = "environment"
  /\ NextPlace["environment"] = IF round + 1 < Rounds THEN "ledOff" ELSE "exit"
  BY DEF NextPlace

\* The lengths the two programs ask for make no difference to what they get.
LEMMA EnvAnswer ==
  ASSUME NEW r \in {ToolRequest["environment"], Get_Environment}, NEW s, NEW c
  PROVE  Reply(r, s, c).words = EnvWords(s)
<1>1. r.name = "getEnv" /\ r.wLength \in {64, 256}
  BY DEF ToolRequest, Get_Environment, Request
<1>2. FullLength(r) = 16
  BY <1>1 DEF FullLength
<1>3. LimitLength(16, 64) = 16 /\ LimitLength(16, 256) = 16
  BY DEF LimitLength
<1>4. ReplyLength(r) = 16
  BY <1>1, <1>2, <1>3 DEF ReplyLength
<1>5. Get_Environment.name = "getEnv" /\ ReplyLength(Get_Environment) = 16
  <2>1. Get_Environment.name = "getEnv" /\ Get_Environment.wLength = 256
    BY DEF Get_Environment, Request
  <2>2. FullLength(Get_Environment) = 16
    BY <2>1 DEF FullLength
  <2> QED
    BY <1>3, <2>1, <2>2 DEF ReplyLength
<1>6. \A i : ReplyWord(r, s, c, i) = ReplyWord(Get_Environment, s, 0, i)
  BY <1>1, <1>5 DEF ReplyWord
<1> QED
  BY <1>4, <1>5, <1>6 DEF EnvWords, Reply

\* ControlTransfer, as an instance, has the same requests and answers.
LEMMA SameProtocol ==
  /\ Device!NoRequest = NoRequest /\ Device!NoReply = NoReply
  /\ \A r, s, c : Device!Reply(r, s, c) = Reply(r, s, c)
<1>1. \A r : Device!ReplyLength(r) = ReplyLength(r)
  BY DEF Device!ReplyLength, ReplyLength, Device!LimitLength, LimitLength,
         Device!FullLength, FullLength, Device!DescriptorLength,
         DescriptorLength
<1>2. \A n : Device!WordCount(n) = WordCount(n)
  BY DEF Device!WordCount, WordCount
<1>3. \A r, s, c, i : Device!ReplyWord(r, s, c, i) = ReplyWord(r, s, c, i)
  BY DEF Device!ReplyWord, ReplyWord, Device!Word, Word,
         Device!RomWord, RomWord, Device!EnvFields, EnvFields
<1>4. \A r, s, c : Device!Reply(r, s, c) = Reply(r, s, c)
  BY <1>1, <1>2, <1>3 DEF Device!Reply, Reply
<1> QED
  BY <1>4 DEF Device!NoRequest, NoRequest, Device!NoReply, NoReply

USE RoundsAssumption
USE DEF device, transferVars, searchVars, toolVars, Device!hostSide,
        Device!device, Calling, SettingLed, Programs

-----------------------------------------------------------------------------
(* The search *)

LEMMA OpenSearch ==
  ASSUME SearchOK, pc = "search", busses # << >>,
         NEW i \in DOMAIN Head(busses), FirstThermometer(Head(busses), i),
         OpenThermometer(Head(busses)[i]),
         found' = found \cup Thermometers(Head(busses), Len(busses)),
         busses' = Tail(busses), pc' = pc
  PROVE  SearchOK'
<1> DEFINE n == Len(busses)
           d == Head(busses)[i]
           new == Thermometers(Head(busses), n)
           first == [bus |-> n, at |-> i, device |-> d]
<1>1. /\ n \in Nat \ {0} /\ busses' \in Seq(Seq(Devices))
      /\ Len(busses') = n - 1
  BY DEF SearchOK
<1>2. first \in new /\ first.bus = n /\ first.device = d
  BY DEF FirstThermometer, Thermometers
<1>3. \A t \in new : t.bus = n
  BY DEF Thermometers
<1>4. handle' = (IF d = "opens" THEN n ELSE 0)
      /\ opened' = IF d = "opens" THEN opened \cup {n} ELSE opened
  BY DEF OpenThermometer
<1> HIDE DEF n, d, new, first
<1>5. found' = found \cup new
  BY DEF new, n
<1>6. /\ \A t \in found : t.bus \in Nat /\ t.bus > n
      /\ found = {} => handle = 0
      /\ OnOneBus => opened = {handle} \ {0}
  BY DEF SearchOK, n
<1>7. \A t \in found' : t.bus \in Nat /\ t.bus > Len(busses')
  BY <1>1, <1>3, <1>5, <1>6
<1>8. first \in found' /\ found' # {}
  BY <1>2, <1>5
<1>9. OnOneBus' => found = {}
  <2> SUFFICES ASSUME OnOneBus', NEW t \in found PROVE FALSE
    OBVIOUS
  <2>1. t.bus = first.bus
    BY <1>5, <1>8 DEF OnOneBus
  <2> QED
    BY <1>1, <1>2, <1>6, <2>1
<1>10. OnOneBus' => opened' = {handle'} \ {0}
  <2> SUFFICES ASSUME OnOneBus' PROVE opened' = {handle'} \ {0}
    OBVIOUS
  <2>1. opened = {}
    BY <1>6, <1>9 DEF OnOneBus
  <2> QED
    BY <1>1, <1>4, <2>1
<1>11. \A t \in found' : found' = {t} /\ t.device = "opens" => handle' # 0
  BY <1>1, <1>2, <1>4, <1>8
<1>12. handle' \in opened' \cup {0}
  BY <1>4
<1> QED
  BY <1>1, <1>7, <1>8, <1>10, <1>11, <1>12 DEF SearchOK, OnOneBus

LEMMA PassSearch ==
  ASSUME SearchOK, pc = "search", busses # << >>, NoThermometer(Head(busses)),
         found' = found \cup Thermometers(Head(busses), Len(busses)),
         busses' = Tail(busses), UNCHANGED <<pc, handle, opened>>
  PROVE  SearchOK'
<1>1. found' = found
  BY DEF NoThermometer, Thermometers
<1>2. /\ busses' \in Seq(Seq(Devices))
      /\ Len(busses) \in Nat /\ Len(busses') = Len(busses) - 1
  BY DEF SearchOK
<1>3. \A t \in found : t.bus \in Nat /\ t.bus > Len(busses')
  BY <1>2 DEF SearchOK
<1> QED
  BY <1>1, <1>2, <1>3 DEF SearchOK, OnOneBus

LEMMA SearchStep ==
  ASSUME CallersInv, Search
  PROVE  CallersInv'
<1>1. /\ pc = "search"
      /\ UNCHANGED <<stage, asked, pending, answer, result, sample, led, ledon,
                     configuration, caller, since, report, round, buffer,
                     commanded>>
  BY DEF Search
<1>2. caller # "tool"
  BY <1>1 DEF CallersInv, CallOK
<1>3. pc' \in {"search", "notFound", "version"}
  BY <1>1 DEF Search
<1>4. CallOK' /\ PendingOK' /\ NumbersOK' /\ AnswerOK' /\ ReportOK' /\ LedOK'
  BY <1>1, <1>2
     DEF CallersInv, CallOK, PendingOK, NumbersOK, AnswerOK, Recent, ReportOK,
         Genuine, LedOK
<1>5. RoundOK'
  BY <1>1, <1>3 DEF CallersInv, RoundOK
<1>6. CASE busses # << >>
  <2>1. SearchBus /\ busses' = Tail(busses) /\ pc' = pc
    BY <1>6 DEF Search
  <2>2. found' = found \cup Thermometers(Head(busses), Len(busses))
    BY <2>1 DEF SearchBus
  <2>3. CASE NoThermometer(Head(busses)) /\ UNCHANGED <<handle, opened>>
    <3>1. SearchOK'
      BY <1>1, <1>6, <2>1, <2>2, <2>3, PassSearch DEF CallersInv
    <3> QED
      BY <1>4, <1>5, <3>1 DEF CallersInv
  <2>4. ASSUME NEW i \in DOMAIN Head(busses), FirstThermometer(Head(busses), i),
               OpenThermometer(Head(busses)[i])
        PROVE  CallersInv'
    <3>1. SearchOK'
      BY <1>1, <1>6, <2>1, <2>2, <2>4, OpenSearch DEF CallersInv
    <3> QED
      BY <1>4, <1>5, <3>1 DEF CallersInv
  <2> QED
    BY <2>1, <2>3, <2>4 DEF SearchBus
<1>7. CASE busses = << >>
  <2>1. /\ pc' = IF handle = 0 THEN "notFound" ELSE "version"
        /\ UNCHANGED <<busses, handle, opened, found>>
    BY <1>7 DEF Search
  <2>2. SearchOK'
    BY <1>1, <2>1 DEF CallersInv, SearchOK, OnOneBus
  <2> QED
    BY <1>4, <1>5, <2>2 DEF CallersInv
<1> QED
  BY <1>6, <1>7

-----------------------------------------------------------------------------
(* A call begins *)

LEMMA CallStep ==
  ASSUME CallersInv, ToolCalls \/ CollectorCalls
  PROVE  CallersInv'
<1>1. /\ stage = "idle" /\ stage' = "asked" /\ since' = sample
      /\ UNCHANGED <<pending, answer, result, sample, led, ledon,
                     configuration>>
      /\ UNCHANGED <<report, pc, round, busses, handle, opened, found, buffer>>
  BY DEF ToolCalls, CollectorCalls, Call, Device!Ask
<1>2. \/ /\ caller' = "tool" /\ pc \in Calling /\ asked' = ToolRequest[pc]
         /\ commanded' = IF pc \in SettingLed THEN -1 ELSE commanded
      \/ caller' = "collector" /\ asked' = Get_Environment
         /\ commanded' = commanded
  BY RequestsOfTool DEF ToolCalls, CollectorCalls, Call, Device!Ask
<1>3. CallOK' /\ PendingOK' /\ NumbersOK' /\ SearchOK' /\ RoundOK'
  BY <1>1, <1>2
     DEF CallersInv, CallOK, PendingOK, NumbersOK, SearchOK, OnOneBus, RoundOK
<1>4. AnswerOK'
  BY <1>1 DEF AnswerOK
<1>5. ReportOK'
  BY <1>1 DEF CallersInv, ReportOK, Genuine
<1>6. LedOK'
  BY <1>1, <1>2 DEF CallersInv, LedOK
<1> QED
  BY <1>3, <1>4, <1>5, <1>6 DEF CallersInv

-----------------------------------------------------------------------------
(* The thermometer *)

LEMMA AskedKinds ==
  ASSUME CallOK, stage # "idle"
  PROVE  /\ asked # NoRequest
         /\ asked.name = "getEnv" =>
              asked \in {ToolRequest["environment"], Get_Environment}
         /\ asked.name = "setLed" =>
              caller = "tool" /\ pc \in SettingLed /\ asked = ToolRequest[pc]
<1>1. caller \in {"tool", "collector"}
  BY DEF CallOK
<1>2. Get_Environment.name = "getEnv" /\ Get_Environment # NoRequest
  BY DEF Get_Environment, Request, NoRequest
<1> QED
  BY <1>1, <1>2, RequestsOfTool DEF CallOK

\* A measurement makes no reading older.
LEMMA NewerSample ==
  ASSUME NEW a \in Nat, NEW m \in Nat, NEW n \in Nat, m <= n
  PROVE  a .. m \subseteq a .. n
  OBVIOUS

LEMMA MeasureStep ==
  ASSUME CallersInv, Measure
  PROVE  CallersInv'
<1>1. /\ sample' = sample + 1 /\ commanded' = -1
      /\ UNCHANGED <<stage, asked, answer, result, pending, configuration,
                     caller, since, report, pc, round, busses, handle, opened,
                     found, buffer>>
  BY DEF Measure, Device!Measure
<1>2. /\ sample \in Nat /\ sample' \in Nat /\ sample <= sample' /\ since \in Nat
      /\ since <= sample /\ since <= sample' /\ sample' # since
  BY <1>1 DEF CallersInv, NumbersOK
<1>3. CallOK' /\ PendingOK' /\ NumbersOK' /\ SearchOK' /\ RoundOK' /\ LedOK'
  BY <1>1, <1>2
     DEF CallersInv, CallOK, PendingOK, NumbersOK, SearchOK, OnOneBus, RoundOK, LedOK
<1>4. since .. sample \subseteq since' .. sample'
  BY <1>1, <1>2, NewerSample
<1>5. AnswerOK'
  BY <1>1, <1>4 DEF CallersInv, AnswerOK, Recent
<1>6. \A p \in Programs : Genuine(report[p]) => Genuine(report[p])'
  <2> TAKE p \in Programs
  <2>1. report[p].since .. sample \subseteq report[p].since .. sample'
    BY <1>2, NewerSample DEF CallersInv, ReportOK
  <2> QED
    BY <1>1, <2>1 DEF Genuine
<1>7. ReportOK'
  BY <1>1, <1>6 DEF CallersInv, ReportOK
<1> QED
  BY <1>3, <1>5, <1>7 DEF CallersInv

LEMMA TransferStepInv ==
  ASSUME CallersInv, TransferStep
  PROVE  CallersInv'
<1>1. UNCHANGED <<caller, since, report, pc, round, busses, handle, opened,
                  found, buffer, commanded, asked, sample>>
  BY DEF TransferStep, Device!Take, Device!Serve, Device!Return, Device!Effect,
         EndEmpty
<1>2. SearchOK' /\ RoundOK' /\ NumbersOK'
  BY <1>1 DEF CallersInv, SearchOK, OnOneBus, RoundOK, NumbersOK
<1>3. ReportOK'
  BY <1>1 DEF CallersInv, ReportOK, Genuine
<1>4. Recent(answer.words)' <=>
        \E s \in since .. sample : answer'.words = EnvWords(s)
  BY <1>1 DEF Recent
<1>5. CASE Device!Take
  <2>1. /\ stage = "asked" /\ pending = NoRequest /\ stage' = "taken"
        /\ pending' = asked /\ UNCHANGED <<answer, result, led>>
    BY <1>5, SameProtocol DEF Device!Take
  <2>2. CallOK' /\ PendingOK' /\ AnswerOK'
    BY <1>1, <2>1 DEF CallersInv, CallOK, PendingOK, AnswerOK
  <2>3. LedOK'
    BY <1>1, <2>1, AskedKinds DEF CallersInv, LedOK
  <2> QED
    BY <1>2, <1>3, <2>2, <2>3 DEF CallersInv
<1>6. CASE Device!Serve
  <2>1. /\ pending # NoRequest /\ pending' = NoRequest /\ result' = result
        /\ led' = IF pending.name # "setLed" THEN led
                  ELSE IF pending.value = 0 THEN 0 ELSE 1
        /\ IF stage = "taken"
           THEN /\ stage' = "served"
                /\ answer' = Reply(pending, sample, configuration)
           ELSE UNCHANGED <<stage, answer>>
    BY <1>6, SameProtocol DEF Device!Serve, Device!Effect
  <2>2. stage \notin {"served", "done"}
    BY <2>1 DEF CallersInv, PendingOK
  <2>3. CallOK' /\ PendingOK'
    BY <1>1, <2>1, <2>2 DEF CallersInv, CallOK, PendingOK
  <2>4. AnswerOK'
    <3>1. CASE stage = "taken" /\ asked.name = "getEnv"
      <4>1. answer'.words = EnvWords(sample)
        BY <2>1, <3>1, AskedKinds, EnvAnswer DEF CallersInv, PendingOK
      <4>2. sample \in since .. sample
        BY DEF CallersInv, NumbersOK
      <4>3. Recent(answer.words)'
        BY <1>4, <4>1, <4>2
      <4> QED
        BY <2>1, <3>1, <4>3 DEF AnswerOK
    <3>2. CASE stage # "taken" \/ asked.name # "getEnv"
      BY <1>1, <2>1, <2>2, <3>2 DEF AnswerOK
    <3> QED
      BY <3>1, <3>2
  <2>5. LedOK'
    <3>1. NoRequest.name # "setLed"
      BY DEF NoRequest
    <3>2. commanded # -1 => led' = led
      BY <2>1 DEF CallersInv, LedOK
    <3>3. ASSUME caller = "tool", pc \in SettingLed, stage = "taken"
          PROVE  led' = ToolRequest[pc].value
      <4>1. pending = ToolRequest[pc] /\ ToolRequest[pc].name = "setLed"
        BY <3>3, RequestsOfTool DEF CallersInv, CallOK, PendingOK
      <4>2. ToolRequest[pc].value \in {0, 1}
        BY <3>3, RequestsOfTool
      <4> QED
        BY <2>1, <4>1, <4>2
    <3> QED
      BY <1>1, <2>1, <2>2, <3>1, <3>2, <3>3 DEF CallersInv, LedOK
  <2> QED
    BY <1>2, <1>3, <2>3, <2>4, <2>5 DEF CallersInv
<1>7. CASE Device!Return \/ EndEmpty
  <2>1. /\ stage = "served" /\ stage' = "done" /\ UNCHANGED <<pending, led>>
        /\ result' = answer \/ result' = NoReply
    BY <1>7, SameProtocol DEF Device!Return, EndEmpty
  <2>2. CallOK' /\ PendingOK' /\ LedOK'
    BY <1>1, <2>1 DEF CallersInv, CallOK, PendingOK, LedOK
  <2>3. AnswerOK'
    <3>1. NoReply.len = 0
      BY DEF NoReply
    <3> QED
      BY <1>1, <2>1, <3>1 DEF CallersInv, AnswerOK, Recent
  <2> QED
    BY <1>2, <1>3, <2>2, <2>3 DEF CallersInv
<1> QED
  BY <1>5, <1>6, <1>7 DEF TransferStep

-----------------------------------------------------------------------------
(* A call ends *)

\* What every return does to the transfer.
LEMMA EndEffect ==
  ASSUME CallersInv, NEW p \in Programs, EndTransfer(p)
  PROVE  /\ caller = p /\ caller' = "nobody"
         /\ stage # "idle" /\ stage' = "idle"
         /\ UNCHANGED <<pending, sample, led, ledon, configuration, since>>
         /\ CallOK' /\ PendingOK' /\ NumbersOK' /\ AnswerOK'
<1>1. /\ caller = p /\ caller' = "nobody" /\ stage' = "idle" /\ stage # "idle"
      /\ asked' = NoRequest
      /\ UNCHANGED <<pending, sample, led, ledon, configuration, since>>
  BY SameProtocol
     DEF EndTransfer, Device!GiveUp, Device!Finish, Device!Leave
<1>2. CallOK' /\ PendingOK' /\ NumbersOK'
  BY <1>1 DEF CallersInv, CallOK, PendingOK, NumbersOK
<1>3. AnswerOK'
  BY <1>1 DEF AnswerOK
<1> QED
  BY <1>1, <1>2, <1>3

\* A reading that is reported is recent, unless no byte of it came.
LEMMA ReportStep ==
  ASSUME CallersInv, NEW p \in Programs, NEW words, Report(p, words),
         asked.name = "getEnv", Outcome # "failed",
         Outcome = "complete" => words = result.words,
         sample' = sample
  PROVE  ReportOK'
<1> DEFINE r == [words |-> words, outcome |-> Outcome, since |-> since]
<1>1. DOMAIN report = Programs /\ DOMAIN report' = Programs
      /\ report'[p] = r /\ \A q \in Programs \ {p} : report'[q] = report[q]
  BY DEF CallersInv, ReportOK, Report
<1>2. r.since \in Nat
  BY DEF CallersInv, NumbersOK
<1>3. r.outcome = "empty" \/ Genuine(r)
  <2>1. CASE Outcome = "empty"
    BY <2>1
  <2>2. CASE Outcome = "complete"
    <3>1. stage = "done" /\ result.len # 0
      BY <2>2 DEF Outcome
    <3>2. Recent(words)
      BY <2>2, <3>1 DEF CallersInv, AnswerOK
    <3> QED
      BY <3>2 DEF Recent, Genuine, EnvWords
  <2> QED
    BY <2>1, <2>2 DEF Outcome
<1> QED
  BY <1>1, <1>2, <1>3 DEF CallersInv, ReportOK, Genuine

LEMMA CollectorStep ==
  ASSUME CallersInv, CollectorReturns
  PROVE  CallersInv'
<1>1. /\ EndTransfer("collector")
      /\ UNCHANGED <<pc, round, busses, handle, opened, found, buffer,
                     commanded>>
      /\ IF Outcome = "failed" THEN UNCHANGED report
         ELSE Report("collector", result.words)
  BY DEF CollectorReturns
<1>2. /\ caller = "collector" /\ caller' = "nobody" /\ stage' = "idle"
      /\ stage # "idle"
      /\ UNCHANGED <<pending, sample, led, since>>
      /\ CallOK' /\ PendingOK' /\ NumbersOK' /\ AnswerOK'
  BY <1>1, EndEffect
<1>3. SearchOK' /\ RoundOK'
  BY <1>1 DEF CallersInv, SearchOK, OnOneBus, RoundOK
<1>4. LedOK'
  BY <1>1, <1>2 DEF CallersInv, LedOK
<1>5. ReportOK'
  <2>1. CASE Outcome = "failed"
    BY <1>1, <1>2, <2>1 DEF CallersInv, ReportOK, Genuine
  <2>2. CASE Outcome # "failed"
    <3>1. asked.name = "getEnv"
      BY <1>2 DEF CallersInv, CallOK, Get_Environment, Request
    <3> QED
      BY <1>1, <1>2, <2>2, <3>1, ReportStep
  <2> QED
    BY <2>1, <2>2
<1> QED
  BY <1>2, <1>3, <1>4, <1>5 DEF CallersInv

LEMMA ToolReturnStep ==
  ASSUME CallersInv, ToolReturns
  PROVE  CallersInv'
<1>1. EndTransfer("tool")
  BY DEF ToolReturns
<1>2. /\ caller = "tool" /\ caller' = "nobody" /\ stage' = "idle"
      /\ UNCHANGED <<pending, sample, led, since>>
      /\ CallOK' /\ PendingOK' /\ NumbersOK' /\ AnswerOK'
  BY <1>1, EndEffect
<1>3. pc \in Calling /\ asked = ToolRequest[pc]
  BY <1>2 DEF CallersInv, CallOK
<1>4. /\ pc = "environment" =>
           /\ round' = round + 1
           /\ pc' = IF round + 1 < Rounds THEN "ledOff" ELSE "exit"
      /\ pc # "environment" =>
           /\ round' = round /\ report' = report
           /\ pc' \in {"ledOff", "ledOn", "environment"}
  BY <1>3, PlacesOfTool DEF ToolReturns
<1>5. RoundOK'
  <2>1. round \in Nat /\ round < Rounds /\ Rounds \in Nat
    BY <1>3 DEF CallersInv, RoundOK
  <2> QED
    BY <1>3, <1>4, <2>1 DEF RoundOK
<1>6. SearchOK'
  <2>1. /\ UNCHANGED <<busses, handle, found>>
        /\ opened' = IF pc' = "exit" THEN opened \ {handle} ELSE opened
    BY DEF ToolReturns
  <2>2. /\ pc' \in {"ledOff", "ledOn", "environment", "exit"}
        /\ pc' # "exit" => pc' \in Calling
        /\ pc' # "notFound"
    BY <1>3, <1>4
  <2>3. /\ busses \in Seq(Seq(Devices))
        /\ \A t \in found : t.bus \in Nat /\ t.bus > Len(busses)
        /\ handle \in opened /\ handle # 0 /\ found # {}
        /\ OnOneBus => opened = {handle}
    BY <1>3 DEF CallersInv, SearchOK
  <2>4. OnOneBus' = OnOneBus
    BY <2>1 DEF OnOneBus
  <2>5. OnOneBus' => opened' = IF pc' = "exit" THEN {} ELSE {handle'} \ {0}
    BY <2>1, <2>3, <2>4
  <2>6. handle' \in opened' \cup {0} \/ pc' = "exit"
    BY <2>1, <2>3
  <2>7. /\ busses' \in Seq(Seq(Devices)) /\ handle' # 0 /\ found' # {}
        /\ \A t \in found' : t.bus \in Nat /\ t.bus > Len(busses')
    BY <2>1, <2>3
  <2> QED
    BY <2>2, <2>5, <2>6, <2>7 DEF SearchOK
<1>7. ReportOK'
  <2>1. CASE UNCHANGED report
    BY <1>2, <2>1 DEF CallersInv, ReportOK, Genuine
  <2>2. CASE pc = "environment" /\ Outcome # "failed"
    <3>1. PICK stack \in {buffer, Garbage} :
            /\ buffer' = IF Outcome = "complete" THEN result.words ELSE stack
            /\ Report("tool", buffer')
      BY <2>2 DEF ToolReturns, PrintEnvironment
    <3>2. asked.name = "getEnv"
      BY <1>3, <2>2, RequestsOfTool
    <3> QED
      BY <1>2, <2>2, <3>1, <3>2, ReportStep
  <2> QED
    BY <1>4, <2>1, <2>2 DEF ToolReturns, PrintEnvironment
<1>8. LedOK'
  <2>1. CASE Outcome # "failed" /\ sample = since /\ pc \in SettingLed
    <3>1. commanded' = ToolRequest[pc].value
      BY <2>1 DEF ToolReturns
    <3>2. stage = "done"
      BY <2>1 DEF Outcome
    <3>3. led = ToolRequest[pc].value /\ pending = NoRequest
      BY <1>2, <2>1, <3>2 DEF CallersInv, LedOK, PendingOK
    <3>4. ToolRequest[pc].value \in -1 .. 1 /\ NoRequest.name # "setLed"
      BY <2>1, RequestsOfTool DEF NoRequest
    <3> QED
      BY <1>2, <3>1, <3>3, <3>4 DEF LedOK
  <2>2. CASE commanded' = commanded
    BY <1>2, <2>2 DEF CallersInv, LedOK
  <2> QED
    BY <2>1, <2>2 DEF ToolReturns
<1> QED
  BY <1>2, <1>5, <1>6, <1>7, <1>8 DEF CallersInv

-----------------------------------------------------------------------------
(* The invariant, and what follows from it *)

LEMMA InitCallersInv == Init => CallersInv
<1> SUFFICES ASSUME Init PROVE CallersInv
  OBVIOUS
<1>1. CallOK /\ PendingOK /\ NumbersOK /\ AnswerOK /\ LedOK
  BY DEF Init, CallOK, PendingOK, NumbersOK, AnswerOK, LedOK, NoRequest
<1>2. ReportOK
  BY DEF Init, ReportOK, NoReport
<1>3. SearchOK
  <2>1. busses \in Seq(Seq(Devices))
    BY TreesAssumption DEF Init
  <2> QED
    BY <2>1 DEF Init, SearchOK
<1>4. RoundOK
  BY DEF Init, RoundOK
<1> QED
  BY <1>1, <1>2, <1>3, <1>4 DEF CallersInv

LEMMA StepCallersInv == CallersInv /\ [Next]_vars => CallersInv'
<1> SUFFICES ASSUME CallersInv, [Next]_vars PROVE CallersInv'
  OBVIOUS
<1>1. CASE Search
  BY <1>1, SearchStep
<1>2. CASE ToolReturns
  BY <1>2, ToolReturnStep
<1>3. CASE ToolCalls \/ CollectorCalls
  BY <1>3, CallStep
<1>4. CASE CollectorReturns
  BY <1>4, CollectorStep
<1>5. CASE TransferStep
  BY <1>5, TransferStepInv
<1>6. CASE Measure
  BY <1>6, MeasureStep
<1>7. CASE UNCHANGED vars
  <2>1. UNCHANGED <<stage, asked, pending, answer, result, sample, led,
                    caller, since, report, pc, round, busses, handle, opened,
                    found, commanded>>
    BY <1>7 DEF vars
  <2>2. CallOK' /\ PendingOK' /\ NumbersOK' /\ AnswerOK'
    BY <2>1 DEF CallersInv, CallOK, PendingOK, NumbersOK, AnswerOK, Recent
  <2>3. ReportOK' /\ LedOK' /\ SearchOK' /\ RoundOK'
    BY <2>1 DEF CallersInv, ReportOK, Genuine, LedOK, SearchOK, OnOneBus, RoundOK
  <2> QED
    BY <2>2, <2>3 DEF CallersInv
<1> QED
  BY <1>1, <1>2, <1>3, <1>4, <1>5, <1>6, <1>7 DEF Next, ToolStep

LEMMA CallersInvAlways == Spec => []CallersInv
  BY InitCallersInv, StepCallersInv, PTL DEF Spec

\* While a call runs somebody waits for it, the tool calls only with a handle,
\* and a handle it holds is open (main, ue_get_environment).
THEOREM CallersTypeCorrect == Spec => []CallersTypeOK
<1>1. CallersInv => CallersTypeOK
  BY RequestsOfTool
     DEF CallersInv, CallersTypeOK, CallOK, SearchOK, RoundOK, LedOK
<1> QED
  BY <1>1, CallersInvAlways, PTL

\* Whatever calls were given up, by either program, and whatever is still
\* pending of them: a reading that is printed (ue_get_environment) or saved
\* (Get_Environment) was measured during its own call, unless no byte came.
THEOREM ReadingsAreRecent == Spec => []OnlyEmptyTransfersMislead
<1>1. CallersInv => OnlyEmptyTransfersMislead
  BY DEF CallersInv, ReportOK, OnlyEmptyTransfersMislead
<1> QED
  BY <1>1, CallersInvAlways, PTL

\* The LED stays as a set_led that succeeded left it (ue_set_led), until the
\* tool sets it again or the firmware blinks.
THEOREM LedStaysAsCommanded == Spec => []LedAsCommanded
<1>1. CallersInv => LedAsCommanded
  BY DEF CallersInv, LedOK, LedAsCommanded
<1> QED
  BY <1>1, CallersInvAlways, PTL

\* Wherever in the search it comes, the only thermometer is found if it can
\* be opened; and what the tool opens on one bus it closes (main).
THEOREM LoneThermometerServed == Spec => []OneThermometerServed
<1>1. CallersInv => OneThermometerServed
  BY DEF CallersInv, SearchOK, OnOneBus, OneThermometerServed
<1> QED
  BY <1>1, CallersInvAlways, PTL
=============================================================================
