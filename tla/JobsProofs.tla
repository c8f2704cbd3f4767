------------------------------ MODULE JobsProofs ------------------------------
(***************************************************************************)
(* The two parts of the shop that mail customers on their own account:     *)
(* the jobs that chase unpaid orders, and the waiting list of a pack.      *)
(***************************************************************************)
EXTENDS Reminders, BackInStock, FiniteSetTheorems, TLAPS

(***************************************************************************)
(* Proofs about the chasing jobs, for any number of orders and schedules.  *)
(* ClaimInv: whoever sends holds a claim nobody else holds, on an order    *)
(* this job has not mailed.  NoticeInv: an order in the hands of a run of  *)
(* the final notice is not old enough to have been released, until the     *)
(* second hour strikes.                                                    *)
(***************************************************************************)

AgeInv == \A o \in Orders : age[o] <= hour

Holds(f) == run[f].at \in {"send", "log", "release"}

ClaimInv ==
  /\ \A f \in Runs : run[f].at \in {"claim", "send", "log", "release"} => run[f].order \in Orders
  /\ \A f \in Runs : Holds(f) => run[f].order \in claimed[Job(f)]
  /\ \A f, g \in Runs : Holds(f) /\ Holds(g) /\ Job(f) = Job(g) /\ run[f].order = run[g].order => f = g
  /\ \A f \in Runs : Holds(f) /\ ~(run[f].at = "log" /\ run[f].result = "sent")
                          => sent[Job(f)][run[f].order] = 0
  /\ \A j \in Jobs, o \in Orders : o \notin claimed[j] => sent[j][o] = 0
  /\ AtMostOneMail

Handles(f) == run[f].todo \cup {run[f].order}

NoticeInv ==
  /\ \A o \in Orders : status[o] = "released" => age[o] >= ReleaseAfter
  /\ \A f \in Runs : Job(f) = "final_notice" /\ run[f].at # "idle" /\ run[f].strikes < 2 =>
       \A o \in Orders \cap Handles(f) : age[o] <= 46 + run[f].strikes

LEMMA JobType == \A f \in Runs : Job(f) \in Jobs
BY EntriesAssumption DEF Runs, Job

LEMMA RunType == TypeOK => schedule \X Slots \subseteq Runs
BY DEF TypeOK, Runs

IInv == TypeOK /\ AgeInv /\ ClaimInv /\ NoticeInv

LEMMA IInvInit == Init => IInv
<1> SUFFICES ASSUME Init PROVE IInv
  OBVIOUS
<1>1. Idle \in RunStates /\ run \in [Runs -> RunStates] /\ \A f \in Runs : run[f].at = "idle"
  BY DEF Init, Idle, RunStates
<1>2. age \in [Orders -> -1 .. LastHour] /\ AgeInv
  BY TimesAssumption DEF Init, AgeInv
<1>3. TypeOK
  BY <1>1, <1>2, TimesAssumption, EntriesAssumption DEF Init, TypeOK, Status
<1>4. ClaimInv
  BY <1>1 DEF Init, ClaimInv, Holds, AtMostOneMail
<1>5. NoticeInv
  BY <1>1 DEF Init, NoticeInv
<1> QED
  BY <1>2, <1>3, <1>4, <1>5 DEF IInv

\* A step of a run changes its own record only, to another record of the type.
LEMMA RunFacts ==
  ASSUME TypeOK, ClaimInv, NEW f \in Runs,
         Fire(f) \/ EndRun(f) \/ Check(f) \/ Claim(f) \/ Send(f) \/ Log(f) \/ Release(f) \/ Lapse(f)
  PROVE  /\ run' \in [Runs -> RunStates]
         /\ \A g \in Runs : g # f => run'[g] = run[g]
         /\ UNCHANGED <<schedule, hour, age, status>>
<1>1. run \in [Runs -> RunStates] /\ run[f] \in RunStates
  BY DEF TypeOK, Runs
<1>2. UNCHANGED <<schedule, hour, age, status>>
  BY DEF Fire, EndRun, Check, Claim, Send, Log, Release, Lapse, order_
<1>3. Idle \in RunStates /\ Continue(f) \in RunStates
  <2>1. Idle \in RunStates
    BY DEF Idle, RunStates
  <2>2. Continue(f) \in RunStates
    BY <1>1 DEF RunStates, Continue
  <2> QED
    BY <2>1, <2>2
<1>4. \A step \in {"send", "release", "log"} : To(f, step) \in RunStates
  BY <1>1 DEF RunStates, To
<1>5. \E r \in RunStates : Become(f, r) \/ run' = run
  <2>1. CASE Fire(f)
    <3>1. PICK b \in Batches(Job(f)) : Become(f, IF b = {} THEN Idle ELSE [Idle EXCEPT !.at = "next", !.todo = b])
      BY <2>1 DEF Fire
    <3>2. [Idle EXCEPT !.at = "next", !.todo = b] \in RunStates
      BY <1>3 DEF RunStates, Batches, Candidates
    <3> QED
      BY <1>3, <3>1, <3>2
  <2>2. CASE EndRun(f) \/ Lapse(f)
    BY <1>3, <2>2 DEF EndRun, Lapse
  <2>3. CASE Check(f)
    <3>1. PICK o \in run[f].todo :
            LET rest == [run[f] EXCEPT !.todo = @ \ {o}]
            IN  Become(f, IF o \in logged[Job(f)] THEN rest ELSE [rest EXCEPT !.at = "claim", !.order = o])
      BY <2>3 DEF Check
    <3> DEFINE rest == [run[f] EXCEPT !.todo = @ \ {o}]
    <3>2. o \in Orders /\ rest \in RunStates
      BY <1>1, <3>1 DEF RunStates
    <3>3. [rest EXCEPT !.at = "claim", !.order = o] \in RunStates
      BY <3>2 DEF RunStates
    <3> QED
      BY <3>1, <3>2, <3>3
  <2>4. CASE Claim(f) \/ Log(f) \/ Release(f)
    BY <1>3, <1>4, <2>4 DEF Claim, Log, Release
  <2>5. CASE Send(f)
    <3>1. PICK result \in Results : Become(f, [To(f, "log") EXCEPT !.result = result])
      BY <2>5 DEF Send
    <3>2. [To(f, "log") EXCEPT !.result = result] \in RunStates
      BY <1>4 DEF RunStates
    <3> QED
      BY <3>1, <3>2
  <2> QED
    BY <2>1, <2>2, <2>3, <2>4, <2>5
<1> QED
  BY <1>1, <1>2, <1>5 DEF Become

LEMMA TypeStep == TypeOK /\ AgeInv /\ ClaimInv /\ [Next]_vars => TypeOK' /\ AgeInv'
<1> SUFFICES ASSUME TypeOK, AgeInv, ClaimInv, [Next]_vars PROVE TypeOK' /\ AgeInv'
  OBVIOUS
<1> USE DEF order_, mail_
<1>1. CASE Tick
  <2>1. hour' = hour + 1 /\ hour' \in 0 .. LastHour
    BY <1>1, TimesAssumption DEF Tick, TypeOK
  <2>2. ASSUME NEW o \in Orders PROVE age'[o] \in -1 .. LastHour /\ age'[o] <= hour'
    BY <1>1, <2>1, TimesAssumption DEF Tick, TypeOK, AgeInv
  <2>3. age' \in [Orders -> -1 .. LastHour]
    BY <1>1, <2>2 DEF Tick
  <2>4. run' \in [Runs -> RunStates]
    <3>1. ASSUME NEW f \in Runs PROVE Strike(run[f]) \in RunStates
      <4>1. run[f] \in RunStates
        BY DEF TypeOK
      <4> QED
        BY <4>1 DEF RunStates, Strike
    <3>2. run' = [f \in Runs |-> Strike(run[f])]
      BY <1>1 DEF Tick
    <3> QED
      BY <3>1, <3>2
  <2>5. due' \in SUBSET schedule
    BY <1>1 DEF Tick
  <2>6. slow' \in 0 .. MaxSlow
    BY <1>1, TimesAssumption DEF Tick, TypeOK
  <2> QED
    BY <1>1, <2>1, <2>2, <2>3, <2>4, <2>5, <2>6 DEF Tick, TypeOK, AgeInv
<1>2. ASSUME NEW o \in Orders, Place(o) PROVE TypeOK' /\ AgeInv'
  <2>1. age' \in [Orders -> -1 .. LastHour] /\ AgeInv'
    BY <1>2, TimesAssumption DEF Place, TypeOK, AgeInv
  <2> QED
    BY <1>2, <2>1 DEF Place, TypeOK
<1>3. ASSUME NEW o \in Orders, Resolve(o) PROVE TypeOK' /\ AgeInv'
  <2>1. Outcomes(o) \subseteq Status
    BY DEF Outcomes, Status
  <2> QED
    BY <1>3, <2>1 DEF Resolve, TypeOK, AgeInv
<1>4. ASSUME NEW f \in schedule \X Slots,
             Fire(f) \/ EndRun(f) \/ Check(f) \/ Claim(f) \/ Send(f) \/ Log(f) \/ Release(f) \/ Lapse(f)
      PROVE  TypeOK' /\ AgeInv'
  <2>1. f \in Runs /\ Job(f) \in Jobs /\ run[f] \in RunStates
    BY RunType, JobType DEF TypeOK
  <2>2. run' \in [Runs -> RunStates] /\ UNCHANGED <<schedule, hour, age, status>>
    BY <1>4, <2>1, RunFacts
  <2>5. run[f].at \in {"claim", "send", "log", "release"} => run[f].order \in Orders
    BY <2>1 DEF ClaimInv
  <2>6. due' \in SUBSET schedule /\ lapses' \in 0 .. MaxLapses /\ slow' = slow
    <3>1. CASE Lapse(f)
      BY <3>1, TimesAssumption DEF Lapse, TypeOK
    <3> QED
      BY <1>4, <2>2, <3>1 DEF Fire, EndRun, Check, Claim, Send, Log, Release, TypeOK
  <2>7. claimed' \in [Jobs -> SUBSET Orders]
    <3>1. CASE Claim(f)
      BY <2>1, <2>5, <3>1 DEF Claim, TypeOK
    <3>2. CASE Release(f)
      BY <2>1, <3>2 DEF Release, TypeOK
    <3> QED
      BY <1>4, <3>1, <3>2 DEF Fire, EndRun, Check, Send, Log, Lapse, TypeOK
  <2>8. logged' \in [Jobs -> SUBSET Orders] /\ tried' \in [Jobs -> SUBSET Orders]
    <3>1. CASE Send(f)
      BY <2>1, <2>5, <3>1 DEF Send, TypeOK
    <3>2. CASE Log(f)
      BY <2>1, <2>5, <3>2 DEF Log, TypeOK
    <3> QED
      BY <1>4, <3>1, <3>2 DEF Fire, EndRun, Check, Claim, Release, Lapse, TypeOK
  <2>9. sent' \in [Jobs -> [Orders -> Nat]]
    <3>1. CASE Send(f)
      <4>1. sent[Job(f)] \in [Orders -> Nat]
        BY <2>1 DEF TypeOK
      <4>2. [sent[Job(f)] EXCEPT ![run[f].order] = @ + 1] \in [Orders -> Nat]
        BY <2>5, <3>1, <4>1 DEF Send
      <4>3. sent' = sent \/ sent' = [sent EXCEPT ![Job(f)] = [sent[Job(f)] EXCEPT ![run[f].order] = @ + 1]]
        BY <3>1 DEF Send
      <4> QED
        BY <2>1, <4>2, <4>3 DEF TypeOK
    <3> QED
      BY <1>4, <3>1 DEF Fire, EndRun, Check, Claim, Log, Release, Lapse, TypeOK
  <2>10. leftOut' \in [Jobs -> SUBSET Orders]
    <3>1. CASE Fire(f)
      BY <2>1, <3>1 DEF Fire, TypeOK, Candidates
    <3> QED
      BY <1>4, <3>1 DEF EndRun, Check, Claim, Send, Log, Release, Lapse, TypeOK
  <2> QED
    BY <2>2, <2>6, <2>7, <2>8, <2>9, <2>10 DEF TypeOK, AgeInv
<1>5. CASE UNCHANGED vars
  BY <1>5 DEF vars, TypeOK, AgeInv
<1> QED
  BY <1>1, <1>2, <1>3, <1>4, <1>5 DEF Next

\* A run that comes to hold nothing disturbs nobody.
LEMMA HoldsNothing ==
  ASSUME TypeOK, ClaimInv, NEW f \in Runs, \A g \in Runs : g # f => run'[g] = run[g],
         ~Holds(f)', run'[f].at = "claim" => run'[f].order \in Orders,
         UNCHANGED <<claimed, sent>>
  PROVE  ClaimInv'
BY DEF ClaimInv, Holds, AtMostOneMail

LEMMA ClaimStep == TypeOK /\ ClaimInv /\ [Next]_vars => ClaimInv'
<1> SUFFICES ASSUME TypeOK, ClaimInv, [Next]_vars PROVE ClaimInv'
  OBVIOUS
<1> USE DEF order_, mail_
<1>1. CASE Tick
  <2>1. ASSUME NEW f \in Runs
        PROVE  run'[f].at = run[f].at /\ run'[f].order = run[f].order /\ run'[f].result = run[f].result
    <3>1. run[f] \in RunStates
      BY DEF TypeOK, Runs
    <3>2. run'[f] = Strike(run[f])
      BY <1>1 DEF Tick
    <3> QED
      BY <3>1, <3>2 DEF RunStates, Strike
  <2>2. UNCHANGED <<claimed, sent>>
    BY <1>1 DEF Tick
  <2> QED
    BY <2>1, <2>2 DEF ClaimInv, Holds, AtMostOneMail
<1>2. ASSUME UNCHANGED <<run, claimed, sent>> PROVE ClaimInv'
  BY <1>2 DEF ClaimInv, Holds, AtMostOneMail
<1>3. ASSUME NEW o \in Orders, Place(o) \/ Resolve(o) PROVE ClaimInv'
  BY <1>2, <1>3 DEF Place, Resolve
<1>4. ASSUME NEW f \in schedule \X Slots,
             Fire(f) \/ EndRun(f) \/ Check(f) \/ Claim(f) \/ Send(f) \/ Log(f) \/ Release(f) \/ Lapse(f)
      PROVE  ClaimInv'
  <2>1. f \in Runs /\ Job(f) \in Jobs /\ run[f] \in RunStates /\ run \in [Runs -> RunStates]
    BY RunType, JobType DEF TypeOK
  <2>2. \A g \in Runs : g # f => run'[g] = run[g]
    BY <1>4, <2>1, RunFacts
  <2>3. \A r : Become(f, r) => run'[f] = r
    BY <2>1 DEF Become
  <2>4. Continue(f).at = "next" /\ \A step : To(f, step).at = step /\ To(f, step).order = run[f].order /\ To(f, step).result = run[f].result
    BY <2>1 DEF Continue, To, RunStates
  <2>5. Holds(f) => run[f].order \in Orders /\ run[f].order \in claimed[Job(f)]
    BY <2>1 DEF ClaimInv, Holds
  <2>6. \A g \in Runs : g # f /\ Holds(f) /\ Holds(g) /\ Job(g) = Job(f) => run[g].order # run[f].order
    BY <2>1 DEF ClaimInv
  <2>7. CASE Fire(f) \/ EndRun(f)
    <3>1. run'[f].at \in {"next", "idle"} /\ UNCHANGED <<claimed, sent>>
      <4>1. CASE Fire(f)
        <5>1. PICK b \in Batches(Job(f)) : run'[f] = IF b = {} THEN Idle ELSE [Idle EXCEPT !.at = "next", !.todo = b]
          BY <2>3, <4>1 DEF Fire
        <5> QED
          BY <4>1, <5>1 DEF Fire, Idle
      <4>2. CASE EndRun(f)
        BY <2>3, <4>2 DEF EndRun, Idle
      <4> QED
        BY <2>7, <4>1, <4>2
    <3> QED
      BY <2>1, <2>2, <3>1, HoldsNothing DEF Holds
  <2>8. CASE Lapse(f)
    <3>1. CASE run' = run
      BY <1>2, <2>8, <3>1 DEF Lapse
    <3>2. CASE Become(f, Idle)
      <4>1. run'[f].at = "idle" /\ UNCHANGED <<claimed, sent>>
        BY <2>3, <2>8, <3>2 DEF Lapse, Idle
      <4> QED
        BY <2>1, <2>2, <4>1, HoldsNothing DEF Holds
    <3> QED
      BY <2>8, <3>1, <3>2 DEF Lapse
  <2>9. CASE Check(f)
    <3>1. PICK o \in run[f].todo :
            LET rest == [run[f] EXCEPT !.todo = @ \ {o}]
            IN  run'[f] = IF o \in logged[Job(f)] THEN rest ELSE [rest EXCEPT !.at = "claim", !.order = o]
      BY <2>3, <2>9 DEF Check
    <3>2. o \in Orders
      BY <2>1, <3>1 DEF RunStates
    <3>3. run'[f].at = "next" \/ (run'[f].at = "claim" /\ run'[f].order = o)
      BY <2>1, <2>9, <3>1 DEF Check, RunStates
    <3>4. UNCHANGED <<claimed, sent>>
      BY <2>9 DEF Check
    <3> QED
      BY <2>1, <2>2, <3>2, <3>3, <3>4, HoldsNothing DEF Holds
  <2>10. CASE Claim(f)
    <3> DEFINE o == run[f].order
    <3>1. /\ o \in Orders /\ ~Holds(f) /\ sent' = sent
          /\ claimed' = [claimed EXCEPT ![Job(f)] = @ \cup {o}]
          /\ run'[f] = IF Free(Job(f), o) THEN To(f, "send") ELSE Continue(f)
      BY <2>1, <2>3, <2>10 DEF Claim, ClaimInv, Holds
    <3>2. \A j \in Jobs : claimed'[j] = IF j = Job(f) THEN claimed[j] \cup {o} ELSE claimed[j]
      BY <3>1 DEF TypeOK
    <3>3. CASE Free(Job(f), o)
      <4>1. run'[f].at = "send" /\ run'[f].order = o /\ o \notin claimed[Job(f)] /\ sent[Job(f)][o] = 0
        BY <2>1, <2>4, <3>1, <3>3 DEF Free, ClaimInv
      <4>2. \A g \in Runs : Holds(g) /\ Job(g) = Job(f) => run[g].order # o
        BY <4>1 DEF ClaimInv
      <4>3. \A g \in Runs : Job(g) \in Jobs
        BY JobType
      <4>4. \A g \in Runs : run'[g].at \in {"claim", "send", "log", "release"} => run'[g].order \in Orders
        BY <2>2, <3>1, <4>1 DEF ClaimInv
      <4>5. \A g \in Runs : g # f /\ Holds(g)' => Holds(g) /\ run'[g] = run[g]
        BY <2>2 DEF Holds
      <4>6. \A g \in Runs : Holds(g)' => run'[g].order \in claimed'[Job(g)]
        <5>1. ASSUME NEW g \in Runs, g # f, Holds(g)' PROVE run'[g].order \in claimed'[Job(g)]
          <6>1. run'[g].order \in claimed[Job(g)] /\ Job(g) \in Jobs
            BY <4>3, <4>5, <5>1 DEF ClaimInv
          <6> QED
            BY <3>2, <6>1
        <5>2. run'[f].order \in claimed'[Job(f)]
          BY <2>1, <3>2, <4>1
        <5> QED
          BY <5>1, <5>2
      <4>7. \A g, e \in Runs : Holds(g)' /\ Holds(e)' /\ Job(g) = Job(e) /\ run'[g].order = run'[e].order => g = e
        <5>1. ASSUME NEW g \in Runs, g # f, Holds(g)', Job(g) = Job(f) PROVE run'[g].order # o
          BY <4>2, <4>5, <5>1
        <5>2. \A g, e \in Runs : g # f /\ e # f /\ Holds(g)' /\ Holds(e)' /\ Job(g) = Job(e)
                                    /\ run'[g].order = run'[e].order => g = e
          BY <4>5 DEF ClaimInv
        <5> HIDE DEF o
        <5> QED
          BY <4>1, <5>1, <5>2
      <4>8. \A g \in Runs : Holds(g)' /\ ~(run'[g].at = "log" /\ run'[g].result = "sent")
                                => sent'[Job(g)][run'[g].order] = 0
        BY <3>1, <4>1, <4>5 DEF ClaimInv
      <4>9. \A j \in Jobs, p \in Orders : p \notin claimed'[j] => sent'[j][p] = 0
        BY <3>1, <3>2 DEF ClaimInv
      <4> QED
        BY <3>1, <4>4, <4>6, <4>7, <4>8, <4>9 DEF ClaimInv, AtMostOneMail
    <3>4. CASE ~Free(Job(f), o)
      <4>1. run'[f].at = "next"
        BY <2>4, <3>1, <3>4
      <4>2. claimed' = claimed
        BY <2>1, <3>1, <3>4 DEF Free, TypeOK
      <4> QED
        BY <2>1, <2>2, <3>1, <4>1, <4>2, HoldsNothing DEF Holds
    <3> QED
      BY <3>3, <3>4
  <2>11. CASE Send(f)
    <3> DEFINE o == run[f].order
    <3>1. PICK result \in Results :
            /\ Become(f, [To(f, "log") EXCEPT !.result = result])
            /\ sent' = IF result = "sent" THEN [sent EXCEPT ![Job(f)][o] = @ + 1] ELSE sent
      BY <2>11 DEF Send
    <3>2. run'[f].at = "log" /\ run'[f].order = o /\ run'[f].result = result
      <4>1. run'[f] = [To(f, "log") EXCEPT !.result = result]
        BY <2>3, <3>1
      <4> QED
        BY <2>1, <4>1 DEF To, RunStates
    <3>3. Holds(f) /\ claimed' = claimed /\ sent[Job(f)][o] = 0 /\ o \in Orders /\ o \in claimed[Job(f)]
      BY <2>1, <2>5, <2>11 DEF Send, Holds, ClaimInv
    <3>4. /\ sent'[Job(f)][o] = IF result = "sent" THEN 1 ELSE 0
          /\ \A j \in Jobs, p \in Orders : j # Job(f) \/ p # o => sent'[j][p] = sent[j][p]
      BY <2>1, <3>1, <3>3 DEF TypeOK
    <3>5. \A g \in Runs : Job(g) \in Jobs
      BY JobType
    <3>6. ASSUME NEW g \in Runs, Holds(g)', ~(run'[g].at = "log" /\ run'[g].result = "sent")
          PROVE  sent'[Job(g)][run'[g].order] = 0
      <4>1. CASE g = f
        BY <3>2, <3>4, <3>6, <4>1
      <4>2. CASE g # f
        <5>1. Holds(g) /\ run'[g] = run[g] /\ run[g].order \in Orders /\ sent[Job(g)][run[g].order] = 0
          BY <2>2, <3>6, <4>2 DEF Holds, ClaimInv
        <5>2. Job(g) # Job(f) \/ run[g].order # o
          BY <2>6, <3>3, <4>2, <5>1
        <5> QED
          BY <3>4, <3>5, <5>1, <5>2
      <4> QED
        BY <4>1, <4>2
    <3>7. \A j \in Jobs, p \in Orders : (p \notin claimed[j] => sent'[j][p] = 0) /\ sent'[j][p] <= 1
      BY <3>3, <3>4 DEF ClaimInv, AtMostOneMail
    <3>8. \A g \in Runs : Holds(g)' => Holds(g) /\ run'[g].order = run[g].order
      BY <2>2, <3>2, <3>3 DEF Holds
    <3>9. \A g \in Runs : run'[g].at \in {"claim", "send", "log", "release"} => run'[g].order \in Orders
      BY <2>2, <3>2, <3>3 DEF ClaimInv
    <3> QED
      BY <3>3, <3>6, <3>7, <3>8, <3>9 DEF ClaimInv, AtMostOneMail
  <2>12. CASE Log(f)
    <3>1. \/ run'[f] = To(f, "release") /\ run[f].result = "failed"
          \/ run'[f] = Continue(f)
      BY <2>3, <2>12 DEF Log, Releases
    <3>2. Holds(f) /\ run[f].at = "log" /\ UNCHANGED <<claimed, sent>>
      BY <2>12 DEF Log, Holds
    <3>3. CASE run'[f] = Continue(f)
      BY <2>1, <2>2, <2>4, <3>2, <3>3, HoldsNothing DEF Holds
    <3>4. CASE run'[f] = To(f, "release") /\ run[f].result = "failed"
      <4>1. run'[f].at = "release" /\ run'[f].order = run[f].order
        BY <2>4, <3>4
      <4>2. sent[Job(f)][run[f].order] = 0
        BY <2>1, <3>2, <3>4 DEF ClaimInv
      <4> QED
        BY <2>1, <2>2, <3>2, <4>1, <4>2 DEF ClaimInv, Holds, AtMostOneMail
    <3> QED
      BY <3>1, <3>3, <3>4
  <2>13. CASE Release(f)
    <3> DEFINE o == run[f].order
    <3>1. Holds(f) /\ run[f].at = "release" /\ sent' = sent /\ run'[f].at = "next"
          /\ claimed' = [claimed EXCEPT ![Job(f)] = @ \ {o}]
      BY <2>3, <2>4, <2>13 DEF Release, Holds
    <3>2. \A j \in Jobs : claimed'[j] = IF j = Job(f) THEN claimed[j] \ {o} ELSE claimed[j]
      BY <3>1 DEF TypeOK
    <3>3. sent[Job(f)][o] = 0
      BY <2>1, <3>1 DEF ClaimInv
    <3>4. \A g \in Runs : Job(g) \in Jobs
      BY JobType
    <3>5. \A g \in Runs : Holds(g)' => Holds(g) /\ g # f /\ run'[g] = run[g]
      BY <2>2, <3>1 DEF Holds
    <3>6. \A g \in Runs : Holds(g)' => run'[g].order \in claimed'[Job(g)]
      BY <2>6, <3>1, <3>2, <3>4, <3>5 DEF ClaimInv
    <3>7. \A j \in Jobs, p \in Orders : p \notin claimed'[j] => sent'[j][p] = 0
      BY <3>1, <3>2, <3>3 DEF ClaimInv
    <3>8. \A g \in Runs : run'[g].at \in {"claim", "send", "log", "release"} => run'[g].order \in Orders
      BY <2>2, <3>1 DEF ClaimInv
    <3> QED
      BY <3>1, <3>5, <3>6, <3>7, <3>8 DEF ClaimInv, AtMostOneMail
  <2> QED
    BY <1>4, <2>7, <2>8, <2>9, <2>10, <2>11, <2>12, <2>13
<1>5. CASE UNCHANGED vars
  BY <1>2, <1>5 DEF vars
<1> QED
  BY <1>1, <1>3, <1>4, <1>5 DEF Next

\* No step of a run adds an order to those it handles, but the one that begins it.
LEMMA HandlesLess ==
  ASSUME TypeOK, ClaimInv, NEW f \in Runs,
         EndRun(f) \/ Check(f) \/ Claim(f) \/ Send(f) \/ Log(f) \/ Release(f) \/ Lapse(f)
  PROVE  \/ run'[f].at = "idle"
         \/ run[f].at # "idle" /\ Orders \cap Handles(f)' \subseteq Handles(f) /\ run'[f].strikes = run[f].strikes
         \/ run'[f] = run[f]
<1>1. run \in [Runs -> RunStates] /\ run[f] \in RunStates
  BY DEF TypeOK, Runs
<1>2. \A r : Become(f, r) => run'[f] = r
  BY <1>1 DEF Become
<1>3. CASE EndRun(f) \/ Lapse(f)
  <2>1. Become(f, Idle) \/ run' = run
    BY <1>3 DEF EndRun, Lapse
  <2> QED
    BY <1>2, <2>1 DEF Idle
<1>4. CASE Check(f)
  <2>1. PICK o \in run[f].todo :
          LET rest == [run[f] EXCEPT !.todo = @ \ {o}]
          IN  run'[f] = IF o \in logged[Job(f)] THEN rest ELSE [rest EXCEPT !.at = "claim", !.order = o]
    BY <1>2, <1>4 DEF Check
  <2>2. /\ run'[f].todo = run[f].todo \ {o} /\ run'[f].strikes = run[f].strikes
        /\ run'[f].order = o \/ run'[f].order = run[f].order
    BY <1>1, <2>1 DEF RunStates
  <2>3. run[f].at = "next"
    BY <1>4 DEF Check
  <2> QED
    BY <2>1, <2>2, <2>3 DEF Handles
<1>5. CASE Claim(f) \/ Log(f) \/ Release(f)
  <2>1. run'[f] = Continue(f) \/ \E step : run'[f] = To(f, step)
    BY <1>2, <1>5 DEF Claim, Log, Release
  <2>2. /\ run'[f].todo = run[f].todo /\ run'[f].strikes = run[f].strikes
        /\ run'[f].order = None \/ run'[f].order = run[f].order
    BY <1>1, <2>1 DEF RunStates, Continue, To
  <2>3. run[f].at # "idle"
    BY <1>5 DEF Claim, Log, Release
  <2> QED
    BY <2>2, <2>3, NoneAssumption DEF Handles
<1>6. CASE Send(f)
  <2>1. PICK result \in Results : run'[f] = [To(f, "log") EXCEPT !.result = result]
    BY <1>2, <1>6 DEF Send
  <2>2. run'[f].todo = run[f].todo /\ run'[f].strikes = run[f].strikes /\ run'[f].order = run[f].order
    BY <1>1, <2>1 DEF RunStates, To
  <2>3. run[f].at # "idle"
    BY <1>6 DEF Send
  <2> QED
    BY <2>2, <2>3 DEF Handles
<1> QED
  BY <1>3, <1>4, <1>5, <1>6

LEMMA NoticeStep == TypeOK /\ ClaimInv /\ NoticeInv /\ [Next]_vars => NoticeInv'
<1> SUFFICES ASSUME TypeOK, ClaimInv, NoticeInv, [Next]_vars PROVE NoticeInv'
  OBVIOUS
<1> USE DEF order_, mail_
<1>1. age \in [Orders -> -1 .. LastHour] /\ \A o \in Orders : age[o] \in Int
  BY TimesAssumption DEF TypeOK
<1>2. CASE Tick
  <2>1. \A o \in Orders : age'[o] = IF age[o] = -1 THEN -1 ELSE age[o] + 1
    BY <1>2 DEF Tick
  <2>2. ASSUME NEW o \in Orders, status'[o] = "released" PROVE age'[o] >= ReleaseAfter
    <3>1. age[o] >= ReleaseAfter
      BY <1>2, <2>2 DEF Tick, NoticeInv
    <3> QED
      BY <1>1, <2>1, <3>1 DEF ReleaseAfter
  <2>3. ASSUME NEW f \in Runs, Job(f) = "final_notice", run'[f].at # "idle", run'[f].strikes < 2, NEW o \in Orders \cap Handles(f)'
        PROVE  age'[o] <= 46 + run'[f].strikes
    <3>1. run[f] \in RunStates /\ run'[f] = Strike(run[f])
      BY <1>2 DEF TypeOK, Tick
    <3>2. run'[f].at = run[f].at /\ run'[f].todo = run[f].todo /\ run'[f].order = run[f].order
      BY <3>1 DEF RunStates, Strike
    <3>3. run[f].strikes \in 0 .. 2 /\ run[f].strikes < 2 /\ run'[f].strikes = run[f].strikes + 1
      BY <2>3, <3>1, <3>2 DEF RunStates, Strike
    <3>4. o \in Handles(f)
      BY <2>3, <3>2 DEF Handles
    <3>5. age[o] <= 46 + run[f].strikes
      BY <2>3, <3>2, <3>3, <3>4 DEF NoticeInv
    <3> QED
      BY <1>1, <2>1, <3>3, <3>5
  <2> QED
    BY <2>2, <2>3 DEF NoticeInv
<1>3. ASSUME NEW p \in Orders, Place(p) PROVE NoticeInv'
  <2>1. age[p] = -1 /\ UNCHANGED <<run, status>> /\ \A o \in Orders : age'[o] = IF o = p THEN 0 ELSE age[o]
    BY <1>1, <1>3 DEF Place
  <2>2. status[p] # "released"
    BY <2>1 DEF NoticeInv, ReleaseAfter
  <2>3. \A f \in Runs : Handles(f)' = Handles(f) /\ run[f].strikes \in 0 .. 2
    BY <2>1 DEF Handles, TypeOK, RunStates
  <2>4. ASSUME NEW f \in Runs, Job(f) = "final_notice", run[f].at # "idle", run[f].strikes < 2,
               NEW o \in Orders \cap Handles(f)
        PROVE  age'[o] <= 46 + run[f].strikes
    <3>1. CASE o = p
      BY <2>1, <2>3, <3>1
    <3>2. CASE o # p
      BY <2>1, <2>4, <3>2 DEF NoticeInv
    <3> QED
      BY <3>1, <3>2
  <2>5. \A o \in Orders : status'[o] = "released" => age'[o] >= ReleaseAfter
    BY <2>1, <2>2 DEF NoticeInv
  <2> QED
    BY <2>1, <2>3, <2>4, <2>5 DEF NoticeInv
<1>4. ASSUME NEW p \in Orders, Resolve(p) PROVE NoticeInv'
  <2>1. PICK outcome \in Outcomes(p) : status' = [status EXCEPT ![p] = outcome]
    BY <1>4 DEF Resolve
  <2>2. outcome = "released" => age[p] >= ReleaseAfter
    BY <2>1 DEF Outcomes
  <2>3. UNCHANGED <<run, age>> /\ \A f \in Runs : Handles(f)' = Handles(f)
    BY <1>4 DEF Resolve, Handles
  <2>4. \A o \in Orders : status'[o] = IF o = p THEN outcome ELSE status[o]
    BY <2>1 DEF TypeOK
  <2> QED
    BY <2>2, <2>3, <2>4 DEF NoticeInv
<1>5. ASSUME NEW f \in schedule \X Slots,
             Fire(f) \/ EndRun(f) \/ Check(f) \/ Claim(f) \/ Send(f) \/ Log(f) \/ Release(f) \/ Lapse(f)
      PROVE  NoticeInv'
  <2>1. f \in Runs /\ run \in [Runs -> RunStates]
    BY RunType DEF TypeOK
  <2>2. UNCHANGED <<age, status>> /\ \A g \in Runs : g # f => run'[g] = run[g] /\ Handles(g)' = Handles(g)
    BY <1>5, <2>1, RunFacts DEF Handles
  <2>3. ASSUME Job(f) = "final_notice", run'[f].at # "idle", run'[f].strikes < 2, NEW o \in Orders \cap Handles(f)'
        PROVE  age[o] <= 46 + run'[f].strikes
    <3>1. CASE Fire(f)
      <4>1. PICK b \in Batches(Job(f)) : run'[f] = IF b = {} THEN Idle ELSE [Idle EXCEPT !.at = "next", !.todo = b]
        BY <2>1, <3>1 DEF Fire, Become
      <4>2. o \in Candidates(Job(f)) /\ run'[f].strikes = 0
        <5>1. run'[f] = [Idle EXCEPT !.at = "next", !.todo = b]
          BY <2>3, <4>1 DEF Idle
        <5>2. o \in b /\ run'[f].strikes = 0
          BY <2>3, <5>1, NoneAssumption DEF Idle, Handles
        <5> QED
          BY <5>2 DEF Batches
      <4>3. age[o] < 47
        BY <2>3, <4>2 DEF Candidates, Until
      <4> QED
        BY <1>1, <4>2, <4>3
    <3>2. CASE ~Fire(f)
      <4>1. CASE run'[f] = run[f]
        BY <2>1, <2>3, <4>1 DEF NoticeInv, Handles
      <4>2. CASE run[f].at # "idle" /\ Orders \cap Handles(f)' \subseteq Handles(f) /\ run'[f].strikes = run[f].strikes
        BY <2>1, <2>3, <4>2 DEF NoticeInv
      <4> QED
        BY <1>5, <2>1, <2>3, <3>2, <4>1, <4>2, HandlesLess
    <3> QED
      BY <3>1, <3>2
  <2> QED
    BY <2>2, <2>3 DEF NoticeInv
<1>6. CASE UNCHANGED vars
  BY <1>6 DEF vars, NoticeInv, Handles
<1> QED
  BY <1>2, <1>3, <1>4, <1>5, <1>6 DEF Next

LEMMA Invariance == Spec => []IInv
<1>1. IInv /\ [Next]_vars => IInv'
  BY TypeStep, ClaimStep, NoticeStep DEF IInv
<1> QED
  BY <1>1, IInvInit, PTL DEF Spec

\* TypeOK: every variable keeps to its range; the ages never overtake the hour.
THEOREM TypeCorrect == Spec => []TypeOK
<1>1. IInv => TypeOK
  BY DEF IInv
<1> QED
  BY <1>1, Invariance, PTL

\* Whatever the number of schedulers and wherever their runs are cut short, a chase of
\* an order is taken by the provider once.
THEOREM OneMail == Spec => []AtMostOneMail
<1>1. IInv => AtMostOneMail
  BY DEF IInv, ClaimInv
<1> QED
  BY <1>1, Invariance, PTL

\* A run of the final notice sends nothing about an order that has been released, unless
\* it lasts more than an hour.
THEOREM NoticeOnTime == Spec => NoticeBeforeRelease
<1>1. IInv /\ [Next]_vars =>
        [\A o \in Orders :
           sent'["final_notice"][o] # sent["final_notice"][o] /\ status[o] = "released"
             => \E f \in schedule \X Slots : /\ Send(f) /\ Job(f) = "final_notice" /\ run[f].order = o
                                             /\ run[f].strikes = 2]_vars
  <2> SUFFICES ASSUME IInv, Next, NEW o \in Orders,
                      sent'["final_notice"][o] # sent["final_notice"][o], status[o] = "released"
               PROVE  \E f \in schedule \X Slots : /\ Send(f) /\ Job(f) = "final_notice" /\ run[f].order = o
                                                  /\ run[f].strikes = 2
    OBVIOUS
  <2> USE DEF order_, mail_
  <2>1. PICK f \in schedule \X Slots : Send(f)
    BY DEF Next, Tick, Place, Resolve, Fire, EndRun, Check, Claim, Log, Release, Lapse
  <2>2. f \in Runs /\ Job(f) \in Jobs /\ run[f] \in RunStates /\ run[f].at = "send"
    BY <2>1, RunType, JobType DEF IInv, TypeOK, Send
  <2>3. Job(f) = "final_notice" /\ run[f].order = o
    BY <2>1, <2>2 DEF Send, IInv, TypeOK
  <2>4. run[f].strikes < 2 => age[o] <= 46 + run[f].strikes
    BY <2>2, <2>3 DEF IInv, NoticeInv, Handles
  <2>5. age[o] \in -1 .. LastHour /\ run[f].strikes \in 0 .. 2
    BY <2>2 DEF IInv, TypeOK, RunStates
  <2>6. age[o] >= 48
    BY DEF IInv, NoticeInv, ReleaseAfter
  <2>7. run[f].strikes = 2
    BY <2>4, <2>5, <2>6, TimesAssumption
  <2> QED
    BY <2>1, <2>3, <2>7
<1> QED
  BY <1>1, Invariance, PTL DEF Spec, NoticeBeforeRelease

(***************************************************************************)
(* Every order is chased, as long as no firing is missed and no run cut    *)
(* short.  ChaseInv: a firing that finds an unpaid order within its window *)
(* leaves it chased, in the hands of a run, or out of a full batch.        *)
(***************************************************************************)

\* A chase that is claimed or logged was made, or its run is about to make it.
TriedInv ==
  /\ \A f \in Runs : run[f].at \in {"log", "release"} => run[f].order \in tried[Job(f)]
  /\ \A j \in Jobs : logged[j] \subseteq tried[j]
  /\ lapses = 0 =>
       \A j \in Jobs, o \in Orders :
         o \in claimed[j] => o \in tried[j] \/ \E f \in Runs : Job(f) = j /\ run[f].at = "send" /\ run[f].order = o

\* e fired at hour m, when the age of o was in the window of its job.
Met(e, o, m) ==
  /\ m % PeriodOf[e] = 0 /\ hour - age[o] + After(JobOf[e]) <= m /\ m <= hour - age[o] + 46
  /\ m < hour \/ e \notin due

ChaseInv ==
  lapses = 0 =>
    \A o \in Orders, e \in schedule, m \in 0 .. hour :
      status[o] = "unpaid" /\ Met(e, o, m) => Chased(JobOf[e], o)

\* What a step of a run makes of its record.
LEMMA RecordFacts ==
  ASSUME TypeOK, NEW f \in Runs
  PROVE  /\ Fire(f) => /\ run[f].at = "idle"
                       /\ \E b \in Batches(Job(f)) :
                            /\ leftOut' = [leftOut EXCEPT ![Job(f)] = (@ \cup Candidates(Job(f))) \ b]
                            /\ (b = {} /\ run'[f].at = "idle") \/ (run'[f].at = "next" /\ run'[f].todo = b)
         /\ EndRun(f) => run[f].at = "next" /\ run[f].todo = {} /\ run'[f].at = "idle"
         /\ Check(f) => /\ run[f].at = "next"
                        /\ \E o \in run[f].todo :
                             /\ run'[f].todo = run[f].todo \ {o}
                             /\ \/ o \in logged[Job(f)] /\ run'[f].at = "next"
                                \/ run'[f].at = "claim" /\ run'[f].order = o
         /\ Claim(f) => /\ run[f].at = "claim" /\ run'[f].todo = run[f].todo
                        /\ \/ /\ run[f].order \notin claimed[Job(f)] /\ run'[f].at = "send"
                              /\ run'[f].order = run[f].order
                           \/ run[f].order \in claimed[Job(f)] /\ run'[f].at = "next"
         /\ Send(f) => /\ run[f].at = "send" /\ run'[f].at = "log" /\ run'[f].order = run[f].order
                       /\ run'[f].todo = run[f].todo
         /\ Log(f) => /\ run[f].at = "log" /\ run'[f].todo = run[f].todo
                      /\ run'[f].at = "next" \/ (run'[f].at = "release" /\ run'[f].order = run[f].order)
         /\ Release(f) => /\ run[f].at = "release" /\ run'[f].at = "next"
                          /\ run'[f].todo = run[f].todo
<1>1. run \in [Runs -> RunStates] /\ run[f] \in RunStates
  BY DEF TypeOK, Runs
<1>2. \A r : Become(f, r) => run'[f] = r
  BY <1>1 DEF Become
<1>3. CASE Fire(f)
  <2>1. PICK b \in Batches(Job(f)) :
          /\ leftOut' = [leftOut EXCEPT ![Job(f)] = (@ \cup Candidates(Job(f))) \ b]
          /\ run'[f] = IF b = {} THEN Idle ELSE [Idle EXCEPT !.at = "next", !.todo = b]
    BY <1>2, <1>3 DEF Fire
  <2>2. (b = {} /\ run'[f].at = "idle") \/ (run'[f].at = "next" /\ run'[f].todo = b)
    BY <2>1 DEF Idle
  <2>3. run[f].at = "idle"
    BY <1>3 DEF Fire
  <2>4. ~(EndRun(f) \/ Check(f) \/ Claim(f) \/ Send(f) \/ Log(f) \/ Release(f))
    BY <2>3 DEF EndRun, Check, Claim, Send, Log, Release
  <2> QED
    BY <2>1, <2>2, <2>3, <2>4
<1>4. CASE EndRun(f)
  <2>1. run'[f] = Idle
    BY <1>2, <1>4 DEF EndRun
  <2>2. run[f].todo = {} /\ run[f].at = "next"
    BY <1>4 DEF EndRun
  <2>3. ~Check(f)
    BY <2>2 DEF Check
  <2> QED
    BY <2>1, <2>2, <2>3 DEF Idle, Fire, Claim, Send, Log, Release
<1>5. CASE Check(f)
  <2>1. run[f].at = "next" /\ run[f].todo # {}
    BY <1>5 DEF Check
  <2>2. PICK o \in run[f].todo :
          LET rest == [run[f] EXCEPT !.todo = @ \ {o}]
          IN  run'[f] = IF o \in logged[Job(f)] THEN rest ELSE [rest EXCEPT !.at = "claim", !.order = o]
    BY <1>2, <1>5 DEF Check
  <2>3. /\ run'[f].todo = run[f].todo \ {o}
        /\ \/ o \in logged[Job(f)] /\ run'[f].at = "next"
           \/ run'[f].at = "claim" /\ run'[f].order = o
    BY <1>1, <2>1, <2>2 DEF RunStates
  <2> QED
    BY <2>1, <2>3 DEF Fire, EndRun, Claim, Send, Log, Release
<1>6. To(f, "send") \in RunStates /\ To(f, "release") \in RunStates /\ Continue(f).at = "next"
      /\ Continue(f).todo = run[f].todo
      /\ \A step : /\ To(f, step).at = step /\ To(f, step).todo = run[f].todo /\ To(f, step).order = run[f].order
  BY <1>1 DEF RunStates, To, Continue
<1>7. CASE Claim(f)
  <2>1. run[f].at = "claim" /\ run'[f] = IF run[f].order \notin claimed[Job(f)] THEN To(f, "send") ELSE Continue(f)
    BY <1>2, <1>7 DEF Claim, Free
  <2> QED
    BY <1>6, <2>1 DEF Fire, EndRun, Check, Send, Log, Release
<1>8. CASE Send(f)
  <2>1. run[f].at = "send"
    BY <1>8 DEF Send
  <2>2. PICK result \in Results : run'[f] = [To(f, "log") EXCEPT !.result = result]
    BY <1>2, <1>8 DEF Send
  <2>3. /\ run'[f].at = "log" /\ run'[f].order = run[f].order
        /\ run'[f].todo = run[f].todo
    BY <1>1, <2>2 DEF RunStates, To
  <2> QED
    BY <2>1, <2>3 DEF Fire, EndRun, Check, Claim, Log, Release
<1>9. CASE Log(f)
  <2>1. run[f].at = "log" /\ run'[f] \in {To(f, "release"), Continue(f)}
    BY <1>2, <1>9 DEF Log
  <2> QED
    BY <1>6, <2>1 DEF Fire, EndRun, Check, Claim, Send, Release
<1>10. CASE Release(f)
  <2>1. run[f].at = "release" /\ run'[f] = Continue(f)
    BY <1>2, <1>10 DEF Release
  <2> QED
    BY <1>6, <2>1 DEF Fire, EndRun, Check, Claim, Send, Log
<1> QED
  BY <1>3, <1>4, <1>5, <1>7, <1>8, <1>9, <1>10

\* What an hour that strikes makes of a record.
LEMMA TickFacts ==
  ASSUME TypeOK, Tick, NEW f \in Runs
  PROVE  run'[f].at = run[f].at /\ run'[f].todo = run[f].todo /\ run'[f].order = run[f].order
<1>1. run[f] \in RunStates /\ run'[f] = Strike(run[f])
  BY DEF TypeOK, Tick
<1> QED
  BY <1>1 DEF RunStates, Strike

RunStep(f) == Fire(f) \/ EndRun(f) \/ Check(f) \/ Claim(f) \/ Send(f) \/ Log(f) \/ Release(f) \/ Lapse(f)

LEMMA LapseFacts ==
  ASSUME TypeOK, NEW f \in Runs, Lapse(f)
  PROVE  /\ lapses' # 0 /\ due' \subseteq due /\ UNCHANGED <<hour, claimed, logged, tried>>
         /\ run'[f] = run[f] \/ run'[f].at = "idle"
<1>1. lapses \in Nat /\ lapses' = lapses + 1
  BY TimesAssumption DEF TypeOK, Lapse
<1>2. due' \subseteq due /\ UNCHANGED <<hour, claimed, logged, tried>>
  BY DEF Lapse, order_, mail_
<1>3. run' = run \/ Become(f, Idle)
  BY DEF Lapse
<1>4. Become(f, Idle) => run'[f].at = "idle"
  BY DEF Become, Idle, TypeOK, Runs
<1> QED
  BY <1>1, <1>2, <1>3, <1>4

LEMMA TriedStep == IInv /\ TriedInv /\ [Next]_vars => TriedInv'
<1> SUFFICES ASSUME IInv, TriedInv, [Next]_vars PROVE TriedInv'
  OBVIOUS
<1>0. TypeOK /\ ClaimInv
  BY DEF IInv
<1>1. CASE Tick
  <2>1. UNCHANGED <<claimed, logged, tried, lapses>>
    BY <1>1 DEF Tick, mail_
  <2> QED
    BY <1>0, <1>1, <2>1, TickFacts DEF TriedInv
<1>2. ASSUME UNCHANGED <<claimed, logged, tried, lapses, run>> PROVE TriedInv'
  BY <1>2 DEF TriedInv
<1>3. ASSUME NEW f \in schedule \X Slots, RunStep(f) PROVE TriedInv'
  <2>1. f \in Runs /\ Job(f) \in Jobs
    BY <1>0, RunType, JobType
  <2>2. \A g \in Runs : g # f => run'[g] = run[g]
    BY <1>0, <1>3, <2>1, RunFacts DEF RunStep
  <2>3. \A j \in Jobs : tried[j] \subseteq tried'[j]
    <3>1. CASE Send(f)
      BY <2>1, <3>1, <1>0 DEF Send, TypeOK
    <3> QED
      BY <1>3, <3>1 DEF RunStep, Fire, EndRun, Check, Claim, Log, Release, Lapse, mail_
  <2>4. Send(f) => run[f].order \in tried'[Job(f)]
    BY <2>1, <1>0 DEF Send, TypeOK
  <2>5. ASSUME NEW g \in Runs, run'[g].at \in {"log", "release"} PROVE run'[g].order \in tried'[Job(g)]
    <3>1. Job(g) \in Jobs
      BY JobType
    <3>2. CASE g # f
      BY <2>2, <2>3, <2>5, <3>1, <3>2 DEF TriedInv
    <3>3. CASE g = f
      <4>1. \/ run'[f] = run[f]
            \/ Send(f) /\ run'[f].order = run[f].order
            \/ run[f].at = "log" /\ run'[f].order = run[f].order
        BY <1>0, <1>3, <2>1, <2>5, <3>3, RecordFacts, LapseFacts DEF RunStep
      <4>2. run[f].at \in {"log", "release"} => run[f].order \in tried'[Job(f)]
        BY <2>1, <2>3 DEF TriedInv
      <4>3. CASE run'[f] = run[f]
        BY <2>5, <3>3, <4>2, <4>3
      <4> QED
        BY <2>4, <3>3, <4>1, <4>2, <4>3
    <3> QED
      BY <3>2, <3>3
  <2>6. ASSUME NEW j \in Jobs PROVE logged'[j] \subseteq tried'[j]
    <3>1. logged'[j] \subseteq logged[j] \cup (IF Log(f) /\ j = Job(f) THEN {run[f].order} ELSE {})
      <4>1. CASE Log(f)
        BY <4>1, <1>0 DEF Log, TypeOK
      <4> QED
        BY <1>3, <4>1 DEF RunStep, Fire, EndRun, Check, Claim, Send, Release, Lapse, mail_
    <3>2. Log(f) => run[f].order \in tried[Job(f)]
      BY <2>1 DEF TriedInv, Log
    <3> QED
      BY <2>3, <3>1, <3>2 DEF TriedInv
  <2>7. ASSUME lapses' = 0, NEW j \in Jobs, NEW o \in Orders, o \in claimed'[j]
        PROVE  o \in tried'[j] \/ \E g \in Runs : Job(g) = j /\ run'[g].at = "send" /\ run'[g].order = o
    <3>1. ~Lapse(f)
      BY <1>0, <2>1, <2>7, LapseFacts
    <3>2. lapses = 0
      BY <1>3, <2>7, <3>1 DEF RunStep, Fire, EndRun, Check, Claim, Send, Log, Release
    <3>3. CASE o \in claimed[j]
      <4>1. CASE o \in tried[j]
        BY <2>3, <4>1
      <4>2. ASSUME NEW g \in Runs, Job(g) = j, run[g].at = "send", run[g].order = o
            PROVE  o \in tried'[j] \/ \E e \in Runs : Job(e) = j /\ run'[e].at = "send" /\ run'[e].order = o
        <5>1. CASE g # f
          BY <2>2, <4>2, <5>1
        <5>2. CASE g = f
          <6>1. Send(f)
            BY <1>0, <1>3, <2>1, <3>1, <4>2, <5>2, RecordFacts DEF RunStep
          <6> QED
            BY <2>4, <4>2, <5>2, <6>1
        <5> QED
          BY <5>1, <5>2
      <4> QED
        BY <3>2, <3>3, <4>1, <4>2 DEF TriedInv
    <3>4. CASE o \notin claimed[j]
      <4>1. Claim(f) /\ j = Job(f) /\ o = run[f].order
        <5>1. ~(claimed' = claimed)
          BY <2>7, <3>4
        <5>2. Claim(f) \/ Release(f)
          BY <1>3, <3>1, <5>1 DEF RunStep, Fire, EndRun, Check, Send, Log
        <5>3. CASE Claim(f)
          BY <1>0, <2>1, <2>7, <3>4, <5>3 DEF Claim, TypeOK
        <5>4. CASE Release(f)
          BY <1>0, <2>1, <2>7, <3>4, <5>4 DEF Release, TypeOK
        <5> QED
          BY <5>2, <5>3, <5>4
      <4>2. run'[f].at = "send" /\ run'[f].order = o
        BY <1>0, <2>1, <3>4, <4>1, RecordFacts
      <4> QED
        BY <2>1, <4>1, <4>2
    <3> QED
      BY <3>3, <3>4
  <2> QED
    BY <2>5, <2>6, <2>7 DEF TriedInv
<1> QED
  BY <1>1, <1>2, <1>3 DEF Next, RunStep, Place, Resolve, vars, mail_

\* What is chased stays so when an hour strikes.
LEMMA ChaseTick == ASSUME IInv, ChaseInv, Tick PROVE ChaseInv'
<1>0. TypeOK /\ hour \in Nat /\ hour' = hour + 1
  BY TimesAssumption DEF IInv, TypeOK, Tick
<1>1. UNCHANGED <<schedule, status, tried, lapses, leftOut>> /\ due = {}
  BY DEF Tick, mail_
<1>2. SUFFICES ASSUME lapses = 0, NEW o \in Orders, NEW e \in schedule, NEW m \in 0 .. hour',
                      status[o] = "unpaid", Met(e, o, m)'
               PROVE  Chased(JobOf[e], o)'
  BY <1>1 DEF ChaseInv
<1>3. age[o] \in -1 .. LastHour /\ age'[o] = IF age[o] = -1 THEN -1 ELSE age[o] + 1
  BY <1>0 DEF Tick, TypeOK
<1>4. m # hour'
  BY <1>0, <1>1, <1>2 DEF Met, Tick
<1>5. After(JobOf[e]) \in Nat \ {0}
  BY DEF After
<1>6. m \in 0 .. hour /\ Met(e, o, m)
  <2>1. m % PeriodOf[e] = 0 /\ hour' - age'[o] + After(JobOf[e]) <= m /\ m <= hour' - age'[o] + 46
    BY <1>2 DEF Met
  <2>2. m \in 0 .. hour
    BY <1>0, <1>2, <1>4
  <2>3. age[o] # -1
    BY <1>0, <1>3, <1>5, <2>1, <2>2, TimesAssumption
  <2>4. hour' - age'[o] = hour - age[o]
    BY <1>0, <1>3, <2>3, TimesAssumption
  <2> QED
    BY <1>1, <2>1, <2>2, <2>4 DEF Met
<1>7. Chased(JobOf[e], o)
  BY <1>2, <1>6 DEF ChaseInv
<1> QED
  BY <1>0, <1>1, <1>7, TickFacts DEF Chased, Pursues

\* A run goes on pursuing an order, or finds it mailed, or held by another run, which
\* is about to mail it.
LEMMA PursuitGoesOn ==
  ASSUME IInv, TriedInv, lapses = 0, NEW f \in Runs, RunStep(f), ~Lapse(f), NEW o \in Orders, Pursues(f, o)
  PROVE  Chased(Job(f), o)'
<1>0. TypeOK /\ ClaimInv /\ Job(f) \in Jobs
  BY JobType DEF IInv
<1>1. \A g \in Runs : g # f => run'[g] = run[g]
  BY <1>0, RunFacts DEF RunStep
<1>2. CASE run'[f].at # "idle" /\ (o \in run'[f].todo \/ (run'[f].at \in {"claim", "send"} /\ run'[f].order = o))
  BY <1>2 DEF Chased, Pursues
<1>3. CASE Fire(f) \/ EndRun(f)
  BY <1>0, <1>3, RecordFacts DEF Pursues
<1>4. CASE Check(f)
  <2>1. PICK p \in run[f].todo :
          /\ run'[f].todo = run[f].todo \ {p} /\ run[f].at = "next"
          /\ \/ p \in logged[Job(f)] /\ run'[f].at = "next"
             \/ run'[f].at = "claim" /\ run'[f].order = p
    BY <1>0, <1>4, RecordFacts
  <2>2. tried' = tried
    BY <1>4 DEF Check, mail_
  <2>3. CASE p = o /\ p \in logged[Job(f)]
    BY <1>0, <2>2, <2>3 DEF TriedInv, Chased
  <2>4. o \in run[f].todo
    BY <2>1 DEF Pursues
  <2> QED
    BY <1>2, <2>1, <2>3, <2>4
<1>5. CASE Claim(f)
  <2>1. /\ run[f].at = "claim" /\ run'[f].todo = run[f].todo
        /\ \/ run'[f].at = "send" /\ run'[f].order = run[f].order
           \/ run[f].order \in claimed[Job(f)] /\ run'[f].at = "next"
    BY <1>0, <1>5, RecordFacts
  <2>2. CASE run[f].order = o /\ run[f].order \in claimed[Job(f)]
    <3>1. CASE o \in tried[Job(f)]
      BY <1>5, <3>1 DEF Claim, mail_, Chased
    <3>2. ASSUME NEW g \in Runs, Job(g) = Job(f), run[g].at = "send", run[g].order = o
          PROVE  Pursues(g, o)'
      BY <1>1, <2>1, <3>2 DEF Pursues
    <3> QED
      BY <1>0, <2>2, <3>1, <3>2 DEF TriedInv, Chased
  <2> QED
    BY <1>2, <2>1, <2>2 DEF Pursues
<1>6. CASE Send(f)
  <2>1. run[f].order \in tried'[Job(f)]
    BY <1>0, <1>6 DEF Send, TypeOK
  <2> QED
    BY <1>0, <1>2, <1>6, <2>1, RecordFacts DEF Pursues, Chased
<1>7. CASE Log(f) \/ Release(f)
  BY <1>0, <1>2, <1>7, RecordFacts DEF Pursues
<1> QED
  BY <1>3, <1>4, <1>5, <1>6, <1>7 DEF RunStep

\* Whoever is left out is left out until a run reads it.
LEMMA ChasedStays ==
  ASSUME IInv, TriedInv, lapses = 0, NEW f \in Runs, RunStep(f), ~Lapse(f),
         NEW o \in Orders, NEW j \in Jobs, Chased(j, o)
  PROVE  Chased(j, o)'
<1>0. TypeOK /\ ClaimInv /\ Job(f) \in Jobs
  BY JobType DEF IInv
<1>1. CASE o \in tried[j]
  <2>1. CASE Send(f)
    BY <1>0, <1>1, <2>1 DEF Send, TypeOK, Chased
  <2> QED
    BY <1>1, <2>1 DEF RunStep, Fire, EndRun, Check, Claim, Log, Release, mail_, Chased
<1>2. CASE o \in leftOut[j]
  <2>1. CASE Fire(f)
    <3>1. PICK b \in Batches(Job(f)) :
            /\ leftOut' = [leftOut EXCEPT ![Job(f)] = (@ \cup Candidates(Job(f))) \ b]
            /\ (b = {} /\ run'[f].at = "idle") \/ (run'[f].at = "next" /\ run'[f].todo = b)
      BY <1>0, <2>1, RecordFacts
    <3>2. CASE j = Job(f) /\ o \in b
      BY <3>1, <3>2 DEF Chased, Pursues
    <3>3. CASE ~(j = Job(f) /\ o \in b)
      BY <1>0, <1>2, <3>1, <3>3 DEF Chased, TypeOK
    <3> QED
      BY <3>2, <3>3
  <2> QED
    BY <1>2, <2>1 DEF RunStep, EndRun, Check, Claim, Send, Log, Release, Chased
<1>3. ASSUME NEW g \in Runs, Job(g) = j, Pursues(g, o) PROVE Chased(j, o)'
  <2>1. CASE g = f
    BY <1>3, <2>1, PursuitGoesOn
  <2>2. CASE g # f
    <3>1. run'[g] = run[g]
      BY <1>0, <2>2, RunFacts DEF RunStep
    <3> QED
      BY <1>3, <3>1 DEF Chased, Pursues
  <2> QED
    BY <2>1, <2>2
<1> QED
  BY <1>1, <1>2, <1>3 DEF Chased

LEMMA ChaseRun ==
  ASSUME IInv, TriedInv, ChaseInv, NEW f \in schedule \X Slots, RunStep(f)
  PROVE  ChaseInv'
<1>0. TypeOK /\ ClaimInv /\ f \in Runs /\ Job(f) \in Jobs /\ Job(f) = JobOf[f[1]] /\ hour \in Nat
  BY TimesAssumption, RunType, JobType DEF IInv, TypeOK, Job
<1>1. UNCHANGED <<schedule, hour, age, status>> /\ \A g \in Runs : g # f => run'[g] = run[g]
  BY <1>0, RunFacts DEF RunStep
<1>2. SUFFICES ASSUME lapses' = 0, NEW o \in Orders, NEW e \in schedule, NEW m \in 0 .. hour,
                      status[o] = "unpaid", Met(e, o, m)'
               PROVE  Chased(JobOf[e], o)'
  BY <1>1 DEF ChaseInv
<1>3. ~Lapse(f)
  BY <1>0, <1>2, LapseFacts
<1>4. lapses = 0
  BY <1>2, <1>3 DEF RunStep, Fire, EndRun, Check, Claim, Send, Log, Release
<1>5. JobOf[e] \in Jobs
  BY <1>0, EntriesAssumption DEF TypeOK
<1>6. CASE Met(e, o, m)
  <2>1. Chased(JobOf[e], o)
    BY <1>2, <1>4, <1>6 DEF ChaseInv
  <2> QED
    BY <1>0, <1>3, <1>4, <1>5, <2>1, ChasedStays
<1>7. CASE ~Met(e, o, m)
  <2>1. Fire(f) /\ e = f[1] /\ m = hour
    <3>1. e \in due /\ e \notin due' /\ m = hour
      BY <1>0, <1>1, <1>2, <1>7 DEF Met
    <3>2. Fire(f)
      BY <1>3, <3>1 DEF RunStep, EndRun, Check, Claim, Send, Log, Release
    <3> QED
      BY <3>1, <3>2 DEF Fire
  <2>2. age[o] \in -1 .. LastHour /\ LastHour \in Nat
    BY <1>0, TimesAssumption DEF TypeOK
  <2>3. After(Job(f)) <= age[o] /\ age[o] < Until(Job(f))
    BY <1>0, <1>1, <1>2, <2>1, <2>2 DEF Met, After, Until
  <2>4. PICK b \in Batches(Job(f)) :
          /\ leftOut' = [leftOut EXCEPT ![Job(f)] = (@ \cup Candidates(Job(f))) \ b]
          /\ (b = {} /\ run'[f].at = "idle") \/ (run'[f].at = "next" /\ run'[f].todo = b)
    BY <1>0, <2>1, RecordFacts
  <2>5. CASE o \notin claimed[Job(f)]
    <3>1. o \in Candidates(Job(f))
      BY <1>2, <2>3, <2>5 DEF Candidates
    <3>2. CASE o \in b
      BY <1>0, <2>1, <2>4, <3>2 DEF Chased, Pursues
    <3>3. CASE o \notin b
      BY <1>0, <2>1, <2>4, <3>1, <3>3 DEF Chased, TypeOK
    <3> QED
      BY <3>2, <3>3
  <2>6. CASE o \in claimed[Job(f)]
    <3>1. Chased(Job(f), o)
      BY <1>0, <1>4, <2>6 DEF TriedInv, Chased, Pursues
    <3> QED
      BY <1>0, <1>3, <1>4, <2>1, <3>1, ChasedStays
  <2> QED
    BY <2>5, <2>6
<1> QED
  BY <1>6, <1>7

LEMMA ChaseStep ==
  ASSUME IInv, TriedInv, ChaseInv, [Next]_vars
  PROVE  ChaseInv'
<1>0. TypeOK
  BY DEF IInv
<1>1. ASSUME NEW p \in Orders, Place(p) PROVE ChaseInv'
  <2>1. UNCHANGED <<schedule, hour, status, tried, due, run, lapses, leftOut>> /\ age[p] = -1 /\ hour \in Nat
    BY <1>0, <1>1, TimesAssumption DEF Place, mail_, TypeOK
  <2>2. \A o \in Orders : age'[o] = IF o = p THEN 0 ELSE age[o]
    BY <1>0, <1>1 DEF Place, TypeOK
  <2>3. \A e \in schedule, m \in 0 .. hour : ~Met(e, p, m)'
    BY <2>1, <2>2 DEF Met, After
  <2>4. \A o \in Orders, e \in schedule, m \in 0 .. hour : o # p /\ Met(e, o, m)' => Met(e, o, m)
    BY <2>1, <2>2 DEF Met
  <2> QED
    BY <2>1, <2>3, <2>4 DEF ChaseInv, Chased, Pursues
<1>2. ASSUME NEW p \in Orders, Resolve(p) PROVE ChaseInv'
  <2>1. UNCHANGED <<schedule, hour, age, tried, due, run, lapses, leftOut>>
    BY <1>2 DEF Resolve, mail_
  <2>2. \A o \in Orders : status'[o] = "unpaid" => status[o] = "unpaid"
    BY <1>0, <1>2 DEF Resolve, Outcomes, TypeOK
  <2> QED
    BY <2>1, <2>2 DEF ChaseInv, Met, Chased, Pursues
<1>3. CASE UNCHANGED vars
  BY <1>3 DEF vars, order_, mail_, ChaseInv, Met, Chased, Pursues
<1> QED
  BY <1>1, <1>2, <1>3, ChaseTick, ChaseRun DEF Next, RunStep

\* Any twenty-seven hours in a row have one in which an entry fires.
LEMMA FiringWithin ==
  ASSUME NEW p \in 1 .. 27, NEW a \in Nat
  PROVE  \E m \in a .. a + 26 : m % p = 0
<1> DEFINE rest == (a + 26) % p
           m    == (a + 26) - rest
<1>1. rest \in 0 .. 26
  OBVIOUS
<1>2. m % p = 0
  OBVIOUS
<1>3. m \in a .. a + 26
  <2> HIDE DEF rest
  <2> QED
    BY <1>1
<1> QED
  BY <1>2, <1>3

ChasingInv == IInv /\ TriedInv /\ ChaseInv

LEMMA ChasingHolds == Spec => []ChasingInv
<1>1. Init => TriedInv /\ ChaseInv
  <2> SUFFICES ASSUME Init PROVE TriedInv /\ ChaseInv
    OBVIOUS
  <2>1. \A f \in Runs : run[f].at = "idle"
    BY DEF Init, Idle
  <2>2. TriedInv
    BY <2>1 DEF Init, TriedInv
  <2>3. \A o \in Orders, e \in schedule, m \in 0 .. hour : ~Met(e, o, m)
    BY DEF Init, Met, After
  <2> QED
    BY <2>2, <2>3 DEF ChaseInv
<1>2. ChasingInv /\ [Next]_vars => ChasingInv'
  BY TypeStep, ClaimStep, NoticeStep, TriedStep, ChaseStep DEF IInv, ChasingInv
<1> QED
  BY <1>1, <1>2, IInvInit, PTL DEF Spec, ChasingInv

\* For any number of orders and any schedules whose lines fire at least every twenty-seven
\* hours, the hourly ones of cron-runner.mts and the daily one of vercel.json among them:
\* as long as no firing is missed and no run is cut short, an order left unpaid is chased
\* by each job before it may be released, is in the hands of a run that is still at work,
\* or had no place in the last batch.
THEOREM EveryoneIsChased ==
  ASSUME \A e \in Entries : PeriodOf[e] \in 1 .. 27 PROVE Spec => []EveryOrderIsChased
<1>1. ChasingInv => EveryOrderIsChased
  <2> SUFFICES ASSUME ChasingInv, NEW o \in Orders, lapses = 0, status[o] = "unpaid", age[o] >= ReleaseAfter,
                      NEW e \in schedule
               PROVE  Chased(JobOf[e], o)
    BY DEF EveryOrderIsChased
  <2>1. /\ hour \in Nat /\ age[o] \in Int /\ age[o] >= 48 /\ age[o] <= hour
        /\ e \in Entries /\ PeriodOf[e] \in 1 .. 27
    BY TimesAssumption DEF ChasingInv, IInv, TypeOK, AgeInv, ReleaseAfter
  <2>2. PICK m \in hour - age[o] + 20 .. hour - age[o] + 46 : m % PeriodOf[e] = 0
    <3> DEFINE a == hour - age[o] + 20
    <3>1. a \in Nat /\ a + 26 = hour - age[o] + 46
      BY <2>1
    <3>2. \E m \in a .. a + 26 : m % PeriodOf[e] = 0
      <4> HIDE DEF a
      <4> QED
        BY <2>1, <3>1, FiringWithin
    <3> QED
      BY <3>1, <3>2
  <2>3. m \in 0 .. hour /\ Met(e, o, m)
    BY <2>1, <2>2 DEF Met, After
  <2> QED
    BY <2>3 DEF ChasingInv, ChaseInv
<1> QED
  BY <1>1, ChasingHolds, PTL

\* Nobody is left out of a batch that has a place for every order.
NobodyLeftOut == \A j \in Jobs : leftOut[j] = {}

THEOREM FewOrdersFindAPlace ==
  ASSUME IsFiniteSet(Orders), Cardinality(Orders) <= Batch PROVE Spec => []NobodyLeftOut
<1>1. Init => NobodyLeftOut
  BY DEF Init, NobodyLeftOut
<1>2. IInv /\ NobodyLeftOut /\ [Next]_vars => NobodyLeftOut'
  <2> SUFFICES ASSUME IInv, NobodyLeftOut, [Next]_vars PROVE NobodyLeftOut'
    OBVIOUS
  <2>1. ASSUME NEW f \in schedule \X Slots, Fire(f) PROVE NobodyLeftOut'
    <3> DEFINE all == Candidates(Job(f))
    <3>1. TypeOK /\ f \in Runs /\ Job(f) \in Jobs
      BY RunType, JobType DEF IInv
    <3>2. PICK b \in Batches(Job(f)) : leftOut' = [leftOut EXCEPT ![Job(f)] = (@ \cup all) \ b]
      BY <2>1 DEF Fire
    <3>3. IsFiniteSet(all) /\ Cardinality(all) \in Nat /\ Cardinality(all) <= Cardinality(Orders)
          /\ Cardinality(Orders) \in Nat
      <4>1. all \subseteq Orders
        BY DEF Candidates
      <4> QED
        BY <4>1, FS_Subset, FS_CardinalityType
    <3>4. b \subseteq all /\ Cardinality(b) = Cardinality(all)
      BY <3>3, TimesAssumption DEF Batches
    <3>5. b = all
      <4> HIDE DEF all
      <4> QED
        BY <3>3, <3>4, FS_Subset
    <3> QED
      BY <3>1, <3>2, <3>5 DEF NobodyLeftOut, TypeOK
  <2>2. CASE UNCHANGED leftOut
    BY <2>2 DEF NobodyLeftOut
  <2> QED
    BY <2>1, <2>2 DEF Next, Tick, Place, Resolve, EndRun, Check, Claim, Send, Log, Release, Lapse, vars
<1> QED
  BY <1>1, <1>2, Invariance, PTL DEF Spec

(***************************************************************************)
(* The waiting list, for any number of people, drains and edits.  An ask   *)
(* is settled only after a mail since, or by the stamp of one it crossed,  *)
(* because an erasure ends the row's life, so what a drain remembers is    *)
(* either the row in the table or one that is gone for good.  Nobody is    *)
(* mailed more often than the pack came back because each restock starts   *)
(* one drain and each drain mails a person at most once: mails made and    *)
(* mails still to be made are counted together.                            *)
(***************************************************************************)

\* What a drain remembers is in the table, or erased.
Remembered ==
  \A d \in Drains : \A e \in todo[d] \cup mailed[d] :
    /\ e[2] <= life[e[1]]
    /\ e[2] = life[e[1]] => row[e[1]] # "none"

\* A mail that left about the present row has been heard of, or an ask has crossed it.
SentWasHeard ==
  \A d \in Drains : \A e \in mailed[d] : Current(e) => e[1] \in heard \/ e[1] \in crossed

\* Idle drains and drains about to read remember nothing.
Fresh == \A d \in Drains : drain[d] # "send" => todo[d] = {} /\ mailed[d] = {}

\* Somebody is on the way to whoever waits beside a full shelf.
OnTheWay ==
  \A p \in Waiting :
    stock > 0 /\ cause[p] = "none" =>
      \E d \in Drains :
        \/ drain[d] = "list"
        \/ drain[d] = "send" /\ <<p, life[p]>> \in todo[d] \cup mailed[d]

ListInv == WaitlistTypeOK /\ Fresh /\ Remembered /\ SentWasHeard /\ ToldWasMailed /\ OnTheWay

LEMMA WaitlistTypeInit == WaitlistInit => WaitlistTypeOK
  BY BoundsAssumption DEF WaitlistInit, WaitlistTypeOK, Entry

Causes == {"none", "late", "cancelled", "failed", "cut"}

LEMMA BlameType ==
  ASSUME WaitlistTypeOK, NEW who, NEW why \in Causes, Blame(who, why) \/ cause' = cause
  PROVE  cause' \in [People -> Causes]
<1>1. cause \in [People -> Causes]
  BY DEF WaitlistTypeOK, Causes
<1> HIDE DEF Causes
<1> QED
  BY <1>1 DEF Blame

LEMMA WaitlistTypeStep ==
  ASSUME WaitlistTypeOK, [WaitlistNext]_waitlistVars
  PROVE  WaitlistTypeOK'
<1> USE BoundsAssumption
<1>0. /\ "none" \in Causes /\ "late" \in Causes /\ "cancelled" \in Causes /\ "failed" \in Causes
      /\ "cut" \in Causes
  BY DEF Causes
<1>1. ASSUME NEW p \in People, Ask(p) PROVE WaitlistTypeOK'
  BY <1>1 DEF Ask, WaitlistTypeOK, shelf, work, past
<1>2. ASSUME NEW p \in People, Register(p) PROVE WaitlistTypeOK'
  <2>1. cause' \in [People -> Causes]
    BY <1>0, <1>2, BlameType DEF Register
  <2>2. row' \in [People -> {"none", "waiting", "told"}] /\ asking' \in SUBSET People
    BY <1>2 DEF Register, WaitlistTypeOK
  <2> QED
    BY <1>2, <2>1, <2>2 DEF Register, WaitlistTypeOK, shelf, work, Causes
<1>3. ASSUME NEW p \in People, Erase(p) PROVE WaitlistTypeOK'
  <2>1. life[p] \in 0 .. MaxErasures /\ life[p] < MaxErasures
    BY <1>3 DEF Erase, WaitlistTypeOK
  <2>2. life[p] + 1 \in 0 .. MaxErasures
    BY <2>1
  <2>3. life' \in [People -> 0 .. MaxErasures]
    BY <1>3, <2>2 DEF Erase, WaitlistTypeOK
  <2>4. row' \in [People -> {"none", "waiting", "told"}] /\ heard' \in SUBSET People /\ crossed' \in SUBSET People
    BY <1>3 DEF Erase, WaitlistTypeOK
  <2> QED
    BY <1>3, <2>3, <2>4 DEF Erase, WaitlistTypeOK, shelf, work
<1>4. CASE Sell
  <2>1. cause' \in [People -> Causes]
    BY <1>0, <1>4, BlameType DEF Sell
  <2>2. /\ stock > 0 /\ sold < MaxStock /\ stock' = stock - 1 /\ sold' = sold + 1
        /\ UNCHANGED <<active, row, life, asking, drain, todo, mailed, edits, comebacks, mails, heard, crossed>>
    BY <1>4 DEF Sell, list, work
  <2>3. stock' \in 0 .. MaxStock /\ sold' \in 0 .. MaxStock
    BY <2>2 DEF WaitlistTypeOK
  <2> QED
    BY <2>1, <2>2, <2>3 DEF WaitlistTypeOK, Causes
<1>5. CASE Restore
  <2>1. cause' \in [People -> Causes]
    BY <1>0, <1>5, BlameType DEF Restore
  <2>2. /\ sold > 0 /\ stock < MaxStock /\ stock' = stock + 1 /\ sold' = sold - 1
        /\ UNCHANGED <<active, row, life, asking, drain, todo, mailed, edits, comebacks, mails, heard, crossed>>
    BY <1>5 DEF Restore, list, work
  <2>3. stock' \in 0 .. MaxStock /\ sold' \in 0 .. MaxStock
    BY <2>2 DEF WaitlistTypeOK
  <2> QED
    BY <2>1, <2>2, <2>3 DEF WaitlistTypeOK, Causes
<1>6. CASE Toggle
  BY <1>6 DEF Toggle, WaitlistTypeOK, list, work, past
<1>7. ASSUME NEW d \in Drains, NEW next \in 0 .. MaxStock, EditStock(d, next) PROVE WaitlistTypeOK'
  <2>1. /\ edits' = edits + 1 /\ edits < MaxEdits /\ stock' = next
        /\ comebacks' = (IF stock = 0 /\ next > 0 THEN comebacks + 1 ELSE comebacks)
        /\ UNCHANGED <<active, sold, list, todo, mailed, mails, heard, crossed>>
    BY <1>7 DEF EditStock
  <2>2. edits' \in 0 .. MaxEdits /\ comebacks' \in Nat
    BY <2>1 DEF WaitlistTypeOK
  <2>3. drain' \in [Drains -> {"idle", "list", "send"}]
    BY <1>7 DEF EditStock, WaitlistTypeOK
  <2>4. cause' \in [People -> Causes]
    BY <1>0, <1>7, BlameType DEF EditStock
  <2> QED
    BY <2>1, <2>2, <2>3, <2>4 DEF WaitlistTypeOK, list, Causes
<1>8. ASSUME NEW d \in Drains, ListPending(d) PROVE WaitlistTypeOK'
  <2>1. {<<p, life[p]>> : p \in Waiting} \subseteq Entry
    BY DEF WaitlistTypeOK, Waiting, Entry
  <2>2. todo' \in [Drains -> SUBSET Entry]
    BY <1>8, <2>1 DEF ListPending, WaitlistTypeOK
  <2>3. drain' \in [Drains -> {"idle", "list", "send"}]
    BY <1>8 DEF ListPending, WaitlistTypeOK
  <2> QED
    BY <1>8, <2>2, <2>3 DEF ListPending, WaitlistTypeOK, shelf, list, past
<1>9. ASSUME NEW d \in Drains, NEW e \in todo[d], SendMail(d, e) PROVE WaitlistTypeOK'
  <2>1. e \in Entry /\ e[1] \in People
    BY DEF WaitlistTypeOK, Entry
  <2>2. todo' \in [Drains -> SUBSET Entry]
    BY <1>9 DEF SendMail, WaitlistTypeOK
  <2>3. mailed' \in [Drains -> SUBSET Entry]
    BY <1>9, <2>1 DEF SendMail, WaitlistTypeOK
  <2>4. mails' \in [People -> Nat]
    BY <1>9, <2>1 DEF SendMail, WaitlistTypeOK
  <2>5. heard' \in SUBSET People /\ crossed' \in SUBSET People
    BY <1>9, <2>1 DEF SendMail, WaitlistTypeOK
  <2>6. cause' \in [People -> Causes]
    BY <1>0, <1>9, BlameType DEF SendMail
  <2>7. UNCHANGED <<stock, active, sold, row, life, asking, drain, edits, comebacks>>
    BY <1>9 DEF SendMail, shelf, list
  <2> QED
    BY <2>2, <2>3, <2>4, <2>5, <2>6, <2>7 DEF WaitlistTypeOK, Causes
<1>10. ASSUME NEW d \in Drains, MarkNotified(d) PROVE WaitlistTypeOK'
  <2>1. row' \in [People -> {"none", "waiting", "told"}]
    BY <1>10 DEF MarkNotified, WaitlistTypeOK
  <2>2. drain' \in [Drains -> {"idle", "list", "send"}] /\ mailed' \in [Drains -> SUBSET Entry]
    BY <1>10 DEF MarkNotified, WaitlistTypeOK
  <2> QED
    BY <1>10, <2>1, <2>2 DEF MarkNotified, WaitlistTypeOK, shelf, past
<1>11. ASSUME NEW d \in Drains, CutOff(d) PROVE WaitlistTypeOK'
  <2>1. cause' \in [People -> Causes]
    BY <1>0, <1>11, BlameType DEF CutOff
  <2>2. /\ drain' \in [Drains -> {"idle", "list", "send"}] /\ todo' \in [Drains -> SUBSET Entry]
        /\ mailed' \in [Drains -> SUBSET Entry]
    BY <1>11 DEF CutOff, WaitlistTypeOK
  <2> QED
    BY <1>11, <2>1, <2>2 DEF CutOff, WaitlistTypeOK, shelf, list, Causes
<1>12. CASE UNCHANGED waitlistVars
  BY <1>12 DEF waitlistVars, shelf, list, work, past, WaitlistTypeOK
<1> QED
  BY <1>1, <1>2, <1>3, <1>4, <1>5, <1>6, <1>7, <1>8, <1>9, <1>10, <1>11, <1>12 DEF WaitlistNext

\* The types and bounds of BackInStock, for every value of its constants.
THEOREM WaitlistTypeCorrect == WaitlistSpec => []WaitlistTypeOK
  BY WaitlistTypeInit, WaitlistTypeStep, PTL DEF WaitlistSpec

LEMMA ListInit == WaitlistInit => ListInv
<1> SUFFICES ASSUME WaitlistInit PROVE ListInv
  OBVIOUS
<1>1. WaitlistTypeOK
  BY WaitlistTypeInit
<1>2. Fresh /\ Remembered /\ SentWasHeard
  BY DEF WaitlistInit, Fresh, Remembered, SentWasHeard
<1>3. ToldWasMailed /\ OnTheWay
  BY DEF WaitlistInit, ToldWasMailed, OnTheWay, Waiting
<1> QED
  BY <1>1, <1>2, <1>3 DEF ListInv

\* Steps that touch neither the list nor the drains.
LEMMA ShelfKeeps ==
  ASSUME ListInv, UNCHANGED <<row, life, drain, todo, mailed, heard, crossed>>,
         stock' > 0 => \/ stock > 0 /\ cause' = cause
                      \/ \A p \in Waiting : cause'[p] # "none"
  PROVE  Fresh' /\ Remembered' /\ SentWasHeard' /\ ToldWasMailed' /\ OnTheWay'
<1>1. Fresh' /\ Remembered' /\ ToldWasMailed'
  BY DEF ListInv, Fresh, Remembered, ToldWasMailed
<1>2. SentWasHeard'
  BY DEF ListInv, SentWasHeard, Current
<1>3. Waiting' = Waiting
  BY DEF Waiting
<1>4. OnTheWay'
  BY <1>3 DEF ListInv, OnTheWay
<1> QED
  BY <1>1, <1>2, <1>4

LEMMA BlameFacts ==
  ASSUME NEW who, NEW why, Blame(who, why)
  PROVE  \A p \in People : cause'[p] = IF p \in who THEN why ELSE cause[p]
  BY DEF Blame

LEMMA ListStep ==
  ASSUME ListInv, [WaitlistNext]_waitlistVars
  PROVE  ListInv'
<1>0. WaitlistTypeOK /\ WaitlistTypeOK' /\ Fresh /\ Remembered /\ SentWasHeard /\ ToldWasMailed /\ OnTheWay
  BY WaitlistTypeStep DEF ListInv
<1>13. \A d \in Drains : todo[d] \subseteq Entry /\ mailed[d] \subseteq Entry
  BY <1>0 DEF WaitlistTypeOK
<1>14. \A e \in Entry : e[1] \in People /\ e[2] \in Nat /\ e = <<e[1], e[2]>>
  BY BoundsAssumption DEF Entry
<1> SUFFICES Fresh' /\ Remembered' /\ SentWasHeard' /\ ToldWasMailed' /\ OnTheWay'
  BY <1>0 DEF ListInv
<1>1. ASSUME NEW p \in People, Ask(p)
      PROVE  Fresh' /\ Remembered' /\ SentWasHeard' /\ ToldWasMailed' /\ OnTheWay'
  <2>1. UNCHANGED <<row, life, drain, todo, mailed, heard, crossed, stock, cause>>
    BY <1>1 DEF Ask, shelf, work, past
  <2> QED
    BY <2>1, ShelfKeeps
<1>2. ASSUME NEW p \in People, Register(p)
      PROVE  Fresh' /\ Remembered' /\ SentWasHeard' /\ ToldWasMailed' /\ OnTheWay'
  <2>1. /\ row' = [row EXCEPT ![p] = "waiting"]
        /\ UNCHANGED <<life, drain, todo, mailed, stock>>
        /\ heard' = heard \ {p} /\ crossed' = (IF AboutToStamp(p) THEN crossed \cup {p} ELSE crossed \ {p})
        /\ stock > 0 => Blame({p}, "late")
        /\ ~(stock > 0) => cause' = cause
    BY <1>2 DEF Register, shelf, work
  <2>2. row'[p] = "waiting" /\ \A q \in People \ {p} : row'[q] = row[q]
    BY <1>0, <2>1 DEF WaitlistTypeOK
  <2>3. Fresh'
    BY <1>0, <2>1 DEF Fresh
  <2>4. Remembered'
    BY <1>0, <1>13, <1>14, <2>1, <2>2 DEF Remembered
  <2>5. SentWasHeard'
    <3> SUFFICES ASSUME NEW d \in Drains, NEW e \in mailed[d], Current(e)' PROVE e[1] \in heard' \/ e[1] \in crossed'
      BY <2>1 DEF SentWasHeard
    <3>1. e[2] = life[e[1]] /\ row[e[1]] # "none" /\ e = <<e[1], e[2]>>
      BY <1>0, <1>13, <1>14, <2>1 DEF Current, Remembered
    <3>2. CASE e[1] = p
      BY <2>1, <3>1, <3>2 DEF AboutToStamp
    <3>3. CASE e[1] # p
      <4>1. e[1] \in heard \/ e[1] \in crossed
        BY <1>0, <3>1 DEF SentWasHeard, Current
      <4> QED
        BY <2>1, <3>3, <4>1
    <3> QED
      BY <3>2, <3>3
  <2>6. ToldWasMailed'
    BY <1>0, <2>1, <2>2 DEF ToldWasMailed
  <2>7. OnTheWay'
    <3> SUFFICES ASSUME NEW q \in Waiting', stock' > 0, cause'[q] = "none"
                 PROVE \E d \in Drains :
                        \/ drain'[d] = "list"
                        \/ drain'[d] = "send" /\ <<q, life'[q]>> \in todo'[d] \cup mailed'[d]
      BY DEF OnTheWay
    <3>1. q \in People /\ Blame({p}, "late")
      BY <2>1 DEF Waiting
    <3>2. q # p /\ cause[q] = "none"
      BY <3>1, BlameFacts
    <3>3. q \in Waiting
      BY <2>2, <3>1, <3>2 DEF Waiting
    <3> QED
      BY <1>0, <2>1, <3>2, <3>3 DEF OnTheWay
  <2> QED
    BY <2>3, <2>4, <2>5, <2>6, <2>7
<1>3. ASSUME NEW p \in People, Erase(p)
      PROVE  Fresh' /\ Remembered' /\ SentWasHeard' /\ ToldWasMailed' /\ OnTheWay'
  <2>1. /\ row' = [row EXCEPT ![p] = "none"] /\ life' = [life EXCEPT ![p] = @ + 1]
        /\ heard' = heard \ {p} /\ crossed' = crossed \ {p}
        /\ UNCHANGED <<drain, todo, mailed, stock, cause>>
    BY <1>3 DEF Erase, shelf, work
  <2>2. /\ row'[p] = "none" /\ life'[p] = life[p] + 1 /\ life[p] \in Nat
        /\ \A q \in People \ {p} : row'[q] = row[q] /\ life'[q] = life[q]
    BY <1>0, <2>1, BoundsAssumption DEF WaitlistTypeOK
  <2>3. Fresh'
    BY <1>0, <2>1 DEF Fresh
  <2>4. Remembered'
    <3> SUFFICES ASSUME NEW d \in Drains, NEW e \in todo[d] \cup mailed[d]
                 PROVE e[2] <= life'[e[1]] /\ (e[2] = life'[e[1]] => row'[e[1]] # "none")
      BY <2>1 DEF Remembered
    <3>1. e[1] \in People /\ e[2] \in Nat /\ e[2] <= life[e[1]] /\ (e[2] = life[e[1]] => row[e[1]] # "none")
      BY <1>0, <1>13, <1>14 DEF Remembered
    <3>2. CASE e[1] = p
      BY <2>2, <3>1, <3>2
    <3>3. CASE e[1] # p
      BY <2>2, <3>1, <3>3
    <3> QED
      BY <3>2, <3>3
  <2>5. SentWasHeard'
    <3> SUFFICES ASSUME NEW d \in Drains, NEW e \in mailed[d], Current(e)' PROVE e[1] \in heard' \/ e[1] \in crossed'
      BY <2>1 DEF SentWasHeard
    <3>1. e[1] \in People /\ e[1] # p
      BY <1>13, <1>14, <2>2 DEF Current
    <3>2. Current(e)
      BY <2>2, <3>1 DEF Current
    <3> QED
      BY <1>0, <2>1, <3>1, <3>2 DEF SentWasHeard
  <2>6. ToldWasMailed'
    BY <1>0, <2>1, <2>2 DEF ToldWasMailed
  <2>7. OnTheWay'
    <3> SUFFICES ASSUME NEW q \in Waiting', stock' > 0, cause'[q] = "none"
                 PROVE \E d \in Drains :
                        \/ drain'[d] = "list"
                        \/ drain'[d] = "send" /\ <<q, life'[q]>> \in todo'[d] \cup mailed'[d]
      BY DEF OnTheWay
    <3>1. q \in People /\ q # p /\ q \in Waiting /\ life'[q] = life[q]
      BY <2>2 DEF Waiting
    <3> QED
      BY <1>0, <2>1, <3>1 DEF OnTheWay
  <2> QED
    BY <2>3, <2>4, <2>5, <2>6, <2>7
<1>4. CASE Sell
  <2>1. UNCHANGED <<row, life, drain, todo, mailed, heard, crossed>> /\ stock' = stock - 1 /\ stock > 0
    BY <1>4 DEF Sell, list, work
  <2>2. stock' > 0 => stock > 0 /\ cause' = cause
    <3>1. stock' # 0 => cause' = cause
      BY <1>4 DEF Sell
    <3> QED
      BY <2>1, <3>1
  <2> QED
    BY <2>1, <2>2, ShelfKeeps
<1>5. CASE Restore
  <2>1. UNCHANGED <<row, life, drain, todo, mailed, heard, crossed>> /\ stock \in Nat
    BY <1>0, <1>5, BoundsAssumption DEF Restore, list, work, WaitlistTypeOK
  <2>2. stock # 0 => cause' = cause
    BY <1>5 DEF Restore
  <2>3. stock = 0 => \A p \in Waiting : cause'[p] # "none"
    <3>1. stock = 0 => Blame(Waiting, "cancelled")
      BY <1>5 DEF Restore
    <3> QED
      BY <3>1, BlameFacts DEF Waiting
  <2>4. stock # 0 => stock > 0
    BY <2>1
  <2> QED
    BY <2>1, <2>2, <2>3, <2>4, ShelfKeeps
<1>6. CASE Toggle
  <2>1. UNCHANGED <<row, life, drain, todo, mailed, heard, crossed, stock, cause>>
    BY <1>6 DEF Toggle, list, work, past
  <2> QED
    BY <2>1, ShelfKeeps
<1>7. ASSUME NEW d \in Drains, NEW next \in 0 .. MaxStock, EditStock(d, next)
      PROVE  Fresh' /\ Remembered' /\ SentWasHeard' /\ ToldWasMailed' /\ OnTheWay'
  <2>1. /\ UNCHANGED <<row, life, todo, mailed, heard, crossed>> /\ drain[d] = "idle" /\ stock' = next
        /\ drain' = [drain EXCEPT ![d] = IF Wakes(stock, next) THEN "list" ELSE "idle"]
    BY <1>7 DEF EditStock, list
  <2>2. drain'[d] = (IF Wakes(stock, next) THEN "list" ELSE "idle") /\ \A c \in Drains \ {d} : drain'[c] = drain[c]
    BY <1>0, <2>1 DEF WaitlistTypeOK
  <2>3. Fresh'
    BY <1>0, <2>1, <2>2 DEF Fresh
  <2>4. Remembered' /\ ToldWasMailed'
    BY <1>0, <2>1 DEF Remembered, ToldWasMailed
  <2>5. SentWasHeard'
    BY <1>0, <2>1 DEF SentWasHeard, Current
  <2>6. OnTheWay'
    <3> SUFFICES ASSUME NEW q \in Waiting', next > 0, cause'[q] = "none"
                 PROVE \E c \in Drains :
                        \/ drain'[c] = "list"
                        \/ drain'[c] = "send" /\ <<q, life'[q]>> \in todo'[c] \cup mailed'[c]
      BY <2>1 DEF OnTheWay
    <3>1. q \in Waiting /\ stock \in Nat
      BY <1>0, <2>1, BoundsAssumption DEF Waiting, WaitlistTypeOK
    <3>2. CASE stock = 0
      BY <2>2, <3>2 DEF Wakes
    <3>3. CASE stock # 0
      <4>1. cause' = cause /\ stock > 0
        BY <1>7, <3>1, <3>3 DEF EditStock
      <4>2. PICK c \in Drains : \/ drain[c] = "list"
                                \/ drain[c] = "send" /\ <<q, life[q]>> \in todo[c] \cup mailed[c]
        BY <1>0, <3>1, <4>1 DEF OnTheWay
      <4>3. c # d
        BY <2>1, <4>2
      <4> QED
        BY <2>1, <2>2, <4>2, <4>3
    <3> QED
      BY <3>2, <3>3
  <2> QED
    BY <2>3, <2>4, <2>5, <2>6
<1>8. ASSUME NEW d \in Drains, ListPending(d)
      PROVE  Fresh' /\ Remembered' /\ SentWasHeard' /\ ToldWasMailed' /\ OnTheWay'
  <2> DEFINE E == {<<p, life[p]>> : p \in Waiting}
  <2>1. /\ UNCHANGED <<row, life, mailed, heard, crossed, stock, cause>> /\ drain[d] = "list"
        /\ todo' = [todo EXCEPT ![d] = E]
        /\ drain' = [drain EXCEPT ![d] = IF Waiting = {} THEN "idle" ELSE "send"]
    BY <1>8 DEF ListPending, shelf, list, past
  <2>2. /\ drain'[d] = (IF Waiting = {} THEN "idle" ELSE "send") /\ todo'[d] = E
        /\ \A c \in Drains \ {d} : drain'[c] = drain[c] /\ todo'[c] = todo[c]
    BY <1>0, <2>1 DEF WaitlistTypeOK
  <2>3. Waiting' = Waiting /\ Waiting \subseteq People
    BY <2>1 DEF Waiting
  <2>4. Fresh'
    <3>1. mailed[d] = {}
      BY <1>0, <2>1 DEF Fresh
    <3>2. Waiting = {} => todo'[d] = {}
      BY <2>2
    <3> QED
      BY <1>0, <2>1, <2>2, <3>1, <3>2 DEF Fresh
  <2>5. Remembered'
    <3> SUFFICES ASSUME NEW c \in Drains, NEW e \in todo'[c] \cup mailed[c]
                 PROVE e[2] <= life[e[1]] /\ (e[2] = life[e[1]] => row[e[1]] # "none")
      BY <2>1 DEF Remembered
    <3>1. CASE c = d /\ e \in E
      <4> PICK p \in Waiting : e = <<p, life[p]>>
        BY <3>1
      <4>1. row[p] = "waiting" /\ life[p] \in Nat
        BY <1>0, BoundsAssumption DEF Waiting, WaitlistTypeOK
      <4> QED
        BY <4>1
    <3>2. CASE e \in todo[c] \cup mailed[c]
      BY <1>0, <3>2 DEF Remembered
    <3> QED
      BY <2>2, <3>1, <3>2
  <2>6. SentWasHeard' /\ ToldWasMailed'
    BY <1>0, <2>1 DEF SentWasHeard, Current, ToldWasMailed
  <2>7. OnTheWay'
    <3> SUFFICES ASSUME NEW q \in Waiting, stock > 0, cause[q] = "none"
                 PROVE \E c \in Drains :
                        \/ drain'[c] = "list"
                        \/ drain'[c] = "send" /\ <<q, life[q]>> \in todo'[c] \cup mailed[c]
      BY <2>1, <2>3 DEF OnTheWay
    <3>1. drain'[d] = "send" /\ <<q, life[q]>> \in todo'[d]
      BY <2>2
    <3> QED
      BY <3>1
  <2> QED
    BY <2>4, <2>5, <2>6, <2>7
<1>9. ASSUME NEW d \in Drains, NEW e \in todo[d], SendMail(d, e)
      PROVE  Fresh' /\ Remembered' /\ SentWasHeard' /\ ToldWasMailed' /\ OnTheWay'
  <2>1. /\ UNCHANGED <<row, life, drain, stock, crossed>> /\ drain[d] = "send"
        /\ todo' = [todo EXCEPT ![d] = @ \ {e}]
        /\ \/ /\ mailed' = [mailed EXCEPT ![d] = @ \cup {e}]
              /\ heard' = (IF Current(e) THEN heard \cup {e[1]} ELSE heard)
              /\ cause' = cause
           \/ Blame({e[1]}, "failed") /\ mailed' = mailed /\ heard' = heard
    BY <1>9 DEF SendMail, shelf, list
  <2>2. /\ todo'[d] = todo[d] \ {e} /\ mailed'[d] \in {mailed[d], mailed[d] \cup {e}}
        /\ \A c \in Drains \ {d} : todo'[c] = todo[c] /\ mailed'[c] = mailed[c]
    BY <1>0, <2>1 DEF WaitlistTypeOK
  <2>3. Fresh'
    BY <1>0, <2>1, <2>2 DEF Fresh
  <2>4. Remembered'
    BY <1>0, <2>1, <2>2 DEF Remembered
  <2>5. SentWasHeard'
    <3> SUFFICES ASSUME NEW c \in Drains, NEW f \in mailed'[c], Current(f)
                 PROVE  f[1] \in heard' \/ f[1] \in crossed
      BY <2>1 DEF SentWasHeard, Current
    <3>1. CASE f \in mailed[c]
      BY <1>0, <2>1, <3>1 DEF SentWasHeard
    <3>2. CASE f \notin mailed[c]
      <4>1. f = e /\ mailed' # mailed
        BY <2>2, <3>2
      <4> QED
        BY <2>1, <4>1
    <3> QED
      BY <3>1, <3>2
  <2>6. ToldWasMailed'
    BY <1>0, <2>1 DEF ToldWasMailed
  <2>7. OnTheWay'
    <3> SUFFICES ASSUME NEW q \in Waiting, stock > 0, cause'[q] = "none"
                 PROVE \E c \in Drains :
                        \/ drain[c] = "list"
                        \/ drain[c] = "send" /\ <<q, life[q]>> \in todo'[c] \cup mailed'[c]
      BY <2>1 DEF OnTheWay, Waiting
    <3>1. cause[q] = "none" /\ (q = e[1] => mailed' = [mailed EXCEPT ![d] = @ \cup {e}])
      <4>1. CASE cause' = cause /\ mailed' = [mailed EXCEPT ![d] = @ \cup {e}]
        BY <4>1
      <4>2. CASE Blame({e[1]}, "failed")
        BY <4>2, BlameFacts DEF Waiting
      <4> QED
        BY <2>1, <4>1, <4>2
    <3>2. PICK c \in Drains : \/ drain[c] = "list"
                              \/ drain[c] = "send" /\ <<q, life[q]>> \in todo[c] \cup mailed[c]
      BY <1>0, <3>1 DEF OnTheWay
    <3>3. CASE <<q, life[q]>> = e
      <4>1. mailed'[d] = mailed[d] \cup {e}
        BY <1>0, <3>1, <3>3 DEF WaitlistTypeOK
      <4> QED
        BY <2>1, <3>3, <4>1
    <3>4. CASE <<q, life[q]>> # e
      BY <2>2, <3>2, <3>4
    <3> QED
      BY <3>3, <3>4
  <2> QED
    BY <2>3, <2>4, <2>5, <2>6, <2>7
<1>10. ASSUME NEW d \in Drains, MarkNotified(d)
       PROVE  Fresh' /\ Remembered' /\ SentWasHeard' /\ ToldWasMailed' /\ OnTheWay'
  <2>1. /\ UNCHANGED <<life, todo, heard, crossed, stock, cause>> /\ drain[d] = "send" /\ todo[d] = {}
        /\ row' = [p \in People |-> IF row[p] # "none" /\ <<p, life[p]>> \in mailed[d] THEN "told" ELSE row[p]]
        /\ drain' = [drain EXCEPT ![d] = "idle"] /\ mailed' = [mailed EXCEPT ![d] = {}]
    BY <1>10 DEF MarkNotified, Stamped, shelf, past
  <2>2. /\ drain'[d] = "idle" /\ mailed'[d] = {}
        /\ \A c \in Drains \ {d} : drain'[c] = drain[c] /\ mailed'[c] = mailed[c]
    BY <1>0, <2>1 DEF WaitlistTypeOK
  <2>3. \A p \in People : (row'[p] = "none" <=> row[p] = "none") /\ (row'[p] = "waiting" => row[p] = "waiting" /\ <<p, life[p]>> \notin mailed[d])
    BY <2>1
  <2>4. Fresh'
    BY <1>0, <2>1, <2>2 DEF Fresh
  <2>5. Remembered'
    BY <1>0, <1>13, <1>14, <2>1, <2>2, <2>3 DEF Remembered
  <2>6. SentWasHeard'
    <3> SUFFICES ASSUME NEW c \in Drains, NEW f \in mailed'[c], Current(f)' PROVE f[1] \in heard \/ f[1] \in crossed
      BY <2>1 DEF SentWasHeard
    <3>1. f \in mailed[c] /\ f[1] \in People
      BY <1>13, <1>14, <2>2
    <3>2. Current(f)
      BY <2>1, <2>3, <3>1 DEF Current
    <3> QED
      BY <1>0, <3>1, <3>2 DEF SentWasHeard
  <2>7. ToldWasMailed'
    <3> SUFFICES ASSUME NEW p \in People, row'[p] = "told" PROVE p \in heard \/ p \in crossed
      BY <2>1 DEF ToldWasMailed
    <3>1. CASE row[p] = "told"
      BY <1>0, <3>1 DEF ToldWasMailed
    <3>2. CASE row[p] # "none" /\ <<p, life[p]>> \in mailed[d]
      <4>1. Current(<<p, life[p]>>)
        BY <3>2 DEF Current
      <4> QED
        BY <1>0, <3>2, <4>1 DEF SentWasHeard
    <3> QED
      BY <2>1, <3>1, <3>2
  <2>8. OnTheWay'
    <3> SUFFICES ASSUME NEW q \in Waiting', stock > 0, cause[q] = "none"
                 PROVE \E c \in Drains :
                        \/ drain'[c] = "list"
                        \/ drain'[c] = "send" /\ <<q, life[q]>> \in todo[c] \cup mailed'[c]
      BY <2>1 DEF OnTheWay
    <3>1. q \in Waiting /\ <<q, life[q]>> \notin mailed[d]
      BY <2>3 DEF Waiting
    <3>2. PICK c \in Drains : \/ drain[c] = "list"
                              \/ drain[c] = "send" /\ <<q, life[q]>> \in todo[c] \cup mailed[c]
      BY <1>0, <3>1 DEF OnTheWay
    <3>3. c # d
      BY <2>1, <3>1, <3>2
    <3> QED
      BY <2>2, <3>2, <3>3
  <2> QED
    BY <2>4, <2>5, <2>6, <2>7, <2>8
<1>11. ASSUME NEW d \in Drains, CutOff(d)
       PROVE  Fresh' /\ Remembered' /\ SentWasHeard' /\ ToldWasMailed' /\ OnTheWay'
  <2>1. /\ UNCHANGED <<row, life, heard, crossed, stock>> /\ Blame(Waiting, "cut")
        /\ drain' = [drain EXCEPT ![d] = "idle"] /\ todo' = [todo EXCEPT ![d] = {}] /\ mailed' = [mailed EXCEPT ![d] = {}]
    BY <1>11 DEF CutOff, shelf, list
  <2>2. /\ drain'[d] = "idle" /\ todo'[d] = {} /\ mailed'[d] = {}
        /\ \A c \in Drains \ {d} : drain'[c] = drain[c] /\ todo'[c] = todo[c] /\ mailed'[c] = mailed[c]
    BY <1>0, <2>1 DEF WaitlistTypeOK
  <2>3. Fresh'
    BY <1>0, <2>2 DEF Fresh
  <2>4. Remembered'
    BY <1>0, <2>1, <2>2 DEF Remembered
  <2>5. SentWasHeard'
    BY <1>0, <2>1, <2>2 DEF SentWasHeard, Current
  <2>6. ToldWasMailed'
    BY <1>0, <2>1 DEF ToldWasMailed
  <2>7. OnTheWay'
    <3>1. Waiting' = Waiting /\ \A q \in Waiting : cause'[q] = "cut"
      BY <2>1, BlameFacts DEF Waiting
    <3> QED
      BY <3>1 DEF OnTheWay
  <2> QED
    BY <2>3, <2>4, <2>5, <2>6, <2>7
<1>12. CASE UNCHANGED waitlistVars
  <2>1. UNCHANGED <<row, life, drain, todo, mailed, heard, crossed, stock, cause>>
    BY <1>12 DEF waitlistVars, shelf, list, work, past
  <2> QED
    BY <2>1, ShelfKeeps
<1> QED
  BY <1>1, <1>2, <1>3, <1>4, <1>5, <1>6, <1>7, <1>8, <1>9, <1>10, <1>11, <1>12 DEF WaitlistNext

LEMMA ListHolds == WaitlistSpec => []ListInv
  BY ListInit, ListStep, PTL DEF WaitlistSpec

\* No ask is settled before a mail has left since it was made, but by the stamp of a mail
\* it crossed, for any number of people and overlapping drains.
THEOREM Settled == WaitlistSpec => []ToldWasMailed
<1>1. ListInv => ToldWasMailed
  BY DEF ListInv
<1> QED
  BY <1>1, ListHolds, PTL

\* The four reasons for waiting beside a full shelf are all there are.
THEOREM LeftWaiting == WaitlistSpec => []LeftWaitingHasACause
<1>1. ListInv => LeftWaitingHasACause
  BY DEF ListInv, OnTheWay, LeftWaitingHasACause
<1> QED
  BY <1>1, ListHolds, PTL

(***************************************************************************)
(* One mail per restock: the drains that may still mail p are counted with *)
(* the mails p has had.                                                    *)
(***************************************************************************)

Owes(d, p) == drain[d] = "list" \/ \E e \in todo[d] : e[1] = p
Owing(p) == {d \in Drains : Owes(d, p)}

\* A drain remembers a person once.
Single == \A d \in Drains : \A e, f \in todo[d] : e[1] = f[1] => e = f

Counted == \A p \in People : mails[p] + Cardinality(Owing(p)) <= comebacks

MailInv == WaitlistTypeOK /\ Fresh /\ Single /\ Counted

LEMMA OwingFinite ==
  ASSUME NEW p
  PROVE  IsFiniteSet(Owing(p)) /\ Cardinality(Owing(p)) \in Nat
  BY DrainsAssumption, FS_Subset, FS_CardinalityType DEF Owing

\* Steps that mail nobody and owe nobody anything new.
LEMMA OwesNoMore ==
  ASSUME MailInv, WaitlistTypeOK', UNCHANGED <<mails, comebacks>>,
         \A p \in People : Owing(p)' \subseteq Owing(p)
  PROVE  Counted'
<1> SUFFICES ASSUME NEW p \in People PROVE mails[p] + Cardinality(Owing(p)') <= comebacks
  BY DEF Counted
<1>1. Cardinality(Owing(p)') <= Cardinality(Owing(p)) /\ Cardinality(Owing(p)') \in Nat
  BY OwingFinite, FS_Subset, FS_CardinalityType
<1>2. mails[p] + Cardinality(Owing(p)) <= comebacks /\ mails[p] \in Nat /\ comebacks \in Nat
  BY DEF MailInv, Counted, WaitlistTypeOK
<1> QED
  BY <1>1, <1>2, OwingFinite

LEMMA MailInit == WaitlistInit => MailInv
<1> SUFFICES ASSUME WaitlistInit PROVE MailInv
  OBVIOUS
<1>1. WaitlistTypeOK /\ Fresh /\ Single
  BY WaitlistTypeInit DEF WaitlistInit, Fresh, Single
<1>2. Counted
  <2> SUFFICES ASSUME NEW p \in People PROVE mails[p] + Cardinality(Owing(p)) <= comebacks
    BY DEF Counted
  <2>1. Owing(p) = {}
    BY DEF WaitlistInit, Owing, Owes
  <2> QED
    BY <2>1, FS_EmptySet DEF WaitlistInit
<1> QED
  BY <1>1, <1>2 DEF MailInv

LEMMA MailStep ==
  ASSUME MailInv, [WaitlistNext]_waitlistVars
  PROVE  MailInv'
<1>1. WaitlistTypeOK /\ WaitlistTypeOK' /\ Fresh /\ Single /\ Counted
  BY WaitlistTypeStep DEF MailInv
<1> SUFFICES Fresh' /\ Single' /\ Counted'
  BY <1>1 DEF MailInv
<1>2. ASSUME UNCHANGED <<drain, todo, mailed, mails, comebacks>>
      PROVE  Fresh' /\ Single' /\ Counted'
  <2>1. Fresh' /\ Single' /\ \A p \in People : Owing(p)' \subseteq Owing(p)
    BY <1>1, <1>2 DEF Fresh, Single, Owing, Owes
  <2> QED
    BY <1>1, <1>2, <2>1, OwesNoMore
<1>3. ASSUME NEW d \in Drains, NEW next \in 0 .. MaxStock, EditStock(d, next)
      PROVE  Fresh' /\ Single' /\ Counted'
  <2>1. /\ UNCHANGED <<todo, mailed, mails>> /\ drain[d] = "idle"
        /\ drain' = [drain EXCEPT ![d] = IF Wakes(stock, next) THEN "list" ELSE "idle"]
        /\ comebacks' = IF Wakes(stock, next) THEN comebacks + 1 ELSE comebacks
    BY <1>3 DEF EditStock, Wakes
  <2>2. drain'[d] = (IF Wakes(stock, next) THEN "list" ELSE "idle") /\ \A c \in Drains \ {d} : drain'[c] = drain[c]
    BY <1>1, <2>1 DEF WaitlistTypeOK
  <2>3. Fresh' /\ Single'
    BY <1>1, <2>1, <2>2 DEF Fresh, Single
  <2>4. ASSUME NEW p \in People PROVE mails[p] + Cardinality(Owing(p)') <= comebacks'
    <3>1. /\ mails[p] + Cardinality(Owing(p)) <= comebacks /\ mails[p] \in Nat /\ comebacks \in Nat
          /\ Cardinality(Owing(p)) \in Nat
      BY <1>1, OwingFinite DEF Counted, WaitlistTypeOK
    <3>2. d \notin Owing(p)
      BY <1>1, <2>1 DEF Owing, Owes, Fresh
    <3>3. CASE Wakes(stock, next)
      <4>1. Owing(p)' = Owing(p) \cup {d}
        BY <2>1, <2>2, <3>3 DEF Owing, Owes
      <4>2. Cardinality(Owing(p)') = Cardinality(Owing(p)) + 1
        BY <3>2, <4>1, OwingFinite, FS_AddElement
      <4>3. comebacks' = comebacks + 1
        BY <2>1, <3>3
      <4> QED
        BY <3>1, <4>2, <4>3
    <3>4. CASE ~Wakes(stock, next)
      <4>1. Owing(p)' = Owing(p)
        BY <2>1, <2>2, <3>2, <3>4 DEF Owing, Owes
      <4>2. comebacks' = comebacks
        BY <2>1, <3>4
      <4> QED
        BY <3>1, <4>1, <4>2
    <3> QED
      BY <3>3, <3>4
  <2>5. Counted'
    BY <2>1, <2>4 DEF Counted
  <2> QED
    BY <2>3, <2>5
<1>4. ASSUME NEW d \in Drains, ListPending(d)
      PROVE  Fresh' /\ Single' /\ Counted'
  <2> DEFINE E == {<<p, life[p]>> : p \in Waiting}
  <2>1. /\ UNCHANGED <<mailed, mails, comebacks>> /\ drain[d] = "list"
        /\ todo' = [todo EXCEPT ![d] = E]
        /\ drain' = [drain EXCEPT ![d] = IF Waiting = {} THEN "idle" ELSE "send"]
    BY <1>4 DEF ListPending, past
  <2>2. /\ drain'[d] = (IF Waiting = {} THEN "idle" ELSE "send") /\ todo'[d] = E
        /\ \A c \in Drains \ {d} : drain'[c] = drain[c] /\ todo'[c] = todo[c]
    BY <1>1, <2>1 DEF WaitlistTypeOK
  <2>3. Fresh'
    <3>1. mailed[d] = {}
      BY <1>1, <2>1 DEF Fresh
    <3>2. Waiting = {} => todo'[d] = {}
      BY <2>2
    <3> QED
      BY <1>1, <2>1, <2>2, <3>1, <3>2 DEF Fresh
  <2>4. Single'
    <3>1. \A e, f \in E : e[1] = f[1] => e = f
      OBVIOUS
    <3> HIDE DEF E
    <3> QED
      BY <1>1, <2>2, <3>1 DEF Single
  <2>5. \A p \in People : Owing(p)' \subseteq Owing(p)
    <3> HIDE DEF E
    <3> QED
      BY <2>1, <2>2 DEF Owing, Owes
  <2> QED
    BY <1>1, <2>1, <2>3, <2>4, <2>5, OwesNoMore
<1>5. ASSUME NEW d \in Drains, NEW e \in todo[d], SendMail(d, e)
      PROVE  Fresh' /\ Single' /\ Counted'
  <2>1. /\ UNCHANGED <<drain, comebacks>> /\ drain[d] = "send"
        /\ todo' = [todo EXCEPT ![d] = @ \ {e}]
        /\ mails' = mails \/ mails' = [mails EXCEPT ![e[1]] = @ + 1]
        /\ mailed' = mailed \/ mailed' = [mailed EXCEPT ![d] = @ \cup {e}]
    BY <1>5 DEF SendMail
  <2>2. todo'[d] = todo[d] \ {e} /\ \A c \in Drains \ {d} : todo'[c] = todo[c] /\ mailed'[c] = mailed[c]
    BY <1>1, <2>1 DEF WaitlistTypeOK
  <2>3. Fresh' /\ Single'
    BY <1>1, <2>1, <2>2 DEF Fresh, Single
  <2>4. ASSUME NEW p \in People PROVE mails'[p] + Cardinality(Owing(p)') <= comebacks
    <3>1. /\ mails[p] + Cardinality(Owing(p)) <= comebacks /\ mails[p] \in Nat /\ comebacks \in Nat
          /\ Cardinality(Owing(p)) \in Nat
      BY <1>1, OwingFinite DEF Counted, WaitlistTypeOK
    <3>2. CASE e[1] = p
      <4>1. Owing(p)' = Owing(p) \ {d}
        BY <1>1, <2>1, <2>2, <3>2 DEF Owing, Owes, Single
      <4>2. d \in Owing(p)
        BY <3>2 DEF Owing, Owes
      <4>3. Cardinality(Owing(p)') = Cardinality(Owing(p)) - 1
        BY <4>1, <4>2, OwingFinite, FS_RemoveElement
      <4>4. mails'[p] = mails[p] \/ mails'[p] = mails[p] + 1
        BY <1>1, <2>1, <3>2 DEF WaitlistTypeOK
      <4> QED
        BY <3>1, <4>3, <4>4
    <3>3. CASE e[1] # p
      <4>1. Owing(p)' = Owing(p)
        BY <2>1, <2>2, <3>3 DEF Owing, Owes
      <4>2. mails'[p] = mails[p]
        BY <1>1, <2>1, <3>3 DEF WaitlistTypeOK
      <4> QED
        BY <3>1, <4>1, <4>2
    <3> QED
      BY <3>2, <3>3
  <2>5. Counted'
    BY <2>1, <2>4 DEF Counted
  <2> QED
    BY <2>3, <2>5
<1>6. ASSUME NEW d \in Drains, MarkNotified(d) \/ CutOff(d)
      PROVE  Fresh' /\ Single' /\ Counted'
  <2>1. /\ UNCHANGED <<mails, comebacks>>
        /\ drain' = [drain EXCEPT ![d] = "idle"] /\ mailed' = [mailed EXCEPT ![d] = {}]
        /\ todo' = [todo EXCEPT ![d] = {}]
    BY <1>1, <1>6 DEF MarkNotified, CutOff, past, WaitlistTypeOK
  <2>2. /\ drain'[d] = "idle" /\ todo'[d] = {} /\ mailed'[d] = {}
        /\ \A c \in Drains \ {d} : drain'[c] = drain[c] /\ mailed'[c] = mailed[c] /\ todo'[c] = todo[c]
    BY <1>1, <2>1 DEF WaitlistTypeOK
  <2>3. Fresh' /\ Single'
    BY <1>1, <2>2 DEF Fresh, Single
  <2>4. \A p \in People : Owing(p)' \subseteq Owing(p)
    BY <2>2 DEF Owing, Owes
  <2> QED
    BY <1>1, <2>1, <2>3, <2>4, OwesNoMore
<1>7. ASSUME NEW p \in People, Ask(p) \/ Register(p) \/ Erase(p)
      PROVE  UNCHANGED <<drain, todo, mailed, mails, comebacks>>
  BY <1>7 DEF Ask, Register, Erase, work, past
<1>8. ASSUME Sell \/ Restore \/ Toggle \/ UNCHANGED waitlistVars
      PROVE  UNCHANGED <<drain, todo, mailed, mails, comebacks>>
  BY <1>8 DEF Sell, Restore, Toggle, waitlistVars, work, past
<1> QED
  BY <1>2, <1>3, <1>4, <1>5, <1>6, <1>7, <1>8 DEF WaitlistNext

\* However many drains overlap and however many mails they repeat, nobody is mailed
\* more often than an edit took the pack from zero.
THEOREM OneMailEach == WaitlistSpec => []OneMailPerRestock
<1>1. MailInv => OneMailPerRestock
  <2> SUFFICES ASSUME MailInv, NEW p \in People PROVE mails[p] <= comebacks
    BY DEF OneMailPerRestock
  <2>1. /\ mails[p] + Cardinality(Owing(p)) <= comebacks /\ mails[p] \in Nat /\ comebacks \in Nat
        /\ Cardinality(Owing(p)) \in Nat
    BY OwingFinite DEF MailInv, Counted, WaitlistTypeOK
  <2> QED
    BY <2>1
<1> QED
  BY <1>1, MailInit, MailStep, PTL DEF WaitlistSpec
=============================================================================
