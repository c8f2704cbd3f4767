----------------------------- MODULE Reminders -----------------------------
(***************************************************************************)
(* The jobs that chase an online order nobody paid for: a reminder, then a *)
(* final notice, before the order is cancelled and its stock released.     *)
(* A deployment has schedules, each line of which fires one of the jobs    *)
(* every so many hours, whether or not the run before has ended.  A run    *)
(* reads the oldest orders that are due, at most Batch of them, and for    *)
(* each looks in email_log, claims the order, sends, logs and, after a     *)
(* failed send, gives the claim back.  Nothing bounds how long that takes. *)
(* Meanwhile time passes, customers pay or cancel, and a run may be cut    *)
(* short after any step.  Time is counted in hours.                        *)
(***************************************************************************)
EXTENDS Integers, FiniteSets

CONSTANTS
  Orders,
  Entries,      \* lines of the schedules of cron-runner.mts, Vercel Cron, a crontab
  JobOf,        \* the job an entry fires
  PeriodOf,     \* hours between two firings of an entry
  Deployments,  \* the sets of entries a deployment may have
  Batch,        \* LIMIT of the orders one run reads
  Slots,        \* bound: the runs of one entry at work at once
  MaxPlaced,    \* bound: the orders placed under each deployment
  PlaceHours,   \* bound: the hours at which orders are placed
  LastHour,     \* bound: the hour at which the model stops
  MaxSlow,      \* bound: the hours that strike while a run is at work
  MaxLapses,    \* bound: firings missed and runs cut short
  None

Jobs == {"payment_reminder", "final_notice"}

ASSUME EntriesAssumption ==
  /\ JobOf \in [Entries -> Jobs] /\ PeriodOf \in [Entries -> Nat \ {0}]
  /\ Deployments \subseteq SUBSET Entries

ASSUME TimesAssumption == Batch \in Nat \ {0} /\ LastHour \in Nat /\ MaxSlow \in Nat /\ MaxLapses \in Nat

ASSUME NoneAssumption == None \notin Orders

VARIABLES
  schedule, \* the entries of this deployment
  hour,     \* hours since the model began
  age,      \* age of each order in whole hours, -1 before it is placed
  status,   \* status and payment status of each order
  claimed,  \* reminder_sent_at and final_notice_sent_at are set, by job
  logged,   \* email_log has a row, by job and order
  due,      \* entries that are still to fire in this hour
  run,      \* the runs of each entry
  slow,     \* hours that have struck while a run was at work, against MaxSlow
  lapses,   \* history: firings missed and runs cut short
  leftOut,  \* history: the last run to read the orders found the order due, but no place for it, by job
  tried,    \* history: a mail was handed to the provider, by job and order
  sent      \* history: mails the provider reported as sent, by job and order

order_  == <<age, status>>
mail_   == <<logged, tried, sent>>
vars    == <<schedule, hour, order_, claimed, mail_, due, run, slow, lapses, leftOut>>

\* "unpaid" is status pending with payment pending; "failed" is a failed payment.
Status  == {"unpaid", "failed", "paid", "cancelled", "released"}
Results == {"sent", "failed", "skipped_no_smtp"}

\* strikes: the hours that have struck since the run read its orders, 2 for two or more.
RunStates == [at : {"idle", "next", "claim", "send", "log", "release"}, todo : SUBSET Orders,
              order : Orders \cup {None}, result : Results \cup {None}, strikes : 0 .. 2]
Idle      == [at |-> "idle", todo |-> {}, order |-> None, result |-> None, strikes |-> 0]

\* A run is known by the entry that fired it.
Runs   == Entries \X Slots
Job(f) == JobOf[f[1]]

\* The orders a job chases are over After and under Until hours old.
After(job) == IF job = "payment_reminder" THEN 1 ELSE 20

\* Fault: the notice may go out until the hour of the release.
UntilRelease(job) == 48

\* Fault: the reminder is for the orders of the last day.
UntilADay(job) == IF job = "payment_reminder" THEN 24 ELSE 47

Until(job) == IF job = "payment_reminder" THEN 48 ELSE 47

\* cancelStaleOrders(48).
ReleaseAfter == 48

TypeOK ==
  /\ schedule \in SUBSET Entries /\ hour \in 0 .. LastHour
  /\ age \in [Orders -> -1 .. LastHour] /\ status \in [Orders -> Status]
  /\ claimed \in [Jobs -> SUBSET Orders] /\ logged \in [Jobs -> SUBSET Orders]
  /\ tried \in [Jobs -> SUBSET Orders] /\ sent \in [Jobs -> [Orders -> Nat]]
  /\ due \in SUBSET schedule
  /\ run \in [Runs -> RunStates]
  /\ slow \in 0 .. MaxSlow /\ lapses \in 0 .. MaxLapses /\ leftOut \in [Jobs -> SUBSET Orders]

Init ==
  /\ schedule \in Deployments
  /\ hour = 0
  /\ age = [o \in Orders |-> -1] /\ status = [o \in Orders |-> "unpaid"]
  /\ claimed = [j \in Jobs |-> {}] /\ logged = [j \in Jobs |-> {}]
  /\ tried = [j \in Jobs |-> {}] /\ sent = [j \in Jobs |-> [o \in Orders |-> 0]]
  /\ due = {}
  /\ run = [f \in Runs |-> Idle]
  /\ slow = 0 /\ lapses = 0 /\ leftOut = [j \in Jobs |-> {}]

(***************************************************************************)
(* Time and the customers.                                                 *)
(***************************************************************************)

Strike(r) == IF r.at # "idle" /\ r.strikes < 2 THEN [r EXCEPT !.strikes = @ + 1] ELSE r

\* An hour strikes whether or not the runs before it have ended.
Tick ==
  /\ hour < LastHour /\ due = {}
  /\ hour' = hour + 1
  /\ slow' = IF \E f \in Runs : run[f].at # "idle" THEN slow + 1 ELSE slow
  /\ slow' <= MaxSlow
  /\ age' = [o \in Orders |-> IF age[o] = -1 THEN -1 ELSE age[o] + 1]
  /\ run' = [f \in Runs |-> Strike(run[f])]
  /\ due' = {e \in schedule : (hour + 1) % PeriodOf[e] = 0}
  /\ UNCHANGED <<schedule, status, claimed, mail_, lapses, leftOut>>

Place(o) ==
  /\ age[o] = -1 /\ hour \in PlaceHours /\ Cardinality({p \in Orders : age[p] # -1}) < MaxPlaced[schedule]
  /\ age' = [age EXCEPT ![o] = 0]
  /\ UNCHANGED <<schedule, hour, status, claimed, mail_, due, run, slow, lapses, leftOut>>

\* The payment webhook, the customer's cancellation, cancelStaleOrders.
Outcomes(o) ==
  CASE status[o] = "unpaid" -> {"paid", "failed", "cancelled"}
                                 \cup (IF age[o] >= ReleaseAfter THEN {"released"} ELSE {})
    [] status[o] = "failed" -> {"paid", "cancelled"}
    [] OTHER                -> {}

Resolve(o) ==
  /\ age[o] # -1
  /\ \E outcome \in Outcomes(o) : status' = [status EXCEPT ![o] = outcome]
  /\ UNCHANGED <<schedule, hour, age, claimed, mail_, due, run, slow, lapses, leftOut>>

(***************************************************************************)
(* A run of a job; f is the entry that fired it, with its slot.            *)
(***************************************************************************)

Candidates(job) ==
  {o \in Orders : /\ status[o] = "unpaid" /\ o \notin claimed[job]
                  /\ After(job) <= age[o] /\ age[o] < Until(job)}

\* ORDER BY created_at: nobody in all is older than o.
Oldest(o, all) == \A p \in all : age[p] <= age[o]

\* LIMIT: what a run may read; orders as old as each other come in any order.
Batches(job) ==
  LET all == Candidates(job)
  IN  {b \in SUBSET all : /\ Cardinality(b) = (IF Cardinality(all) < Batch THEN Cardinality(all) ELSE Batch)
                          /\ \A o \in b : Oldest(o, all \ b)}

Become(f, r) == run' = [run EXCEPT ![f] = r]

To(f, step) == [run[f] EXCEPT !.at = step]

Continue(f) == [run[f] EXCEPT !.at = "next", !.order = None, !.result = None]

\* The whole batch is read at once; a run that reads nothing is over.
Fire(f) ==
  /\ f[1] \in due /\ run[f].at = "idle"
  /\ \E b \in Batches(Job(f)) :
       /\ Become(f, IF b = {} THEN Idle ELSE [Idle EXCEPT !.at = "next", !.todo = b])
       /\ leftOut' = [leftOut EXCEPT ![Job(f)] = (@ \cup Candidates(Job(f))) \ b]
  /\ due' = due \ {f[1]}
  /\ UNCHANGED <<schedule, hour, order_, claimed, mail_, slow, lapses>>

\* The next order of the batch, oldest first.  hasEmailBeenSent: any row of this template counts,
\* failed ones too.
Check(f) ==
  /\ run[f].at = "next"
  /\ \E o \in run[f].todo : Oldest(o, run[f].todo) /\
       LET rest == [run[f] EXCEPT !.todo = @ \ {o}]
       IN  Become(f, IF o \in logged[Job(f)] THEN rest ELSE [rest EXCEPT !.at = "claim", !.order = o])
  /\ UNCHANGED <<schedule, hour, order_, claimed, mail_, due, slow, lapses, leftOut>>

EndRun(f) ==
  /\ run[f].at = "next" /\ run[f].todo = {}
  /\ Become(f, Idle)
  /\ UNCHANGED <<schedule, hour, order_, claimed, mail_, due, slow, lapses, leftOut>>

\* Fault: the UPDATE has lost its guard.
FreeAlways(job, o) == TRUE

\* WHERE reminder_sent_at IS NULL.
Free(job, o) == o \notin claimed[job]

Claim(f) ==
  LET o == run[f].order
  IN  /\ run[f].at = "claim"
      /\ claimed' = [claimed EXCEPT ![Job(f)] = @ \cup {o}]
      /\ Become(f, IF Free(Job(f), o) THEN To(f, "send") ELSE Continue(f))
  /\ UNCHANGED <<schedule, hour, order_, mail_, due, slow, lapses, leftOut>>

Send(f) ==
  LET o == run[f].order
  IN  /\ run[f].at = "send"
      /\ \E result \in Results :
           /\ Become(f, [To(f, "log") EXCEPT !.result = result])
           /\ sent' = IF result = "sent" THEN [sent EXCEPT ![Job(f)][o] = @ + 1] ELSE sent
      /\ tried' = [tried EXCEPT ![Job(f)] = @ \cup {o}]
  /\ UNCHANGED <<schedule, hour, order_, claimed, logged, due, slow, lapses, leftOut>>

Releases(result) == result = "failed"

\* logEmail; an error of the insert is swallowed.
Log(f) ==
  /\ run[f].at = "log"
  /\ \E isLogged \in BOOLEAN :
       /\ logged' = IF isLogged THEN [logged EXCEPT ![Job(f)] = @ \cup {run[f].order}] ELSE logged
       /\ Become(f, IF Releases(run[f].result) THEN To(f, "release") ELSE Continue(f))
  /\ UNCHANGED <<schedule, hour, order_, claimed, tried, sent, due, slow, lapses, leftOut>>

Release(f) ==
  /\ run[f].at = "release"
  /\ claimed' = [claimed EXCEPT ![Job(f)] = @ \ {run[f].order}]
  /\ Become(f, Continue(f))
  /\ UNCHANGED <<schedule, hour, order_, mail_, due, slow, lapses, leftOut>>

(***************************************************************************)
(* Lapses: a firing that is skipped, a run that throws or whose process    *)
(* goes away.  What it had claimed stays claimed.                          *)
(***************************************************************************)
Lapse(f) ==
  /\ lapses < MaxLapses /\ lapses' = lapses + 1
  /\ \/ f[1] \in due /\ due' = due \ {f[1]} /\ UNCHANGED run
     \/ run[f].at # "idle" /\ Become(f, Idle) /\ UNCHANGED due
  /\ UNCHANGED <<schedule, hour, order_, claimed, mail_, slow, leftOut>>

Next ==
  \/ Tick
  \/ \E o \in Orders : Place(o) \/ Resolve(o)
  \/ \E f \in schedule \X Slots :
       \/ Fire(f) \/ EndRun(f) \/ Check(f) \/ Claim(f) \/ Send(f) \/ Log(f) \/ Release(f)
       \/ Lapse(f)

Spec == Init /\ [][Next]_vars

\* However many schedules fire a job, however their runs overlap, whatever fails in
\* between and wherever a run is cut short, the provider takes the same chase of an order
\* once (the route's "at most one reminder per order"; docs/deploy.md on running two
\* schedulers).
AtMostOneMail == \A j \in Jobs, o \in Orders : sent[j][o] <= 1

\* A final notice is not sent after the release it announces (findFinalNoticeOrderIds,
\* "worse than none"), but by a run that read the order more than an hour before: the
\* bound of 47 hours is all that speaks against it, for the claim looks at no status.
NoticeBeforeRelease ==
  [][\A o \in Orders :
       sent'["final_notice"][o] # sent["final_notice"][o] /\ status[o] = "released"
         => \E f \in schedule \X Slots : /\ Send(f) /\ Job(f) = "final_notice" /\ run[f].order = o
                                         /\ run[f].strikes = 2]_vars

\* The run of f is still to mail o, unless it finds o mailed or claimed.
Pursues(f, o) ==
  /\ run[f].at # "idle"
  /\ o \in run[f].todo \/ (run[f].at \in {"claim", "send"} /\ run[f].order = o)

\* o has been chased by the job, is about to be, or was left out of the last batch.
Chased(job, o) ==
  \/ o \in tried[job] \/ o \in leftOut[job]
  \/ \E f \in Runs : Job(f) = job /\ Pursues(f, o)

\* With no firing missed and no run cut short, an order left unpaid is chased by each job
\* of the deployment before it may be released ("nothing is missed by that"); or it is in
\* the hands of a run that is still at work; or the last batch that was read while it was
\* due was full of orders at least as old.
EveryOrderIsChased ==
  \A o \in Orders : lapses = 0 /\ status[o] = "unpaid" /\ age[o] >= ReleaseAfter
                      => \A e \in schedule : Chased(JobOf[e], o)
=============================================================================
