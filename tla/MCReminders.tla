---------------------------- MODULE MCReminders ----------------------------
(* The chasing jobs for TLC: the schedules of cron-runner.mts and vercel.json. *)
EXTENDS Reminders, TLC

CONSTANTS vpsReminder, vpsNotice, vercelReminder

Lines == {vpsReminder, vpsNotice, vercelReminder}

JobOfLine == [e \in Lines |-> IF e = vpsNotice THEN "final_notice" ELSE "payment_reminder"]

Hours == [e \in Lines |-> IF e = vercelReminder THEN 24 ELSE 1]

\* Either of the schedules, and a job fired by both; the two jobs touch nothing of each
\* other's.
Deployed == {{vercelReminder}, {vpsNotice}, {vpsReminder, vercelReminder}}

\* Two orders for the daily schedule alone.
PlacedUnder == [d \in Deployed |-> IF d = {vercelReminder} THEN 2 ELSE 1]

Symmetry == Permutations(Orders) \cup Permutations(Slots)
=============================================================================
