-------------------------------- MODULE Phone --------------------------------
(***************************************************************************)
(* The checkout of the mobile app.  The screen mints one idempotency key   *)
(* for an attempt and holds it while the outcome is unknown, so that the   *)
(* next tap replays the order if there is one; a refusal clears it.  An    *)
(* attempt that is awaited outlives the screen that made it, and nothing   *)
(* outlives the app.                                                       *)
(***************************************************************************)
EXTENDS PhoneSession

CONSTANT MaxTaps  \* bound on the taps on Place Order

ASSUME TapsAssumption == MaxTaps \in Nat

VARIABLES
  taps,     \* attempts made so far; an attempt is known by its number
  key,      \* idempotencyKey.current, the attempt that minted it; 0 is null
  placing,  \* the attempt the screen waits for, or 0
  waiting,  \* the attempts whose answer the app still waits for
  sent,     \* requests on their way to the shop
  answers,  \* answers on their way back
  placed,   \* keys the shop holds an order of
  known,    \* keys whose order the app has shown a receipt of
  given     \* for the properties: why the app let go of a key, by key

screen    == <<taps, key, placing, waiting>>
network   == <<sent, answers>>
checkout  == <<screen, network, placed, known, given>>
phoneVars == <<session, checkout>>

Numbers == 1 .. MaxTaps
Attempt(n, k) == [n |-> n, key |-> k]

PhoneTypeOK ==
  /\ SessionTypeOK
  /\ taps \in 0 .. MaxTaps /\ key \in 0 .. taps /\ placing \in 0 .. taps
  /\ waiting \subseteq [n : Numbers, key : Numbers] /\ sent \subseteq waiting \cup [n : Numbers, key : Numbers]
  /\ answers \subseteq [n : Numbers, says : {"ok", "refused", "unsure"}]
  /\ known \subseteq placed /\ placed \subseteq Numbers
  /\ given \in [Numbers -> {"no", "left", "refused"}]

PhoneInit ==
  /\ SessionInit
  /\ taps = 0 /\ key = 0 /\ placing = 0
  /\ waiting = {} /\ sent = {} /\ answers = {}
  /\ placed = {} /\ known = {}
  /\ given = [k \in Numbers |-> "no"]

\* The key in hand is let go of for a reason; none is in hand if it is 0.
LetGo(reason) == given' = [k \in Numbers |-> IF k = key THEN reason ELSE given[k]]

(***************************************************************************)
(* The screen.                                                             *)
(***************************************************************************)

\* submit: the key is minted on the first tap and used again on the next.
Tap ==
  /\ placing = 0 /\ taps < MaxTaps
  /\ taps' = taps + 1 /\ placing' = taps + 1
  /\ key' = IF key = 0 THEN taps + 1 ELSE key
  /\ waiting' = waiting \cup {Attempt(taps + 1, key')}
  /\ sent' = sent \cup {Attempt(taps + 1, key')}
  /\ UNCHANGED <<session, answers, placed, known, given>>

\* The schema refuses the form before anything is sent, and that clears the key
\* like any refusal.
TapInvalid ==
  /\ placing = 0
  /\ key' = 0 /\ LetGo("refused")
  /\ UNCHANGED <<session, taps, placing, waiting, network, placed, known>>

\* The screen is left and its refs with it; what it waits for goes on.
LeaveScreen ==
  /\ key' = 0 /\ placing' = 0 /\ LetGo("left")
  /\ UNCHANGED <<session, taps, waiting, network, placed, known>>

(***************************************************************************)
(* The shop, and the network.                                              *)
(***************************************************************************)

Answered(r, says) == answers' = answers \cup {[n |-> r.n, says |-> says]}

\* POST /api/checkout: a key that has an order is answered with that order.
Accept(r) ==
  /\ r \in sent
  /\ sent' = sent \ {r}
  /\ placed' = placed \cup {r.key}
  /\ Answered(r, "ok")
  /\ UNCHANGED <<session, screen, known, given>>

\* The rate limit, the hourly ceiling, stock, the coupon or a withdrawn pack: all
\* come before the insert by which a replay would be known, so that a key that
\* has an order may be refused too.
RefuseOrder(r) ==
  /\ r \in sent
  /\ sent' = sent \ {r}
  /\ Answered(r, "refused")
  /\ UNCHANGED <<session, screen, placed, known, given>>

\* 500 or 503, before or after the commit.
Fail(r) ==
  /\ r \in sent
  /\ sent' = sent \ {r}
  /\ placed' \in {placed, placed \cup {r.key}}
  /\ Answered(r, "unsure")
  /\ UNCHANGED <<session, screen, known, given>>

LoseRequest(r) ==
  /\ r \in sent
  /\ sent' = sent \ {r}
  /\ UNCHANGED <<session, screen, answers, placed, known, given>>

\* No connection, or the deadline of the request; the request may still arrive.
TimeOut(w) ==
  /\ w \in waiting
  /\ waiting' = waiting \ {w}
  /\ placing' = IF placing = w.n THEN 0 ELSE placing
  /\ UNCHANGED <<session, taps, key, network, placed, known, given>>

(***************************************************************************)
(* The answer, in submit.                                                  *)
(***************************************************************************)

\* The answer to an attempt the app still waits for.
Answers(w, says) == w \in waiting /\ [n |-> w.n, says |-> says] \in answers

Taken(w, says) ==
  /\ answers' = answers \ {[n |-> w.n, says |-> says]}
  /\ waiting' = waiting \ {w}

\* The receipt replaces the screen that is open, whoever asked for it.
Receive(w) ==
  /\ Answers(w, "ok") /\ Taken(w, "ok")
  /\ known' = known \cup {w.key}
  /\ key' = 0 /\ placing' = 0
  /\ IF key = w.key THEN UNCHANGED given ELSE LetGo("left")
  /\ UNCHANGED <<session, taps, sent, placed>>

\* Fault: every failure clears the key.
KeepsNone(says) == says \in {}

\* The codes that leave the outcome open keep the key.
Keeps(says) == says = "unsure"

NotPlaced(w, says) ==
  /\ says # "ok" /\ Answers(w, says) /\ Taken(w, says)
  /\ placing' = IF placing = w.n THEN 0 ELSE placing
  /\ IF placing # w.n \/ Keeps(says)
       THEN UNCHANGED <<key, given>>
       ELSE /\ key' = 0
            /\ IF w.n = w.key THEN UNCHANGED given ELSE LetGo("refused")
  /\ UNCHANGED <<session, taps, sent, placed, known>>

\* A 2xx whose body is empty or cut: placeCodOrder throws, so that submit goes no further.
\* The screen goes on waiting, with its key, until it is left.
Stick(w) ==
  /\ Answers(w, "ok") /\ Taken(w, "ok")
  /\ UNCHANGED <<session, taps, key, placing, sent, placed, known, given>>

Restart ==
  /\ SessionRestart
  /\ key' = 0 /\ placing' = 0 /\ waiting' = {}
  /\ given' = [k \in Numbers |-> IF k = key \/ (\E w \in waiting : w.key = k) THEN "left" ELSE given[k]]
  /\ UNCHANGED <<taps, network, placed, known>>

PhoneNext ==
  \/ SessionStep /\ UNCHANGED checkout
  \/ Tap \/ TapInvalid \/ LeaveScreen \/ Restart
  \/ \E r \in sent : Accept(r) \/ RefuseOrder(r) \/ Fail(r) \/ LoseRequest(r)
  \/ \E w \in waiting : TimeOut(w) \/ Receive(w) \/ Stick(w)
  \/ \E w \in waiting, says \in {"refused", "unsure"} : NotPlaced(w, says)

PhoneSpec == PhoneInit /\ [][PhoneNext]_phoneVars

(***************************************************************************)
(* What must hold.                                                         *)
(***************************************************************************)

\* The app knows of every order it made, or holds the key by which the next tap, if the
\* screen still allows one, will be answered with it; unless the customer left, or a later
\* attempt under the key was refused.  The first attempt of a key, refused, leaves no
\* order behind.
OrderIsKnownOrHeld ==
  \A k \in placed : k \in known \/ k = key \/ given[k] # "no"
=============================================================================
