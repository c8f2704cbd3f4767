---------------------------- MODULE PhoneSession -----------------------------
(***************************************************************************)
(* The session of the mobile app: one token in the device's keystore and a *)
(* copy of it in memory.  Reading, saving and clearing each await the      *)
(* keystore before they publish the copy, so that two of them may overlap, *)
(* and any answer of 401 clears whatever session there is by then.         *)
(***************************************************************************)
EXTENDS Naturals, FiniteSets

CONSTANTS
  Tokens,  \* tokens the shop signs
  Calls    \* requests of the app at once

VARIABLES
  keystore,  \* SecureStore under STORAGE_KEY
  cached,    \* cached and loaded of session.ts: Unread until loaded
  calls,     \* where each request is
  door,      \* where signing in or signing out is
  signed,    \* tokens the shop has given out
  dead,      \* those past their expiresAt, or of a customer erased since
  wanted,    \* for the properties: the session the customer should have
  astray     \* for the properties: the device may have another, for a cause

device  == <<keystore, cached>>
shop    == <<signed, dead>>
session == <<device, calls, door, shop, wanted, astray>>

NoToken == "none"
Unread == "unread"
Idle == [at |-> "idle"]
At(step, t) == [at |-> step, token |-> t]

\* Where a request may be, and where the door.
Places(steps) == {Idle} \cup {At(s, t) : s \in steps, t \in Tokens \cup {NoToken}}
CallPlaces == Places({"reading", "read", "sent", "clear", "cleared"})
DoorPlaces == Places({"asked", "save", "saved", "clear", "cleared"})

SessionTypeOK ==
  /\ keystore \in Tokens \cup {NoToken} /\ cached \in Tokens \cup {NoToken, Unread}
  /\ calls \in [Calls -> CallPlaces] /\ door \in DoorPlaces
  /\ dead \subseteq signed /\ signed \subseteq Tokens
  /\ wanted \in Tokens \cup {NoToken} /\ astray \in BOOLEAN

SessionInit ==
  /\ keystore = NoToken /\ cached = Unread
  /\ calls = [c \in Calls |-> Idle] /\ door = Idle
  /\ signed = {} /\ dead = {}
  /\ wanted = NoToken /\ astray = FALSE

\* The operations that have asked the keystore and not yet published.
Under(steps) == door.at \in steps \/ \E c \in Calls : calls[c].at \in steps

Reads  == Under({"reading", "read"})
Saves  == Under({"save", "saved"})
Clears == Under({"clear", "cleared"})

Crossing == (Reads /\ Saves) \/ (Reads /\ Clears) \/ (Saves /\ Clears)

\* A step may leave the device astray by itself, or because two operations of
\* different kinds overlap now.
Astray(cause) == astray' = (astray \/ cause \/ Crossing')

(***************************************************************************)
(* Requests.                                                               *)
(***************************************************************************)

\* buildHeaders: loadSession answers from memory once it has loaded.
Ask(c) ==
  /\ calls[c] = Idle
  /\ calls' = [calls EXCEPT ![c] = IF cached = Unread THEN At("reading", NoToken) ELSE At("sent", cached)]
  /\ UNCHANGED <<device, door, shop, wanted>>
  /\ Astray(FALSE)

\* A keystore that will not be read counts as an empty one.
Fetch(c) ==
  /\ calls[c].at = "reading"
  /\ \E t \in {keystore, NoToken} :
       /\ calls' = [calls EXCEPT ![c] = At("read", t)]
       /\ UNCHANGED <<device, door, shop, wanted>>
       /\ Astray(t # keystore)

\* The session t is over for the customer too, unless the one to be cleared by now
\* is another.
Ends(t) ==
  IF wanted \in {t, NoToken}
    THEN wanted' = NoToken /\ Astray(FALSE)
    ELSE UNCHANGED wanted /\ Astray(TRUE)

\* A token past its expiresAt is cleared, and the request made again without it;
\* one that is dead for another reason cannot be told.
Load(c) ==
  /\ calls[c].at = "read"
  /\ UNCHANGED <<keystore, door, shop>>
  /\ LET t == calls[c].token IN
       \/ /\ t \in dead
          /\ calls' = [calls EXCEPT ![c] = At("clear", t)]
          /\ UNCHANGED cached
          /\ Ends(t)
       \/ /\ calls' = [calls EXCEPT ![c] = At("sent", t)]
          /\ cached' = t
          /\ UNCHANGED wanted
          /\ Astray(FALSE)

\* Any answer but 401, or none.
Answer(c) ==
  /\ calls[c].at = "sent"
  /\ calls' = [calls EXCEPT ![c] = Idle]
  /\ UNCHANGED <<device, door, shop, wanted>>
  /\ Astray(FALSE)

\* A guest who asks for an account is refused like a dead token.
Refuse(c) ==
  /\ calls[c].at = "sent"
  /\ calls[c].token \in {NoToken} \cup dead
  /\ calls' = [calls EXCEPT ![c] = At("clear", calls[c].token)]
  /\ UNCHANGED <<device, door, shop>>
  /\ Ends(calls[c].token)

(***************************************************************************)
(* Clearing: deleteItemAsync, then publish(null).                          *)
(***************************************************************************)

\* Fault: only the copy in memory is dropped.
Remembered == keystore

\* What the keystore holds once the item is deleted.
Deleted == NoToken

\* A keystore that refuses to delete is ignored.
Delete ==
  \/ keystore' = Deleted /\ Astray(FALSE)
  \/ keystore # NoToken /\ UNCHANGED keystore /\ Astray(TRUE)

DeleteAfter401(c) ==
  /\ calls[c].at = "clear"
  /\ calls' = [calls EXCEPT ![c] = At("cleared", calls[c].token)]
  /\ UNCHANGED <<cached, door, shop, wanted>>
  /\ Delete

DropAfter401(c) ==
  /\ calls[c].at = "cleared"
  /\ calls' = [calls EXCEPT ![c] = Idle]
  /\ cached' = NoToken
  /\ UNCHANGED <<keystore, door, shop, wanted>>
  /\ Astray(FALSE)

SignOut ==
  /\ door = Idle /\ cached \in Tokens
  /\ door' = At("clear", cached)
  /\ wanted' = NoToken
  /\ UNCHANGED <<device, calls, shop>>
  /\ Astray(FALSE)

DeleteToSignOut ==
  /\ door.at = "clear"
  /\ door' = At("cleared", door.token)
  /\ UNCHANGED <<cached, calls, shop, wanted>>
  /\ Delete

DropToSignOut ==
  /\ door.at = "cleared"
  /\ door' = Idle
  /\ cached' = NoToken
  /\ UNCHANGED <<keystore, calls, shop, wanted>>
  /\ Astray(FALSE)

(***************************************************************************)
(* Signing in: the answer is saved before signIn returns.                  *)
(***************************************************************************)

SignIn ==
  /\ door = Idle /\ cached = NoToken
  /\ door' = At("asked", NoToken)
  /\ UNCHANGED <<device, calls, shop, wanted>>
  /\ Astray(FALSE)

\* 200 with a token; or a refusal, or nothing.
Granted(t) ==
  /\ door.at = "asked" /\ t \notin signed
  /\ door' = At("save", t)
  /\ signed' = signed \cup {t}
  /\ UNCHANGED <<device, calls, dead, wanted>>
  /\ Astray(FALSE)

NotGranted ==
  /\ door.at = "asked"
  /\ door' = Idle
  /\ UNCHANGED <<device, calls, shop, wanted>>
  /\ Astray(FALSE)

Save ==
  /\ door.at = "save"
  /\ door' = At("saved", door.token)
  /\ keystore' = door.token
  /\ wanted' = door.token
  /\ UNCHANGED <<cached, calls, shop>>
  /\ Astray(FALSE)

\* setItemAsync throws, and signIn with it.
NotSaved ==
  /\ door.at = "save"
  /\ door' = Idle
  /\ UNCHANGED <<device, calls, shop, wanted>>
  /\ Astray(FALSE)

\* A sign-in that ends undisturbed, its session still the one the customer should
\* have, puts right what was astray before it.
Publish ==
  /\ door.at = "saved"
  /\ door' = Idle
  /\ cached' = door.token
  /\ astray' = (astray /\ ~(keystore = door.token /\ wanted = door.token /\ ~Reads /\ ~Clears))
  /\ UNCHANGED <<keystore, calls, shop, wanted>>

(***************************************************************************)
(* The world.                                                              *)
(***************************************************************************)

\* Tokens live for thirty days, and an erased customer's are refused at once.
Expire(t) ==
  /\ t \in signed \ dead
  /\ dead' = dead \cup {t}
  /\ UNCHANGED <<device, calls, door, signed, wanted, astray>>

\* The app is killed and opened again: what it awaited is gone.
SessionRestart ==
  /\ cached' = Unread
  /\ calls' = [c \in Calls |-> Idle]
  /\ door' = Idle
  /\ UNCHANGED <<keystore, shop, wanted>>
  /\ Astray(Clears)

SessionStep ==
  \/ \E c \in Calls : Ask(c) \/ Fetch(c) \/ Load(c) \/ Answer(c) \/ Refuse(c)
  \/ \E c \in Calls : DeleteAfter401(c) \/ DropAfter401(c)
  \/ SignOut \/ DeleteToSignOut \/ DropToSignOut
  \/ SignIn \/ NotGranted \/ Save \/ NotSaved \/ Publish
  \/ \E t \in Tokens : Granted(t) \/ Expire(t)

(***************************************************************************)
(* What must hold.                                                         *)
(***************************************************************************)

\* Whenever nothing is under way, the device holds the session the customer
\* signed in to and has not left: unless a refusal of another session's request
\* cleared it, two operations on the keystore overlapped, the keystore would not
\* be read or cleared, or the app was killed while it cleared.
SignedInAsAsked ==
  (~Reads /\ ~Saves /\ ~Clears) =>
     astray \/ (keystore = wanted /\ cached \in {Unread, wanted})
=============================================================================
