----------------------------- MODULE ObjectLock -----------------------------
(***************************************************************************)
(* What CLyman's object lock promises (docs/pages/Object_API.rst, "Object  *)
(* Lock" and "Object Unlock"), whatever else happens to the objects: an    *)
(* object has at most one holder, only a lock request that is granted      *)
(* makes a device the holder, only an unlock request of the holder frees   *)
(* the object again, and a request is denied only after it has found the   *)
(* object in the wrong hands.                                              *)
(***************************************************************************)
CONSTANTS Requests, Keys, Devices, NoDevice, Absent

VARIABLES
  holder,   \* the holder of every object, NoDevice, or Absent: no object
  wants,    \* what each request asks for; it never changes
  outcome   \* how far it has got

vars == <<holder, wants, outcome>>

Outcomes == {"open", "contended", "granted", "denied", "failed"}

\* A request that is neither a lock nor an unlock has kind "other".
Wishes == [kind : {"lock", "unlock"}, key : Keys, device : Devices]
            \union [kind : {"other"}]

TypeOK ==
  /\ holder \in [Keys -> Devices \union {NoDevice, Absent}]
  /\ wants \in [Requests -> Wishes]
  /\ outcome \in [Requests -> Outcomes]

Init ==
  /\ holder \in [Keys -> {NoDevice, Absent}]
  /\ wants \in [Requests -> Wishes]
  /\ outcome = [r \in Requests |-> "open"]

Undecided(r) == outcome[r] \in {"open", "contended"}

Settle(r, result) ==
  /\ outcome' = [outcome EXCEPT ![r] = result]
  /\ UNCHANGED wants

\* Only in this state of the object is the request granted.
Grantable(r) ==
  \/ wants[r].kind = "lock" /\ holder[wants[r].key] = NoDevice
  \/ wants[r].kind = "unlock" /\ holder[wants[r].key] = wants[r].device

Grant(r) ==
  /\ Undecided(r)
  /\ Grantable(r)
  /\ holder' = [holder EXCEPT ![wants[r].key] =
                  IF wants[r].kind = "lock" THEN wants[r].device ELSE NoDevice]
  /\ Settle(r, "granted")

\* The object is not there or not in the right hands: the request tries again,
\* or it is denied.
Contend(r) ==
  /\ wants[r].kind # "other"
  /\ Undecided(r)
  /\ ~Grantable(r)
  /\ \E result \in {"contended", "denied"} : Settle(r, result)
  /\ UNCHANGED holder

\* Whatever keeps the request from trying on.
GiveUp(r) ==
  /\ wants[r].kind # "other"
  /\ Undecided(r)
  /\ Settle(r, IF outcome[r] = "contended" THEN "denied" ELSE "failed")
  /\ UNCHANGED holder

\* Objects come without a holder, and they go with one or without.
Create(k) ==
  /\ holder[k] = Absent
  /\ holder' = [holder EXCEPT ![k] = NoDevice]
  /\ UNCHANGED <<wants, outcome>>

Delete(k) ==
  /\ holder[k] # Absent
  /\ holder' = [holder EXCEPT ![k] = Absent]
  /\ UNCHANGED <<wants, outcome>>

Next ==
  \/ \E r \in Requests : Grant(r) \/ Contend(r) \/ GiveUp(r)
  \/ \E k \in Keys : Create(k) \/ Delete(k)

Spec == Init /\ [][Next]_vars
=============================================================================
