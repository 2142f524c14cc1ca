----------------------------- MODULE DeviceLife -----------------------------
(***************************************************************************)
(* What the USBH layer promises about a device object, without the lists,  *)
(* flags and counters it keeps the promise with: a device can be opened    *)
(* only until it is doomed (disconnected or to be freed), a user leaves    *)
(* with none of its transfers under way, and only a doomed device without  *)
(* users and transfers is reclaimed.                                       *)
(***************************************************************************)
CONSTANTS Dev, User

VARIABLES
    life,       \* "absent", "live" or "doomed"
    users,      \* who has the device open
    work        \* whose control transfer is under way

Init ==
    /\ life = [d \in Dev |-> "absent"]
    /\ users = [d \in Dev |-> {}]
    /\ work = [d \in Dev |-> {}]

Attach(d) ==
    /\ life[d] = "absent" /\ life' = [life EXCEPT ![d] = "live"]
    /\ UNCHANGED <<users, work>>

Join(d, u) ==
    /\ life[d] = "live" /\ u \notin users[d]
    /\ users' = [users EXCEPT ![d] = @ \cup {u}]
    /\ UNCHANGED <<life, work>>

Begin(d, u) ==
    /\ u \in users[d] \ work[d]
    /\ work' = [work EXCEPT ![d] = @ \cup {u}]
    /\ UNCHANGED <<life, users>>

End(d, u) ==
    /\ u \in work[d]
    /\ work' = [work EXCEPT ![d] = @ \ {u}]
    /\ UNCHANGED <<life, users>>

Leave(d, u) ==
    /\ u \in users[d] \ work[d]
    /\ users' = [users EXCEPT ![d] = @ \ {u}]
    /\ UNCHANGED <<life, work>>

\* One device is disconnected, or all of them are to be freed.
Doom(D) ==
    /\ \A d \in D : life[d] # "absent"
    /\ life' = [d \in Dev |-> IF d \in D THEN "doomed" ELSE life[d]]
    /\ UNCHANGED <<users, work>>

Reclaim(d) ==
    /\ life[d] = "doomed" /\ users[d] = {} /\ work[d] = {}
    /\ life' = [life EXCEPT ![d] = "absent"]
    /\ UNCHANGED <<users, work>>

Next ==
    \/ \E d \in Dev : Attach(d) \/ Reclaim(d)
    \/ \E d \in Dev, u \in User : Join(d, u) \/ Leave(d, u) \/ Begin(d, u) \/ End(d, u)
    \/ \E D \in SUBSET Dev : Doom(D)

Spec == Init /\ [][Next]_<<life, users, work>>
=============================================================================
