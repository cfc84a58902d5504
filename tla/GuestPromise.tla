---------------------------- MODULE GuestPromise ----------------------------
(***************************************************************************)
(* What guest mode promises the owner of an account, whatever the server   *)
(* and its reaper do to keep it: a guest may disappear once it is older    *)
(* than the TTL and not before, and an account that was kept stays for     *)
(* good.  A guest "lapses" when its upgrade went through at GoTrue but the *)
(* application missed it: nothing is promised to that one any more.        *)
(***************************************************************************)
EXTENDS Integers

CONSTANTS Auth, TTL

VARIABLES now, phase, since

pvars == <<now, phase, since>>

Phase == {"absent", "guest", "kept", "lapsed", "gone"}

Init ==
    /\ now = 0
    /\ phase = [a \in Auth |-> "absent"]
    /\ since = [a \in Auth |-> 0]

Advance ==
    /\ now' > now
    /\ UNCHANGED <<phase, since>>

\* A visitor becomes a guest.
Arrive(a) ==
    /\ phase[a] = "absent"
    /\ phase' = [phase EXCEPT ![a] = "guest"]
    /\ since' = [since EXCEPT ![a] = now]
    /\ UNCHANGED now

\* A guest's account is kept: the upgrade is complete.
Keep(a) ==
    /\ phase[a] = "guest"
    /\ phase' = [phase EXCEPT ![a] = "kept"]
    /\ UNCHANGED <<now, since>>

\* A guest's account is removed, which takes more than TTL.
Expire(a) ==
    /\ phase[a] = "guest"
    /\ now > since[a] + TTL
    /\ phase' = [phase EXCEPT ![a] = "gone"]
    /\ UNCHANGED <<now, since>>

\* Upgrades are missed, several at once when the process dies.
Lapse(S) ==
    /\ \A a \in S : phase[a] = "guest"
    /\ phase' = [a \in Auth |-> IF a \in S THEN "lapsed" ELSE phase[a]]
    /\ UNCHANGED <<now, since>>

Next ==
    \/ Advance
    \/ \E a \in Auth : Arrive(a) \/ Keep(a) \/ Expire(a)
    \/ \E S \in SUBSET Auth : Lapse(S)

Spec == Init /\ [][Next]_pvars

=============================================================================
