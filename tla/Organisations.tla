---------------------------- MODULE Organisations ----------------------------
(***************************************************************************)
(* Organisations, memberships and a user's primary organisation.           *)
(* SetPrimary is one transaction of two UPDATEs (READ COMMITTED): each     *)
(* takes its snapshot when it starts and locks the rows it writes until    *)
(* the transaction ends, one row at a time; a row another transaction      *)
(* holds is waited for.  Writes show when the transaction commits.  All    *)
(* other methods are one statement.                                        *)
(*                                                                         *)
(* A transaction with claims gets nowhere here: PostgreSQL finds infinite  *)
(* recursion in the policy org_members_owner_modify, which reads its own   *)
(* table, and fails every statement that touches it.  What is modelled are *)
(* transactions of a role that bypasses the policies.                      *)
(*                                                                         *)
(* Memberships are created and updated without the flag, which is left to  *)
(* SetPrimary.                                                             *)
(***************************************************************************)
CONSTANTS User, Org, Tx

VARIABLES
  active,    \* organisations that are active
  member,    \* rows of organization_members, as <<user, org>>
  primary,   \* those with is_primary_organization
  tx         \* the transactions of SetPrimary

orgvars == <<active, member, primary, tx>>

(* wrote: the first statement found its row; todo: rows the second has in its  *)
(* snapshot and still to write; cleared: rows it has written.                  *)
Idle == [step |-> "idle"]
Running == [step : {"first", "second"}, user : User, org : Org, wrote : BOOLEAN,
            todo : SUBSET Org, cleared : SUBSET Org]

Locks(t) ==
  IF tx[t].step = "idle" THEN {}
  ELSE {<<tx[t].user, o>> :
          o \in tx[t].cleared \cup (IF tx[t].wrote THEN {tx[t].org} ELSE {})}
Free(row, t) == \A s \in Tx \ {t} : row \notin Locks(s)

-----------------------------------------------------------------------------
CreateOrganization(o) ==
  /\ active' = active \cup {o}
  /\ UNCHANGED <<member, primary, tx>>
\* Soft: memberships and flags stay.
DeleteOrganization(o) ==
  /\ active' = active \ {o}
  /\ UNCHANGED <<member, primary, tx>>

CreateOrganizationMember(u, o) ==
  /\ <<u, o>> \notin member
  /\ member' = member \cup {<<u, o>>}
  /\ UNCHANGED <<active, primary, tx>>
\* A statement whose snapshot holds the row finds it gone and skips it.
DeleteOrganizationMember(u, o) ==
  /\ <<u, o>> \in member
  /\ \A t \in Tx : <<u, o>> \notin Locks(t)
  /\ member' = member \ {<<u, o>>}
  /\ primary' = primary \ {<<u, o>>}
  /\ tx' = [t \in Tx |-> IF tx[t].step = "second" /\ tx[t].user = u
                         THEN [tx[t] EXCEPT !.todo = @ \ {o}] ELSE tx[t]]
  /\ UNCHANGED active

-----------------------------------------------------------------------------
(* SetPrimary *)

SetPrimaryOrganizationStep1(t, u, o) ==
  /\ tx[t].step = "idle"
  /\ Free(<<u, o>>, t)
  /\ tx' = [tx EXCEPT ![t] = [step |-> "first", user |-> u, org |-> o,
                              wrote |-> <<u, o>> \in member, todo |-> {}, cleared |-> {}]]
  /\ UNCHANGED <<active, member, primary>>

\* Mutant: only the memberships that have the flag are written.
Step2Flagged(t) ==
  /\ tx[t].step = "first"
  /\ tx' = [tx EXCEPT ![t].step = "second",
                      ![t].todo = {o \in Org \ {tx[t].org} : <<tx[t].user, o>> \in primary}]
  /\ UNCHANGED <<active, member, primary>>
\* Mutant: the target is not left out.
Step2Everything(t) ==
  /\ tx[t].step = "first"
  /\ tx' = [tx EXCEPT ![t].step = "second",
                      ![t].todo = {o \in Org : <<tx[t].user, o>> \in member}]
  /\ UNCHANGED <<active, member, primary>>

SetPrimaryOrganizationStep2(t) ==
  /\ tx[t].step = "first"
  /\ tx' = [tx EXCEPT ![t].step = "second",
                      ![t].todo = {o \in Org \ {tx[t].org} : <<tx[t].user, o>> \in member}]
  /\ UNCHANGED <<active, member, primary>>
Clear(t, o) ==
  /\ tx[t].step = "second"
  /\ o \in tx[t].todo
  /\ Free(<<tx[t].user, o>>, t)
  /\ tx' = [tx EXCEPT ![t].todo = @ \ {o}, ![t].cleared = @ \cup {o}]
  /\ UNCHANGED <<active, member, primary>>

Commit(t) ==
  LET u == tx[t].user
      set == IF tx[t].wrote THEN {<<u, tx[t].org>>} ELSE {} IN
  /\ tx[t].step = "second"
  /\ tx[t].todo = {}
  /\ primary' = (primary \cup set) \ {<<u, o>> : o \in tx[t].cleared}
  /\ tx' = [tx EXCEPT ![t] = Idle]
  /\ UNCHANGED <<active, member>>
\* A deadlock's victim, a cancelled request or a lost connection.
Rollback(t) ==
  /\ tx[t].step # "idle"
  /\ tx' = [tx EXCEPT ![t] = Idle]
  /\ UNCHANGED <<active, member, primary>>

Step(t) ==
  \/ \E u \in User, o \in Org : SetPrimaryOrganizationStep1(t, u, o)
  \/ SetPrimaryOrganizationStep2(t)
  \/ \E o \in Org : Clear(t, o)
  \/ Commit(t)
  \/ Rollback(t)

Init ==
  /\ active = Org
  /\ member = {}
  /\ primary = {}
  /\ tx = [t \in Tx |-> Idle]

Next ==
  \/ \E o \in Org : CreateOrganization(o) \/ DeleteOrganization(o)
  \/ \E u \in User, o \in Org : CreateOrganizationMember(u, o) \/ DeleteOrganizationMember(u, o)
  \/ \E t \in Tx : Step(t)

Spec == Init /\ [][Next]_orgvars

-----------------------------------------------------------------------------
GetUserPrimaryOrganization(u) == {o \in active : <<u, o>> \in primary}

\* Every variable holds a value of its kind, the flag is on rows that exist, and a
\* row that is locked exists.
TypeOK ==
  /\ active \subseteq Org /\ member \subseteq User \X Org /\ primary \subseteq member
  /\ tx \in [Tx -> Running \cup {Idle}]
  /\ \A t \in Tx : Locks(t) \subseteq member

\* However SetPrimary's transactions for the same user overlap, with each other and
\* with memberships coming and going, the user never has two primary organisations.
AtMostOnePrimary == \A u \in User : \A o, p \in Org :
                      <<u, o>> \in primary /\ <<u, p>> \in primary => o = p

\* When a SetPrimary that found the membership commits, it is what the user's primary
\* organisation is read as, unless the organisation was deleted.
TargetIsPrimary ==
  [][\A t \in Tx, u \in User :
       tx[t].step = "second" /\ tx[t].wrote /\ tx[t].user = u /\ Commit(t) =>
         GetUserPrimaryOrganization(u)' = {tx[t].org} \cap active]_orgvars
=============================================================================
