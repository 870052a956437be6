----------------------------- MODULE FencedLock -----------------------------
(***************************************************************************)
(* What the Leaser promises, without rows, transactions or clocks: a lock  *)
(* whose handles carry fencing tokens.  Tokens are issued one at a time in *)
(* increasing order; a handle carries a token that no other handle has;    *)
(* and only the handle with the last token issued may act as the owner.    *)
(* Lease implements it.                                                    *)
(***************************************************************************)
EXTENDS Naturals

CONSTANTS Grants, NoHolder

VARIABLES
    last,    \* the last token issued
    holder,  \* whom it was issued to, NoHolder once it was given back
    handle,  \* the token of the handle each grant has, 0 while it has none
    owners   \* the handles that act as the owner
lockVars == <<last, holder, handle, owners>>

\* Earlier, released grants may have used up some tokens.
LockInit ==
    /\ last \in Nat
    /\ holder = NoHolder
    /\ handle = [g \in Grants |-> 0]
    /\ owners = {}

\* The next token goes to g, which has no handle yet, while nobody acts as the owner.
Issue(g) ==
    /\ owners = {} /\ handle[g] = 0
    /\ last' = last + 1 /\ holder' = g
    /\ UNCHANGED <<handle, owners>>

\* g gets a handle with a token that no other handle carries: the last one if it is
\* still the holder, and it may then act at once; an older one if it was late.
Deliver(g) ==
    /\ handle[g] = 0
    /\ \E t \in 1 .. last :
          /\ \A h \in Grants : handle[h] # t
          /\ holder = g => t = last
          /\ handle' = [handle EXCEPT ![g] = t]
    /\ \/ owners' = owners
       \/ holder = g /\ owners' = {g}
    /\ UNCHANGED <<last, holder>>

\* The handle of the holder, with the last token, acts as the owner (again).
Enter(g) ==
    /\ holder = g /\ handle[g] = last /\ handle[g] > 0
    /\ owners' = {g}
    /\ UNCHANGED <<last, holder, handle>>

\* Owners stop acting: released, lost, closed or out of time.
Leave ==
    /\ owners' \in SUBSET owners
    /\ UNCHANGED <<last, holder, handle>>

\* The holder gives its token back, and no longer acts.  The token is used up.
Vacate ==
    /\ holder # NoHolder /\ holder \notin owners
    /\ holder' = NoHolder
    /\ UNCHANGED <<last, handle, owners>>

\* A process dies, and its handles with it.
Drop(S) ==
    /\ handle' = [g \in Grants |-> IF g \in S THEN 0 ELSE handle[g]]
    /\ owners' = owners \ S
    /\ UNCHANGED <<last, holder>>

LockNext ==
    \/ \E g \in Grants : Issue(g) \/ Deliver(g) \/ Enter(g)
    \/ Leave \/ Vacate
    \/ \E S \in SUBSET Grants : Drop(S)

LockSpec == LockInit /\ [][LockNext]_lockVars
=============================================================================
