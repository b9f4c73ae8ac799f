------------------------------ MODULE SessionStore ------------------------------
(***************************************************************************)
(* What the changelog transactions of the session caches promise for one    *)
(* session: the changes of a transaction take effect at once when it        *)
(* commits, no committed change is lost while the session exists, and a     *)
(* change is given up only when the session is gone, when the transaction   *)
(* is rolled back, or when it is dropped after too many attempts.           *)
(***************************************************************************)
CONSTANTS
    Txs,        \* transactions
    Absent      \* the session does not exist

VARIABLES
    sess,       \* committed changes the session shows, by transaction, or Absent
    outcome     \* how a transaction has ended

storeVars == <<sess, outcome>>

End(t, result) ==
    /\ outcome[t] = "running"
    /\ outcome' = [outcome EXCEPT ![t] = result]

StoreInit ==
    /\ sess \in {Absent, {}}
    /\ outcome = [t \in Txs |-> "running"]

\* The session is there and shows the changes of t from now on.
Change(t) == sess # Absent /\ sess' = sess \cup {t} /\ End(t, "changed")

\* t creates the session, with changes or without.
Create(t) ==
    /\ sess = Absent
    /\ \/ sess' = {t} /\ End(t, "changed")
       \/ sess' = {} /\ End(t, "touched")

\* t wanted to create the session, which exists, and has no changes.
Touch(t) == sess # Absent /\ UNCHANGED sess /\ End(t, "touched")

Remove(t) == sess' = Absent /\ End(t, "removed")

Ignore(t) == sess = Absent /\ UNCHANGED sess /\ End(t, "ignored")

GiveUp(t) == UNCHANGED sess /\ (End(t, "rolledBack") \/ End(t, "dropped"))

Expire == sess' = Absent /\ UNCHANGED outcome

StoreNext ==
    \/ \E t \in Txs : Change(t) \/ Create(t) \/ Touch(t) \/ Remove(t) \/ Ignore(t) \/ GiveUp(t)
    \/ Expire

StoreSpec == StoreInit /\ [][StoreNext]_storeVars

=============================================================================
