---------------------------- MODULE SharedMutex ----------------------------
(***************************************************************************)
(* The boost::shared_mutex behind BoostScopedReadLock and                  *)
(* BoostScopedWriteLock: who holds it shared, for upgrade, exclusively.  A *)
(* write lock is an upgrade lock, which leaves readers in, turned into an  *)
(* exclusive one, which waits for them to leave.                           *)
(***************************************************************************)

Unlocked == [shared |-> {}, upgrade |-> {}, exclusive |-> {}]

MutexType(T) == [shared : SUBSET T, upgrade : SUBSET T, exclusive : SUBSET T]

CanShare(m) == m.exclusive = {}
LockShared(m, t) == [m EXCEPT !.shared = @ \cup {t}]
UnlockShared(m, t) == [m EXCEPT !.shared = @ \ {t}]

\* Mutant: an upgrade lock does not keep another one out.
CanUpgradeShared(m) == m.exclusive = {}
CanUpgrade(m) == m.exclusive = {} /\ m.upgrade = {}
LockUpgrade(m, t) == [m EXCEPT !.upgrade = @ \cup {t}]

CanExclude(m) == m.shared = {}
LockExclusive(m, t) == [m EXCEPT !.upgrade = @ \ {t}, !.exclusive = {t}]
UnlockExclusive(m, t) == [m EXCEPT !.exclusive = @ \ {t}]

\* Nobody shares the mutex with a thread that holds it exclusively.
MutexSafe(m) ==
    /\ \A t, u \in m.exclusive : t = u
    /\ m.exclusive # {} => m.shared = {} /\ m.upgrade = {}

=============================================================================
