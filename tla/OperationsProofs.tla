-------------------------- MODULE OperationsProofs --------------------------
(***************************************************************************)
(* What operators do.  For any number of migrators, binaries of any        *)
(* version and any number of commands: the migration history is a prefix,  *)
(* a downgrade destroys no state, and a binary leaves a newer schema       *)
(* alone.  For any outbox, replay limit and number of requests: replays    *)
(* become visible whole, audited and from sources that are still terminal, *)
(* answers are true, and waits for row locks never form a circle.          *)
(***************************************************************************)
EXTENDS Migrations, Operations, FiniteSetTheorems, TLAPS
-----------------------------------------------------------------------------
(* Migrations.                                                              *)

Transaction ==
    [at : {"idle", "begin", "read", "apply", "lock", "check", "drop", "commit"},
     command : {"none", "up", "down"}, version : Nat,
     added : SUBSET Nat, dropped : SUBSET Nat, locked : SUBSET Guarded]

\* What a transaction has done so far, against the committed history: an up
\* migration has added the versions from the latest to its own, a down migration
\* works on the latest, and past the check it holds the table lock.
Consistent(m) ==
    /\ migrator[m].at \in {"idle", "begin", "read"} =>
         migrator[m].added = {} /\ migrator[m].dropped = {}
    /\ migrator[m].at \notin {"idle", "begin", "read"} =>
         Latest(history) <= BinaryVersion[m]
    /\ migrator[m].at = "apply" =>
         /\ migrator[m].version >= Latest(history) + 1
         /\ migrator[m].added = Latest(history) + 1 .. migrator[m].version - 1
         /\ migrator[m].dropped = {}
    /\ migrator[m].at \in {"lock", "check", "drop", "commit"} =>
         /\ migrator[m].version = Latest(history) /\ Latest(history) # 0
         /\ migrator[m].added = {}
         /\ migrator[m].dropped = IF migrator[m].at = "commit" THEN {Latest(history)} ELSE {}
    /\ migrator[m].at \in {"lock", "check"} => migrator[m].version \in Guarded
    /\ migrator[m].at \in {"check", "drop", "commit"} /\ migrator[m].version \in Guarded =>
         migrator[m].locked = {migrator[m].version} /\ ~writer[migrator[m].version]
    /\ migrator[m].at \in {"drop", "commit"} /\ migrator[m].version \in Guarded =>
         ~protected[migrator[m].version]

\* The advisory lock: at most one transaction is past it.
Alone ==
    \A m, o \in Migrator : m # o =>
        migrator[m].at \in {"idle", "begin"} \/ migrator[o].at \in {"idle", "begin"}

MigrationsInv ==
    /\ MigrationsTypeOK
    /\ Latest(history) \in Nat
    /\ HistoryIsPrefix
    /\ Alone
    /\ \A m \in Migrator : Consistent(m)
-----------------------------------------------------------------------------
\* Latest of a prefix is its length.
LEMMA LatestOfPrefix ==
    ASSUME NEW n \in Nat
    PROVE  Latest(1 .. n) = n
<1>1. CASE n = 0
  BY <1>1 DEF Latest
<1>2. CASE n # 0
  <2>1. n \in 1 .. n /\ \A w \in 1 .. n : w <= n
    BY <1>2
  <2>2. \A v \in 1 .. n : (\A w \in 1 .. n : w <= v) => v = n
    BY <1>2
  <2>. QED  BY <2>1, <2>2 DEF Latest
<1>. QED  BY <1>1, <1>2

LEMMA MigrationsStart == MigrationsInit => MigrationsInv
<1>. SUFFICES ASSUME MigrationsInit PROVE MigrationsInv
  OBVIOUS
<1>1. PICK n \in 0 .. InboxVersion : history = 1 .. n
  BY Zenon DEF MigrationsInit
<1>2. n \in Nat /\ 1 .. n \subseteq Nat
  BY DEF InboxVersion
<1>3. Latest(history) = n
  BY Zenon, <1>1, <1>2, LatestOfPrefix
<1>4. MigrationsTypeOK
  BY <1>1, <1>2, MigrationConstants DEF MigrationsInit, MigrationsTypeOK, NoMigration
<1>. QED  BY <1>1, <1>2, <1>3, <1>4
          DEF MigrationsInit, MigrationsInv, HistoryIsPrefix, Alone, Consistent, NoMigration

\* A step that makes t of one transaction and commits nothing.
LEMMA TransactionStep ==
    ASSUME MigrationsInv, NEW m \in Migrator, NEW t \in Transaction,
           migrator' = [migrator EXCEPT ![m] = t],
           UNCHANGED <<history, protected, writer>>, migrations' \in Nat,
           t.version <= BinaryVersion[m] + 1,
           migrator'[m] = t => Consistent(m)',
           t.at \in {"idle", "begin"} \/ migrator[m].at \notin {"idle", "begin"}
              \/ AdvisoryLockFree(m)
    PROVE  MigrationsInv'
<1>1. MigrationsTypeOK' /\ migrator'[m] = t
  BY DEF MigrationsInv, MigrationsTypeOK, Transaction
<1>2. Latest(history)' = Latest(history)
  BY DEF Latest
<1>3. Alone'
  BY DEF MigrationsInv, MigrationsTypeOK, Alone, AdvisoryLockFree
<1>4. \A o \in Migrator : Consistent(o)'
  <2>. SUFFICES ASSUME NEW o \in Migrator \ {m} PROVE Consistent(o)'
    BY <1>1
  <2>1. migrator'[o] = migrator[o]
    BY DEF MigrationsInv, MigrationsTypeOK
  <2>. QED  BY ZenonT(30), <1>2, <2>1 DEF MigrationsInv, Consistent
<1>. QED  BY <1>1, <1>2, <1>3, <1>4 DEF MigrationsInv, HistoryIsPrefix

\* The facts every step below starts from.
LEMMA TransactionOf ==
    ASSUME MigrationsInv, NEW m \in Migrator
    PROVE  /\ migrator[m] \in Transaction /\ Consistent(m)
           /\ migrator[m].version <= BinaryVersion[m] + 1
           /\ migrations \in Nat /\ Latest(history) \in Nat
           /\ BinaryVersion[m] \in Nat
BY MigrationConstants DEF MigrationsInv, MigrationsTypeOK, Transaction

LEMMA KeepsFinished ==
    ASSUME MigrationsInv, NEW m \in Migrator, Finished(m),
           UNCHANGED <<history, protected, writer, migrations>>
    PROVE  MigrationsInv'
<1>1. NoMigration \in Transaction /\ NoMigration.version <= BinaryVersion[m] + 1
  BY TransactionOf DEF NoMigration, Transaction
<1>2. migrator'[m] = NoMigration => Consistent(m)'
  BY DEF Consistent, NoMigration
<1>. QED  BY Zenon, <1>1, <1>2, TransactionOf, TransactionStep DEF Finished, NoMigration

LEMMA KeepsStart ==
    ASSUME MigrationsInv, NEW m \in Migrator, NEW command \in {"up", "down"},
           StartMigration(m, command)
    PROVE  MigrationsInv'
<1>0. /\ migrator[m] \in Transaction /\ Consistent(m) /\ migrations \in Nat
      /\ migrator[m].version <= BinaryVersion[m] + 1
      /\ Latest(history) \in Nat /\ BinaryVersion[m] \in Nat
  BY TransactionOf
<1>. DEFINE t == [migrator[m] EXCEPT !.at = "begin", !.command = command]
<1>1. migrator' = [migrator EXCEPT ![m] = t] /\ migrator[m].at = "idle"
  BY Zenon DEF StartMigration
<1>2. t \in Transaction /\ t.at = "begin" /\ t.version = migrator[m].version
  BY Zenon, <1>0 DEF Transaction
<1>3. migrator'[m] = t => Consistent(m)'
  BY <1>1, <1>0 DEF Consistent, Transaction
<1>4. UNCHANGED <<history, protected, writer>> /\ migrations' \in Nat
  BY <1>0 DEF StartMigration
<1>. HIDE DEF t
<1>. QED  BY Zenon, <1>0, <1>1, <1>2, <1>3, <1>4, TransactionStep

LEMMA MigrationKeepsBegin ==
    ASSUME MigrationsInv, NEW m \in Migrator, BeginMigration(m)
    PROVE  MigrationsInv'
<1>0. /\ migrator[m] \in Transaction /\ Consistent(m) /\ migrations \in Nat
      /\ migrator[m].version <= BinaryVersion[m] + 1
      /\ Latest(history) \in Nat /\ BinaryVersion[m] \in Nat
  BY TransactionOf
<1>. DEFINE t == [migrator[m] EXCEPT !.at = "read"]
<1>1. migrator' = [migrator EXCEPT ![m] = t] /\ migrator[m].at = "begin"
  BY DEF BeginMigration
<1>2. t \in Transaction /\ t.version = migrator[m].version
  BY <1>0 DEF Transaction
<1>3. migrator'[m] = t => Consistent(m)'
  BY <1>1, <1>0 DEF Consistent, Transaction
<1>. HIDE DEF t
<1>. QED  BY Zenon, <1>1, <1>2, <1>3, <1>0, TransactionStep DEF BeginMigration

LEMMA KeepsRead ==
    ASSUME MigrationsInv, NEW m \in Migrator, ReadVersions(m)
    PROVE  MigrationsInv'
<1>0. /\ migrator[m] \in Transaction /\ Consistent(m) /\ migrations \in Nat
      /\ migrator[m].version <= BinaryVersion[m] + 1
      /\ Latest(history) \in Nat /\ BinaryVersion[m] \in Nat
  BY TransactionOf
<1>. DEFINE latest == Latest(history)
            next == IF latest \in Guarded THEN "lock" ELSE "drop"
            up == [migrator[m] EXCEPT !.at = "apply", !.version = latest + 1]
            down == [migrator[m] EXCEPT !.version = latest, !.at = next]
<1>1. /\ migrator[m].at = "read" /\ UNCHANGED <<history, protected, writer, migrations>>
      /\ \/ Finished(m)
         \/ /\ ValidVersions(m, history)
            /\ migrator' = [migrator EXCEPT ![m] = up]
         \/ /\ ValidVersions(m, history) /\ latest # 0
            /\ migrator' = [migrator EXCEPT ![m] = down]
  BY Zenon DEF ReadVersions
<1>5. Latest(history)' = latest
  BY <1>1 DEF Latest
<1>6. ValidVersions(m, history) => latest <= BinaryVersion[m]
  BY DEF ValidVersions
<1>2. CASE Finished(m)
  BY <1>1, <1>2, KeepsFinished
<1>3. CASE ValidVersions(m, history) /\ migrator' = [migrator EXCEPT ![m] = up]
  <2>1. up \in Transaction /\ up.version <= BinaryVersion[m] + 1
    <3>1. latest <= BinaryVersion[m] /\ latest + 1 \in Nat
      BY <1>0, <1>3, <1>6
    <3>2. latest + 1 <= BinaryVersion[m] + 1
      BY <1>0, <3>1
    <3>. HIDE DEF latest
    <3>. QED  BY Zenon, <1>0, <3>1, <3>2 DEF Transaction
  <2>2. migrator'[m] = up => Consistent(m)'
    <3>. SUFFICES ASSUME migrator'[m] = up PROVE Consistent(m)'
      OBVIOUS
    <3>1. up.at = "apply" /\ up.version = latest + 1 /\ up.added = {} /\ up.dropped = {}
      BY <1>1, <1>0 DEF Transaction, Consistent
    <3>2. Latest(history)' = latest /\ latest <= BinaryVersion[m]
      BY <1>3, <1>5, <1>6
    <3>3. latest + 1 .. (latest + 1) - 1 = {} /\ latest + 1 >= latest + 1
      BY <1>0
    <3>. HIDE DEF up, latest
    <3>. QED  BY <3>1, <3>2, <3>3 DEF Consistent
  <2>. HIDE DEF up
  <2>. QED  BY Zenon, <1>1, <1>3, <2>1, <2>2, <1>0, TransactionStep
<1>4. CASE ValidVersions(m, history) /\ latest # 0 /\ migrator' = [migrator EXCEPT ![m] = down]
  <2>1. down \in Transaction /\ down.version <= BinaryVersion[m] + 1
    <3>1. latest <= BinaryVersion[m] /\ latest \in Nat
      BY <1>0, <1>4, <1>6
    <3>2. latest <= BinaryVersion[m] + 1
      BY <1>0, <3>1
    <3>. HIDE DEF latest
    <3>. QED  BY Zenon, <1>0, <3>1, <3>2 DEF Transaction
  <2>2. migrator'[m] = down => Consistent(m)'
    <3>. SUFFICES ASSUME migrator'[m] = down PROVE Consistent(m)'
      OBVIOUS
    <3>1. down.at = next /\ down.version = latest /\ down.added = {} /\ down.dropped = {}
      BY <1>1, <1>0 DEF Transaction, Consistent
    <3>2. Latest(history)' = latest /\ latest <= BinaryVersion[m] /\ latest # 0
      BY <1>4, <1>5, <1>6
    <3>. HIDE DEF down, latest
    <3>. QED  BY Zenon, <3>1, <3>2 DEF Consistent
  <2>. HIDE DEF down
  <2>. QED  BY Zenon, <1>1, <1>4, <2>1, <2>2, <1>0, TransactionStep
<1>. QED  BY <1>1, <1>2, <1>3, <1>4

\* One more version extends a run of versions.
LEMMA OneMore ==
    ASSUME NEW a \in Int, NEW b \in Int, a <= b
    PROVE  (a .. b - 1) \cup {b} = a .. (b + 1) - 1
  OBVIOUS

LEMMA KeepsApply ==
    ASSUME MigrationsInv, NEW m \in Migrator, ApplyUp(m)
    PROVE  MigrationsInv'
<1>0. /\ migrator[m] \in Transaction /\ Consistent(m) /\ migrations \in Nat
      /\ migrator[m].version <= BinaryVersion[m] + 1
      /\ Latest(history) \in Nat /\ BinaryVersion[m] \in Nat
  BY TransactionOf
<1>. DEFINE v == migrator[m].version
            t == [migrator[m] EXCEPT !.added = @ \cup {v}, !.version = v + 1]
<1>1. /\ migrator[m].at = "apply" /\ v <= BinaryVersion[m]
      /\ UNCHANGED <<history, protected, writer, migrations>>
      /\ Finished(m) \/ migrator' = [migrator EXCEPT ![m] = t]
  BY Zenon DEF ApplyUp, MoreFiles
<1>2. CASE Finished(m)
  BY <1>1, <1>2, KeepsFinished
<1>3. CASE migrator' = [migrator EXCEPT ![m] = t]
  <2>1. v \in Nat /\ v + 1 \in Nat /\ v + 1 <= BinaryVersion[m] + 1
    BY <1>0, <1>1 DEF Transaction
  <2>2. t \in Transaction /\ t.version <= BinaryVersion[m] + 1 /\ t.at = "apply"
    BY Zenon, <1>0, <1>1, <2>1 DEF Transaction
  <2>3. migrator'[m] = t => Consistent(m)'
    <3>. SUFFICES ASSUME migrator'[m] = t PROVE Consistent(m)'
      OBVIOUS
    <3>1. Latest(history)' = Latest(history)
      BY <1>1 DEF Latest
    <3>2. /\ migrator[m].added = Latest(history) + 1 .. v - 1 /\ migrator[m].dropped = {}
          /\ v >= Latest(history) + 1 /\ Latest(history) <= BinaryVersion[m]
      BY <1>0, <1>1 DEF Consistent
    <3>3. (Latest(history) + 1 .. v - 1) \cup {v} = Latest(history) + 1 .. (v + 1) - 1
      <4>1. Latest(history) + 1 \in Int /\ v \in Int /\ Latest(history) + 1 <= v
        BY <1>0, <2>1, <3>2
      <4>. HIDE DEF v
      <4>. QED  BY Zenon, <4>1, OneMore
    <3>4. t.version = v + 1 /\ t.added = Latest(history) + 1 .. (v + 1) - 1 /\ t.dropped = {}
      BY <1>0, <3>2, <3>3 DEF Transaction
    <3>5. v + 1 >= Latest(history) + 1
      BY <1>0, <2>1, <3>2
    <3>. HIDE DEF t, v
    <3>. QED  BY Zenon, <2>2, <3>1, <3>2, <3>4, <3>5 DEF Consistent
  <2>. HIDE DEF t
  <2>. QED  BY Zenon, <1>0, <1>1, <1>3, <2>2, <2>3, TransactionStep
<1>. QED  BY <1>1, <1>2, <1>3

LEMMA KeepsLock ==
    ASSUME MigrationsInv, NEW m \in Migrator, LockDowngradeState(m)
    PROVE  MigrationsInv'
<1>0. /\ migrator[m] \in Transaction /\ Consistent(m) /\ migrations \in Nat
      /\ migrator[m].version <= BinaryVersion[m] + 1
      /\ Latest(history) \in Nat /\ BinaryVersion[m] \in Nat
  BY TransactionOf
<1>. DEFINE t == [migrator[m] EXCEPT !.at = "check", !.locked = {migrator[m].version}]
<1>1. /\ migrator[m].at = "lock" /\ ~writer[migrator[m].version]
      /\ migrator' = [migrator EXCEPT ![m] = t]
      /\ UNCHANGED <<history, protected, writer, migrations>>
  BY Zenon DEF LockDowngradeState, LockTaken
<1>2. t \in Transaction /\ t.version = migrator[m].version
  BY Zenon, <1>0, <1>1 DEF Transaction, Consistent
<1>3. migrator'[m] = t => Consistent(m)'
  <2>1. Latest(history)' = Latest(history)
    BY <1>1 DEF Latest
  <2>2. /\ migrator[m].version = Latest(history) /\ Latest(history) # 0
        /\ Latest(history) <= BinaryVersion[m] /\ migrator[m].version \in Guarded
        /\ migrator[m].added = {} /\ migrator[m].dropped = {}
    BY <1>0, <1>1 DEF Consistent
  <2>3. /\ t.at = "check" /\ t.locked = {t.version} /\ t.version = migrator[m].version
        /\ t.added = {} /\ t.dropped = {}
    BY <1>0, <2>2 DEF Transaction
  <2>. HIDE DEF t
  <2>. QED  BY Zenon, <1>1, <2>1, <2>2, <2>3 DEF Consistent
<1>. HIDE DEF t
<1>. QED  BY Zenon, <1>0, <1>1, <1>2, <1>3, TransactionStep

LEMMA KeepsCheck ==
    ASSUME MigrationsInv, NEW m \in Migrator, CheckDowngrade(m)
    PROVE  MigrationsInv'
<1>0. /\ migrator[m] \in Transaction /\ Consistent(m) /\ migrations \in Nat
      /\ migrator[m].version <= BinaryVersion[m] + 1
      /\ Latest(history) \in Nat /\ BinaryVersion[m] \in Nat
  BY TransactionOf
<1>. DEFINE t == [migrator[m] EXCEPT !.at = "drop"]
<1>1. /\ migrator[m].at = "check" /\ UNCHANGED <<history, protected, writer, migrations>>
      /\ \/ Finished(m)
         \/ ~protected[migrator[m].version] /\ migrator' = [migrator EXCEPT ![m] = t]
  BY DEF CheckDowngrade
<1>2. CASE Finished(m)
  BY <1>1, <1>2, KeepsFinished
<1>3. CASE ~protected[migrator[m].version] /\ migrator' = [migrator EXCEPT ![m] = t]
  <2>1. t \in Transaction /\ t.version = migrator[m].version
    BY <1>0 DEF Transaction
  <2>2. migrator'[m] = t => Consistent(m)'
    <3>1. Latest(history)' = Latest(history)
      BY <1>1 DEF Latest
    <3>. QED  BY <1>0, <1>1, <1>3, <3>1 DEF Consistent, Transaction
  <2>. HIDE DEF t
  <2>. QED  BY Zenon, <1>0, <1>1, <1>3, <2>1, <2>2, TransactionStep
<1>. QED  BY <1>1, <1>2, <1>3

LEMMA KeepsDrop ==
    ASSUME MigrationsInv, NEW m \in Migrator, DropVersion(m)
    PROVE  MigrationsInv'
<1>0. /\ migrator[m] \in Transaction /\ Consistent(m) /\ migrations \in Nat
      /\ migrator[m].version <= BinaryVersion[m] + 1
      /\ Latest(history) \in Nat /\ BinaryVersion[m] \in Nat
  BY TransactionOf
<1>. DEFINE v == migrator[m].version
            t == [migrator[m] EXCEPT !.at = "commit", !.dropped = {v}, !.locked = Guarded \cap {v}]
<1>1. /\ migrator[m].at = "drop" /\ (v \in Guarded => ~writer[v])
      /\ migrator' = [migrator EXCEPT ![m] = t]
      /\ UNCHANGED <<history, protected, writer, migrations>>
  BY Zenon DEF DropVersion
<1>2. t \in Transaction /\ t.version = v
  BY Zenon, <1>0 DEF Transaction
<1>3. migrator'[m] = t => Consistent(m)'
  <2>1. Latest(history)' = Latest(history)
    BY <1>1 DEF Latest
  <2>2. /\ v = Latest(history) /\ Latest(history) # 0 /\ Latest(history) <= BinaryVersion[m]
        /\ migrator[m].added = {}
        /\ v \in Guarded => ~protected[v]
    BY <1>0, <1>1 DEF Consistent
  <2>3. /\ t.at = "commit" /\ t.version = v /\ t.added = {} /\ t.dropped = {Latest(history)}
        /\ v \in Guarded => t.locked = {v}
    BY <1>0, <2>2 DEF Transaction
  <2>. HIDE DEF t, v
  <2>. QED  BY Zenon, <1>1, <2>1, <2>2, <2>3 DEF Consistent
<1>. HIDE DEF t
<1>. QED  BY Zenon, <1>0, <1>1, <1>2, <1>3, TransactionStep

\* A commit leaves a prefix: up to the last version added, or one shorter.
LEMMA MigrationKeepsCommit ==
    ASSUME MigrationsInv, NEW m \in Migrator, CommitMigration(m)
    PROVE  MigrationsInv'
<1>0. /\ migrator[m] \in Transaction /\ Consistent(m) /\ migrations \in Nat
      /\ migrator[m].version <= BinaryVersion[m] + 1
      /\ Latest(history) \in Nat /\ BinaryVersion[m] \in Nat
  BY TransactionOf
<1>1. \E n \in Nat : history' = 1 .. n
  <2>1. history = 1 .. Latest(history)
    BY DEF MigrationsInv, HistoryIsPrefix
  <2>2. CASE migrator[m].at = "commit"
    <3>1. history' = history \ {Latest(history)} /\ Latest(history) # 0
      BY Zenon, <1>0, <2>2 DEF CommitMigration, Consistent
    <3>2. history' = 1 .. Latest(history) - 1 /\ Latest(history) - 1 \in Nat
      BY <1>0, <2>1, <3>1
    <3>. QED  BY <3>2
  <2>3. CASE migrator[m].at = "apply"
    <3>. DEFINE v == migrator[m].version
    <3>1. history' = history \cup (Latest(history) + 1 .. v - 1) /\ v >= Latest(history) + 1
      BY Zenon, <1>0, <2>3 DEF CommitMigration, Consistent
    <3>2. v \in Nat
      BY <1>0 DEF Transaction
    <3>3. history' = 1 .. v - 1 /\ v - 1 \in Nat
      BY <1>0, <2>1, <3>1, <3>2
    <3>. QED  BY <3>3
  <2>. QED  BY <2>2, <2>3 DEF CommitMigration
<1>2. HistoryIsPrefix' /\ Latest(history)' \in Nat /\ history' \subseteq Nat
  <2>1. PICK n \in Nat : history' = 1 .. n
    BY <1>1
  <2>2. Latest(history)' = n
    BY <2>1, LatestOfPrefix DEF Latest
  <2>. QED  BY <2>1, <2>2 DEF HistoryIsPrefix
<1>3. /\ migrator' = [migrator EXCEPT ![m] = NoMigration]
      /\ UNCHANGED <<protected, writer, migrations>>
      /\ migrator[m].at \notin {"idle", "begin"}
  BY DEF CommitMigration, Finished
<1>4. MigrationsTypeOK'
  <2>1. NoMigration \in Transaction /\ NoMigration.version <= BinaryVersion[m] + 1
    BY <1>0 DEF NoMigration, Transaction
  <2>. QED  BY <1>2, <1>3, <2>1 DEF MigrationsInv, MigrationsTypeOK, Transaction
<1>5. \A o \in Migrator : migrator'[o].at \in {"idle", "begin"} /\ Consistent(o)'
  <2>. SUFFICES ASSUME NEW o \in Migrator
                PROVE  migrator'[o].at \in {"idle", "begin"} /\ Consistent(o)'
    OBVIOUS
  <2>1. CASE o = m
    BY Zenon, <1>3, <2>1 DEF MigrationsInv, MigrationsTypeOK, Consistent, NoMigration
  <2>2. CASE o # m
    <3>1. migrator'[o] = migrator[o] /\ migrator[o].at \in {"idle", "begin"}
      BY <1>3, <2>2 DEF MigrationsInv, MigrationsTypeOK, Alone
    <3>. QED  BY Zenon, <3>1 DEF MigrationsInv, Consistent
  <2>. QED  BY <2>1, <2>2
<1>. QED  BY <1>2, <1>4, <1>5 DEF MigrationsInv, Alone

\* The applications: a table lock keeps their inserts out, and a guarded version
\* that is being dropped has no uncommitted insert that could commit.
LEMMA KeepsWriter ==
    ASSUME MigrationsInv, NEW v \in Guarded,
           WriterInserts(v) \/ WriterCommits(v) \/ WriterRollsBack(v) \/ StateRetired(v)
    PROVE  MigrationsInv'
<1>1. UNCHANGED <<history, migrator, migrations>>
  BY DEF WriterInserts, WriterCommits, WriterRollsBack, StateRetired
<1>2. Latest(history)' = Latest(history)
  BY <1>1 DEF Latest
<1>3. MigrationsTypeOK'
  BY Zenon, <1>1 DEF MigrationsInv, MigrationsTypeOK, WriterInserts, WriterCommits,
              WriterRollsBack, StateRetired
<1>4. ASSUME NEW m \in Migrator PROVE Consistent(m)'
  <2>. DEFINE w == migrator[m].version
  <2>1. Consistent(m)
    BY DEF MigrationsInv
  <2>2. ASSUME w \in Guarded, ~writer[w], migrator[m].locked = {w} PROVE ~writer'[w]
    BY <2>2 DEF MigrationsInv, MigrationsTypeOK, WriterInserts, WriterCommits,
                WriterRollsBack, StateRetired, TableLocked
  <2>3. ASSUME w \in Guarded, ~writer[w], ~protected[w] PROVE ~protected'[w]
    BY <2>3 DEF MigrationsInv, MigrationsTypeOK, WriterInserts, WriterCommits,
                WriterRollsBack, StateRetired
  <2>. QED  BY Zenon, <1>1, <1>2, <2>1, <2>2, <2>3 DEF Consistent
<1>. QED  BY <1>1, <1>2, <1>3, <1>4 DEF MigrationsInv, HistoryIsPrefix, Alone

LEMMA MigrationsStep == MigrationsInv /\ [MigrationsNext]_migrationVars => MigrationsInv'
<1>. SUFFICES ASSUME MigrationsInv, [MigrationsNext]_migrationVars PROVE MigrationsInv'
  OBVIOUS
<1>1. ASSUME NEW m \in Migrator, NEW command \in {"up", "down"}, StartMigration(m, command)
      PROVE  MigrationsInv'
  BY <1>1, KeepsStart
<1>2. ASSUME NEW m \in Migrator, MigratorStep(m) PROVE MigrationsInv'
  BY <1>2, MigrationKeepsBegin, KeepsRead, KeepsApply, KeepsLock, KeepsCheck, KeepsDrop, MigrationKeepsCommit
     DEF MigratorStep
<1>3. ASSUME NEW m \in Migrator, MigrationFails(m) PROVE MigrationsInv'
  BY Zenon, <1>3, KeepsFinished DEF MigrationFails
<1>4. ASSUME NEW v \in Guarded,
             WriterInserts(v) \/ WriterCommits(v) \/ WriterRollsBack(v) \/ StateRetired(v)
      PROVE  MigrationsInv'
  BY <1>4, KeepsWriter
<1>5. CASE UNCHANGED migrationVars
  <2>1. UNCHANGED <<history, migrator, protected, writer, migrations>>
    BY <1>5 DEF migrationVars
  <2>2. Latest(history)' = Latest(history)
    BY <2>1 DEF Latest
  <2>3. MigrationsTypeOK'
    BY <2>1 DEF MigrationsInv, MigrationsTypeOK
  <2>4. ASSUME NEW m \in Migrator PROVE Consistent(m)'
    BY Zenon, <2>1, <2>2 DEF MigrationsInv, Consistent
  <2>. QED  BY <2>1, <2>2, <2>3, <2>4 DEF MigrationsInv, HistoryIsPrefix, Alone
<1>. QED  BY <1>1, <1>2, <1>3, <1>4, <1>5 DEF MigrationsNext
-----------------------------------------------------------------------------
\* validateVersions' requirement always holds of what MigrateUp and MigrateDown
\* leave: the recorded versions are a contiguous prefix.
THEOREM PrefixAlways == MigrationsSpec => []HistoryIsPrefix
<1>1. MigrationsInv => HistoryIsPrefix
  BY DEF MigrationsInv
<1>. QED  BY MigrationsStart, MigrationsStep, <1>1, PTL DEF MigrationsSpec

\* A binary whose transaction has changed the schema knows every version the
\* database has.
THEOREM NewerSchemaSafe == MigrationsSpec => []NewerSchemaUntouched
<1>1. MigrationsInv => NewerSchemaUntouched
  <2>. SUFFICES ASSUME MigrationsInv, NEW m \in Migrator,
                       migrator[m].added \cup migrator[m].dropped # {}
                PROVE  Latest(history) <= BinaryVersion[m]
    BY DEF NewerSchemaUntouched
  <2>. QED  BY DEF MigrationsInv, Consistent
<1>. QED  BY MigrationsStart, MigrationsStep, <1>1, PTL DEF MigrationsSpec

\* MigrateDown destroys no active inbox rows and no ordered streams: only the
\* lock taken before the check makes this so.
THEOREM DowngradeSafe == MigrationsSpec => DowngradeKeepsState
<1>1. MigrationsInv /\ [MigrationsNext]_migrationVars =>
        [\A v \in Guarded : v \in history /\ v \notin history' => ~protected[v] /\ ~writer[v]]_migrationVars
  <2>. SUFFICES ASSUME MigrationsInv, [MigrationsNext]_migrationVars,
                       NEW v \in Guarded, v \in history, v \notin history'
                PROVE  ~protected[v] /\ ~writer[v]
    OBVIOUS
  <2>1. PICK m \in Migrator : CommitMigration(m)
    BY Zenon DEF MigrationsNext, MigratorStep, StartMigration, BeginMigration, ReadVersions,
                ApplyUp, LockDowngradeState, CheckDowngrade, DropVersion, MigrationFails,
                WriterInserts, WriterCommits, WriterRollsBack, StateRetired, migrationVars
  <2>2. v \in migrator[m].dropped /\ Consistent(m)
    BY <2>1 DEF CommitMigration, MigrationsInv
  <2>3. migrator[m].at = "commit" /\ migrator[m].version = v
    BY <2>1, <2>2 DEF CommitMigration, Consistent
  <2>. QED  BY Zenon, <2>2, <2>3 DEF Consistent
<1>. QED  BY <1>1, MigrationsStart, MigrationsStep, PTL DEF MigrationsSpec, DowngradeKeepsState

\* A migrator goes at most one past the last version its binary embeds, and
\* holds locks on guarded tables only (MigrateUp, MigrateDown).
THEOREM MigrationsTypesCorrect == MigrationsSpec => []MigrationsTypeOK
<1>1. MigrationsInv => MigrationsTypeOK
  BY DEF MigrationsInv
<1>. QED  BY MigrationsStart, MigrationsStep, <1>1, PTL DEF MigrationsSpec
-----------------------------------------------------------------------------
(* Operator requests.                                                       *)

Row == [status : {"pending"} \cup Terminal, created : Nat, from : Nat,
        batch : Nat, ordered : BOOLEAN]
Clone == [id : Nat, from : Nat]
Asks == [op : {"pause"}, value : BOOLEAN] \cup [op : {"retry"}, target : Nat \ {0}]
           \cup [op : {"replay"}, target : Nat \ {0}, mode : Mode]
           \cup [op : {"batch"}, statuses : SUBSET Terminal, mode : Mode]
OpenSession ==
    [state : {"open"}, ask : Asks, stage : {"select", "lock", "write", "clone"},
     shared : SUBSET Nat, todo : SUBSET Nat, clones : SUBSET Clone, updating : SUBSET Nat]
Refusal == {"event_not_found", "invalid_event_state", "not_found", "replay_limit_exceeded"}
Code == {"ok", "internal"} \cup Refusal
AnsweredSession ==
    [state : {"answered"}, code : Code, created : Nat, shared : {{}}, updating : {{}}]
AnySession == {IdleSession} \cup AnsweredSession \cup OpenSession

\* The request may have been carried out.
Committed(s) == session[s].state = "answered" /\ session[s].code \in {"ok", "internal"}

\* An open transaction: which rows it has locked, and what it has cloned of them.
OpenOK(s) ==
    /\ session[s].stage = "select" => session[s].shared = {} /\ session[s].clones = {}
                                      /\ session[s].todo = {} /\ session[s].updating = {}
    /\ session[s].stage = "write" => session[s].shared = {} /\ session[s].clones = {}
                                     /\ session[s].todo = {}
    /\ session[s].stage = "lock" => session[s].ask.op = "batch" /\ session[s].clones = {}
                                    /\ session[s].updating = {}
    /\ session[s].stage = "write" /\ session[s].ask.op = "retry" =>
          session[s].updating = {session[s].ask.target}
    /\ session[s].stage = "clone" => session[s].ask.op \in {"replay", "batch"}
                                     /\ session[s].updating = {}
    /\ IsFiniteSet(session[s].clones)
    /\ session[s].stage # "lock" => session[s].todo \subseteq session[s].shared
    /\ \A i \in session[s].shared : i \in DOMAIN outbox /\ outbox[i].status \in Terminal
    /\ \A c \in session[s].clones :
          /\ c.from \in session[s].shared /\ c.from \notin session[s].todo
          /\ c.id \in 1 .. lastId /\ c.id \notin DOMAIN outbox
    /\ \A c, d \in session[s].clones : c.id = d.id \/ c.from = d.from => c = d

OperationsInv ==
    /\ lastId \in Nat /\ begun \in Nat
    /\ DOMAIN outbox \subseteq 1 .. lastId /\ outbox \in [DOMAIN outbox -> Row]
    /\ session \in [Session -> AnySession]
    /\ \A s \in Session : s > begun => session[s] = IdleSession
    /\ \A s \in Session : session[s].state = "open" => OpenOK(s)
    /\ \A s, t \in Session : session[s].shared \cap session[t].updating = {}
    /\ \A s, t \in Session :
          s # t /\ session[s].state = "open" /\ session[t].state = "open" =>
              \A c \in session[s].clones, d \in session[t].clones : c.id # d.id
    /\ \A s \in Session : \A a \in auditLog : a.request = s => Committed(s)
    /\ \A s \in Session : \A i \in DOMAIN outbox : outbox[i].batch = s => Committed(s)
    /\ \A s \in Session : session[s].state = "answered" /\ session[s].code = "ok" =>
          \E a \in auditLog : a.request = s /\ a.count = session[s].created
-----------------------------------------------------------------------------
LEMMA SessionNumbers == Session \subseteq Nat \ {0} /\ MaxRequests \in Nat
BY OperationsConstants DEF Session

LEMMA SessionKinds ==
    ASSUME NEW x \in AnySession
    PROVE  /\ x.state \in {"idle", "open", "answered"}
           /\ x.state = "open" => x \in OpenSession
           /\ x.state = "answered" => x \in AnsweredSession
           /\ x.state = "idle" => x = IdleSession
           /\ x.shared \in SUBSET Nat /\ x.updating \in SUBSET Nat
           /\ x.state # "open" => x.shared = {} /\ x.updating = {}
BY DEF AnySession, OpenSession, AnsweredSession, IdleSession

LEMMA OperationsStart == OperationsInit => OperationsInv
<1>. SUFFICES ASSUME OperationsInit PROVE OperationsInv
  OBVIOUS
<1>1. lastId \in Nat /\ begun = 0 /\ auditLog = {} /\ session = [s \in Session |-> IdleSession]
  BY OperationsConstants, FS_CardinalityType DEF OperationsInit
<1>2. outbox \in [EventId -> Row] /\ DOMAIN outbox = EventId
      /\ \A i \in EventId : outbox[i].batch = 0
  BY DEF OperationsInit, Row
<1>3. EventId \subseteq 1 .. lastId
  BY Zenon, OperationsConstants DEF OperationsInit
<1>. QED  BY Zenon, <1>1, <1>2, <1>3, SessionNumbers DEF OperationsInv, IdleSession, AnySession

\* A step that makes x of one session that has not committed, and touches no row.
LEMMA SessionStep ==
    ASSUME OperationsInv, NEW s \in Session, NEW x \in AnySession,
           session' = [session EXCEPT ![s] = x],
           UNCHANGED <<outbox, auditLog>>,
           lastId' \in Nat, lastId' >= lastId,
           begun' \in Nat, begun' >= begun, s <= begun',
           ~Committed(s),
           x.state = "answered" => x.code # "ok",
           x.state = "open" /\ session'[s] = x => OpenOK(s)',
           \A t \in Session \ {s} : /\ x.shared \cap session[t].updating = {}
                                    /\ x.updating \cap session[t].shared = {},
           x.shared \cap x.updating = {},
           x.state = "open" =>
             \A t \in Session \ {s} : session[t].state = "open" =>
                \A c \in x.clones, d \in session[t].clones : c.id # d.id
    PROVE  OperationsInv'
<1>1. session'[s] = x /\ \A t \in Session \ {s} : session'[t] = session[t]
  BY DEF OperationsInv
<1>2. session' \in [Session -> AnySession]
  BY DEF OperationsInv
<1>3. DOMAIN outbox' \subseteq 1 .. lastId' /\ outbox' \in [DOMAIN outbox' -> Row]
  BY DEF OperationsInv
<1>4. \A t \in Session : t > begun' => session'[t] = IdleSession
  BY <1>1, SessionNumbers DEF OperationsInv
<1>5. ASSUME NEW t \in Session, session'[t].state = "open" PROVE OpenOK(t)'
  <2>1. CASE t = s
    BY ZenonT(30), <1>1, <1>5, <2>1
  <2>2. CASE t # s
    <3>1. session'[t] = session[t] /\ OpenOK(t)
      BY Zenon, <1>1, <1>5, <2>2 DEF OperationsInv
    <3>2. \A n : n \in 1 .. lastId => n \in 1 .. lastId'
      BY DEF OperationsInv
    <3>. QED  BY <3>1, <3>2 DEF OpenOK
  <2>. QED  BY <2>1, <2>2
<1>6. \A t, u \in Session : session'[t].shared \cap session'[u].updating = {}
  BY <1>1 DEF OperationsInv
<1>7. \A t, u \in Session :
         t # u /\ session'[t].state = "open" /\ session'[u].state = "open" =>
            \A c \in session'[t].clones, d \in session'[u].clones : c.id # d.id
  BY <1>1 DEF OperationsInv
<1>8. \A t \in Session : Committed(t) => Committed(t)'
  BY <1>1 DEF Committed
<1>9. \A t \in Session : session'[t].state = "answered" /\ session'[t].code = "ok" =>
          \E a \in auditLog' : a.request = t /\ a.count = session'[t].created
  BY <1>1 DEF OperationsInv
<1>. QED  BY Zenon, <1>2, <1>3, <1>4, <1>5, <1>6, <1>7, <1>8, <1>9 DEF OperationsInv

\* The facts a step of an open session starts from.
LEMMA OpenFacts ==
    ASSUME OperationsInv, NEW s \in Session, session[s].state = "open"
    PROVE  /\ session[s] \in OpenSession /\ OpenOK(s) /\ ~Committed(s)
           /\ s \in Nat /\ s <= begun /\ begun \in Nat /\ lastId \in Nat
<1>1. session[s] \in AnySession
  BY DEF OperationsInv
<1>2. s \in Nat /\ ~(s > begun) /\ begun \in Nat /\ lastId \in Nat
  BY SessionNumbers DEF OperationsInv, IdleSession
<1>. QED  BY <1>1, <1>2, SessionKinds DEF OperationsInv, Committed

LEMMA KeepsAbort ==
    ASSUME OperationsInv, NEW s \in Session, session[s].state = "open",
           NEW code \in Code, code # "ok", AnswerAbort(s, code),
           UNCHANGED <<outbox, auditLog, begun, lastId>>
    PROVE  OperationsInv'
<1>. DEFINE x == Answered(code, 0)
<1>1. x \in AnySession /\ x.state = "answered" /\ x.code # "ok" /\ x.shared = {} /\ x.updating = {}
  BY DEF Answered, AnySession, AnsweredSession
<1>2. session' = [session EXCEPT ![s] = x]
  BY DEF AnswerAbort
<1>3. lastId' >= lastId /\ begun' >= begun /\ s <= begun' /\ lastId' \in Nat /\ begun' \in Nat
  BY OpenFacts
<1>. HIDE DEF x
<1>. QED  BY Zenon, <1>1, <1>2, <1>3, OpenFacts, SessionStep

LEMMA KeepsRefusal ==
    ASSUME OperationsInv, NEW s \in Session, session[s].state = "open",
           \E code \in Refusal : AnswerAbort(s, code),
           UNCHANGED <<outbox, auditLog, begun, lastId>>
    PROVE  OperationsInv'
<1>1. PICK code \in Refusal : AnswerAbort(s, code)
  OBVIOUS
<1>2. code \in Code /\ code # "ok"
  BY DEF Refusal, Code
<1>. QED  BY <1>1, <1>2, KeepsAbort

LEMMA KeepsBegin ==
    ASSUME OperationsInv, NEW s \in Session, NEW r \in Requests, BeginRequest(s, r)
    PROVE  OperationsInv'
<1>. DEFINE x == [state |-> "open", ask |-> r, stage |-> "select",
                  shared |-> {}, todo |-> {}, clones |-> {}, updating |-> {}]
<1>1. /\ session' = [session EXCEPT ![s] = x] /\ UNCHANGED <<outbox, auditLog, lastId>>
      /\ s = begun + 1 /\ begun' = s
  BY DEF BeginRequest
<1>2. r \in Asks
  <2>1. 1 .. lastId \subseteq Nat \ {0}
    BY DEF OperationsInv
  <2>. QED  BY <2>1 DEF Requests, Asks
<1>3. x \in AnySession /\ x.state = "open" /\ x.shared = {} /\ x.updating = {} /\ x.clones = {}
  BY <1>2 DEF AnySession, OpenSession
<1>4. /\ lastId' >= lastId /\ begun' >= begun /\ s <= begun'
      /\ lastId' \in Nat /\ begun' \in Nat /\ session[s] = IdleSession
  BY <1>1 DEF OperationsInv
<1>5. session'[s] = x => OpenOK(s)'
  BY FS_EmptySet DEF OpenOK
<1>6. ~Committed(s)
  BY <1>4 DEF Committed, IdleSession
<1>. HIDE DEF x
<1>. QED  BY ZenonT(30), <1>1, <1>3, <1>4, <1>5, <1>6, SessionStep

LEMMA KeepsSelectControl ==
    ASSUME OperationsInv, NEW s \in Session, session[s].state = "open",
           session[s].stage = "select", SelectControl(s),
           UNCHANGED <<outbox, control, auditLog, begun, lastId>>
    PROVE  OperationsInv'
<1>0. session[s] \in OpenSession /\ OpenOK(s) /\ ~Committed(s)
      /\ s \in Nat /\ s <= begun /\ begun \in Nat /\ lastId \in Nat
  BY OpenFacts
<1>. DEFINE x == [session[s] EXCEPT !.stage = "write", !.updating = {ControlRow}]
<1>1. session' = [session EXCEPT ![s] = x] /\ session[s].ask.op = "pause"
  BY Zenon DEF SelectControl
<1>2. x \in OpenSession /\ x.state = "open" /\ x.stage = "write" /\ x.updating = {0}
      /\ x.shared = {} /\ x.clones = {} /\ x.todo = {} /\ x.ask = session[s].ask
  <2>1. session[s].shared = {} /\ session[s].clones = {} /\ session[s].todo = {}
    BY Zenon, <1>0 DEF OpenOK
  <2>2. ControlRow = 0 /\ {0} \in SUBSET Nat
    BY DEF ControlRow
  <2>. QED  BY Zenon, <1>0, <2>1, <2>2 DEF OpenSession
<1>3. session'[s] = x => OpenOK(s)'
  <2>. HIDE DEF x
  <2>. QED  BY Zenon, <1>1, <1>2, FS_EmptySet DEF OpenOK
<1>4. ASSUME NEW t \in Session PROVE 0 \notin session[t].shared
  <2>1. session[t].state = "open" => session[t].shared \subseteq DOMAIN outbox
    BY DEF OperationsInv, OpenOK
  <2>2. session[t].state # "open" => session[t].shared = {}
    BY Zenon, SessionKinds DEF OperationsInv
  <2>. QED  BY <2>1, <2>2 DEF OperationsInv
<1>. HIDE DEF x
<1>5. /\ x \in AnySession /\ x.shared \cap x.updating = {}
      /\ \A t \in Session : x.shared \cap session[t].updating = {}
                           /\ x.updating \cap session[t].shared = {}
  BY Zenon, <1>2, <1>4 DEF AnySession
<1>6. lastId' >= lastId /\ begun' >= begun /\ s <= begun' /\ lastId' \in Nat /\ begun' \in Nat
  BY <1>0
<1>. QED  BY ZenonT(30), <1>0, <1>1, <1>2, <1>3, <1>5, <1>6, SessionStep

LEMMA KeepsSelectDead ==
    ASSUME OperationsInv, NEW s \in Session, session[s].state = "open",
           session[s].stage = "select", SelectDead(s),
           UNCHANGED <<outbox, control, auditLog, begun, lastId>>
    PROVE  OperationsInv'
<1>0. session[s] \in OpenSession /\ OpenOK(s) /\ ~Committed(s)
      /\ s \in Nat /\ s <= begun /\ begun \in Nat /\ lastId \in Nat
  BY OpenFacts
<1>. DEFINE i == session[s].ask.target
            x == [session[s] EXCEPT !.stage = "write", !.updating = {i}]
<1>1. \/ \E code \in Refusal : AnswerAbort(s, code)
      \/ session' = [session EXCEPT ![s] = x] /\ i \in DOMAIN outbox /\ ~ShareLocked(i)
  <2>1. ~ShareLocked(i)
    BY DEF SelectDead, SelectDeadBlocked
  <2>. QED  BY Zenon, <2>1 DEF SelectDead, AnswerAbort, Refusal
<1>2. CASE \E code \in Refusal : AnswerAbort(s, code)
  BY <1>2, KeepsRefusal
<1>3. CASE session' = [session EXCEPT ![s] = x] /\ i \in DOMAIN outbox /\ ~ShareLocked(i)
  <2>0. i \in Nat
    BY <1>3 DEF OperationsInv
  <2>1. x \in OpenSession /\ x.state = "open" /\ x.stage = "write" /\ x.updating = {i}
        /\ x.shared = {} /\ x.clones = {} /\ x.todo = {} /\ x.ask = session[s].ask
    BY Zenon, <1>0, <2>0 DEF OpenSession, OpenOK
  <2>2. session'[s] = x => OpenOK(s)'
    BY ZenonT(30), <2>1, FS_EmptySet DEF OpenOK
  <2>3. \A t \in Session : i \notin session[t].shared
    BY Zenon, <1>3 DEF ShareLocked
  <2>. HIDE DEF x, i
  <2>4. /\ x \in AnySession /\ x.shared \cap x.updating = {}
        /\ \A t \in Session : x.shared \cap session[t].updating = {}
                             /\ x.updating \cap session[t].shared = {}
    BY <2>1, <2>3 DEF AnySession
  <2>5. lastId' >= lastId /\ begun' >= begun /\ s <= begun' /\ lastId' \in Nat /\ begun' \in Nat
    BY <1>0
  <2>. QED  BY Zenon, <1>0, <1>3, <2>1, <2>2, <2>4, <2>5, SessionStep
<1>. QED  BY <1>1, <1>2, <1>3

\* The sources of a replay, locked FOR SHARE.
LEMMA KeepsShares ==
    ASSUME OperationsInv, NEW s \in Session, session[s].state = "open",
           session[s].stage \in {"select", "lock"}, session[s].ask.op \in {"replay", "batch"},
           NEW sources, SharesSources(s, sources),
           \A i \in sources : /\ i \in DOMAIN outbox /\ outbox[i].status \in Terminal
                             /\ ~UpdateLocked(i),
           UNCHANGED <<outbox, control, auditLog, begun, lastId>>
    PROVE  OperationsInv'
<1>0. session[s] \in OpenSession /\ OpenOK(s) /\ ~Committed(s)
      /\ s \in Nat /\ s <= begun /\ begun \in Nat /\ lastId \in Nat
  BY OpenFacts
<1>. DEFINE x == [session[s] EXCEPT !.stage = "clone", !.shared = sources, !.todo = sources]
<1>1. session' = [session EXCEPT ![s] = x]
  BY Zenon DEF SharesSources
<1>2. x \in OpenSession /\ x.state = "open" /\ x.stage = "clone" /\ x.updating = {}
      /\ x.shared = sources /\ x.clones = {} /\ x.todo = sources /\ x.ask = session[s].ask
  <2>1. session[s].clones = {} /\ session[s].updating = {}
    BY <1>0 DEF OpenOK
  <2>2. sources \in SUBSET Nat
    BY DEF OperationsInv
  <2>. QED  BY Zenon, <1>0, <2>1, <2>2 DEF OpenSession
<1>3. session'[s] = x => OpenOK(s)'
  <2>. HIDE DEF x
  <2>. QED  BY Zenon, <1>1, <1>2, FS_EmptySet DEF OpenOK
<1>. HIDE DEF x
<1>4. /\ x \in AnySession /\ x.shared \cap x.updating = {}
      /\ \A t \in Session : x.shared \cap session[t].updating = {}
                           /\ x.updating \cap session[t].shared = {}
  BY <1>2 DEF AnySession, UpdateLocked
<1>5. lastId' >= lastId /\ begun' >= begun /\ s <= begun' /\ lastId' \in Nat /\ begun' \in Nat
  BY <1>0
<1>. QED  BY Zenon, <1>0, <1>1, <1>2, <1>3, <1>4, <1>5, SessionStep

\* A batch on its way through the rows of its snapshot.
Locking(s, todo, shared) ==
    [session[s] EXCEPT !.stage = "lock", !.todo = todo, !.shared = shared]

\* The rows a batch has locked so far, one more or not.
LEMMA KeepsLocking ==
    ASSUME OperationsInv, NEW s \in Session, session[s].state = "open",
           session[s].stage \in {"select", "lock"}, session[s].ask.op = "batch",
           NEW todo \in SUBSET Nat, NEW shared,
           session' = [session EXCEPT ![s] = Locking(s, todo, shared)],
           \A i \in shared : \/ i \in session[s].shared
                             \/ /\ i \in DOMAIN outbox /\ outbox[i].status \in Terminal
                                /\ ~UpdateLocked(i),
           UNCHANGED <<outbox, control, auditLog, begun, lastId>>
    PROVE  OperationsInv'
<1>0. session[s] \in OpenSession /\ OpenOK(s) /\ ~Committed(s)
      /\ s \in Nat /\ s <= begun /\ begun \in Nat /\ lastId \in Nat
  BY OpenFacts
<1>. DEFINE x == Locking(s, todo, shared)
<1>1. \A i \in shared : /\ i \in DOMAIN outbox /\ outbox[i].status \in Terminal
                        /\ \A t \in Session : i \notin session[t].updating
  BY Zenon, <1>0 DEF OpenOK, OperationsInv, UpdateLocked
<1>2. x \in OpenSession /\ x.state = "open" /\ x.stage = "lock" /\ x.updating = {}
      /\ x.shared = shared /\ x.clones = {} /\ x.ask = session[s].ask
  <2>1. session[s].clones = {} /\ session[s].updating = {}
    BY Zenon, <1>0 DEF OpenOK
  <2>2. shared \in SUBSET Nat
    BY <1>1 DEF OperationsInv
  <2>. QED  BY Zenon, <1>0, <2>1, <2>2 DEF OpenSession, Locking
<1>. HIDE DEF x
<1>3. session'[s] = x => OpenOK(s)'
  BY Zenon, <1>1, <1>2, FS_EmptySet DEF OpenOK
<1>4. /\ x \in AnySession /\ x.shared \cap x.updating = {}
      /\ \A t \in Session : x.shared \cap session[t].updating = {}
                           /\ x.updating \cap session[t].shared = {}
  BY <1>1, <1>2 DEF AnySession
<1>5. lastId' >= lastId /\ begun' >= begun /\ s <= begun' /\ lastId' \in Nat /\ begun' \in Nat
  BY <1>0
<1>6. session' = [session EXCEPT ![s] = x]
  BY DEF x
<1>. QED  BY ZenonT(30), <1>0, <1>2, <1>3, <1>4, <1>5, <1>6, SessionStep

LEMMA KeepsSelect ==
    ASSUME OperationsInv, NEW s \in Session, SelectRows(s)
    PROVE  OperationsInv'
<1>1. /\ session[s].state = "open" /\ session[s].stage = "select"
      /\ UNCHANGED <<outbox, control, auditLog, begun, lastId>>
  BY DEF SelectRows
<1>2. CASE SelectControl(s)
  BY <1>1, <1>2, KeepsSelectControl
<1>3. CASE SelectDead(s)
  BY Zenon, <1>1, <1>3, KeepsSelectDead
<1>4. CASE SelectSource(s)
  <2>. DEFINE i == session[s].ask.target
  <2>1. \/ \E code \in Refusal : AnswerAbort(s, code)
        \/ /\ SharesSources(s, {i}) /\ session[s].ask.op = "replay"
           /\ i \in DOMAIN outbox /\ outbox[i].status \in Terminal /\ ~UpdateLocked(i)
    BY Zenon, <1>4 DEF SelectSource, AnswerAbort, Refusal
  <2>. HIDE DEF i
  <2>. QED  BY Zenon, <1>1, <2>1, KeepsRefusal, KeepsShares
<1>5. CASE SelectBatch(s)
  <2>. DEFINE matching == {i \in DOMAIN outbox : outbox[i].status \in session[s].ask.statuses}
  <2>1. /\ session[s].ask.op = "batch" /\ session[s].shared = {}
        /\ session' = [session EXCEPT ![s] = Locking(s, matching, {})]
    <3>1. session[s] \in OpenSession /\ session[s].shared = {}
      BY Zenon, <1>1, OpenFacts DEF OpenOK
    <3>2. Locking(s, matching, {}) = [session[s] EXCEPT !.stage = "lock", !.todo = matching]
      BY Zenon, <3>1 DEF Locking, OpenSession
    <3>. QED  BY Zenon, <1>5, <3>1, <3>2 DEF SelectBatch
  <2>2. matching \in SUBSET Nat
    BY DEF OperationsInv
  <2>. HIDE DEF matching
  <2>. QED  BY Zenon, <1>1, <2>1, <2>2, KeepsLocking
<1>. QED  BY <1>2, <1>3, <1>4, <1>5 DEF SelectRows

LEMMA KeepsLockRows ==
    ASSUME OperationsInv, NEW s \in Session, LockRows(s)
    PROVE  OperationsInv'
<1>1. /\ session[s].state = "open" /\ session[s].stage = "lock"
      /\ UNCHANGED <<outbox, control, auditLog, begun, lastId>>
  BY Zenon DEF LockRows
<1>2. session[s] \in OpenSession /\ OpenOK(s)
  BY Zenon, <1>1, OpenFacts
<1>3. session[s].ask.op = "batch" /\ session[s].ask.statuses \subseteq Terminal
  BY Zenon, <1>1, <1>2 DEF OpenOK, OpenSession, Asks
<1>4. CASE LockSource(s)
  <2>. DEFINE locks(i) == IF outbox[i].status \in session[s].ask.statuses
                          THEN session[s].shared \cup {i} ELSE session[s].shared
  <2>1. PICK i \in Unvisited(s) :
           /\ ~UpdateLocked(i)
           /\ session' = [session EXCEPT ![s] = Locking(s, session[s].todo \ {i}, locks(i))]
    <3>1. PICK j \in Unvisited(s) :
             /\ ~UpdateLocked(j)
             /\ session' = [session EXCEPT ![s] = [session[s] EXCEPT !.todo = session[s].todo \ {j},
                                                                    !.shared = locks(j)]]
      BY ZenonT(30), <1>4 DEF LockSource, Newest
    <3>2. Locking(s, session[s].todo \ {j}, locks(j)) =
             [session[s] EXCEPT !.todo = session[s].todo \ {j}, !.shared = locks(j)]
      <4>. HIDE DEF locks
      <4>. QED  BY Zenon, <1>1, <1>2 DEF Locking, OpenSession
    <3>. HIDE DEF locks
    <3>. QED  BY Zenon, <3>1, <3>2
  <2>2. session[s].todo \ {i} \in SUBSET Nat
    BY Zenon, <1>2 DEF OpenSession
  <2>3. \A j \in locks(i) : j \in session[s].shared
                           \/ (j \in DOMAIN outbox /\ outbox[j].status \in Terminal /\ ~UpdateLocked(j))
    BY Zenon, <1>3, <2>1 DEF Unvisited
  <2>. HIDE DEF locks
  <2>. QED  BY Zenon, <1>1, <1>3, <2>1, <2>2, <2>3, KeepsLocking
<1>5. CASE CountSources(s)
  <2>1. \/ \E code \in Refusal : AnswerAbort(s, code)
        \/ SharesSources(s, session[s].shared)
    BY Zenon, <1>5 DEF CountSources, AnswerAbort, Refusal
  <2>2. \A i \in session[s].shared : /\ i \in DOMAIN outbox /\ outbox[i].status \in Terminal
                                    /\ ~UpdateLocked(i)
    BY Zenon, <1>2 DEF OpenOK, OperationsInv, UpdateLocked
  <2>. QED  BY Zenon, <1>1, <1>3, <2>1, <2>2, KeepsRefusal, KeepsShares
<1>. QED  BY Zenon, <1>4, <1>5 DEF LockRows

LEMMA KeepsClone ==
    ASSUME OperationsInv, NEW s \in Session, CloneReplay(s)
    PROVE  OperationsInv'
<1>1. /\ session[s].state = "open" /\ session[s].stage = "clone"
      /\ UNCHANGED <<control, auditLog, begun>> /\ outbox' = outbox
  BY DEF CloneReplay, AfterRollback
<1>2. session[s] \in OpenSession /\ OpenOK(s) /\ ~Committed(s)
      /\ s \in Nat /\ s <= begun /\ begun \in Nat /\ lastId \in Nat
  BY <1>1, OpenFacts
<1>. DEFINE c(i) == [id |-> lastId + 1, from |-> i]
            x(i) == [session[s] EXCEPT !.todo = @ \ {i}, !.clones = @ \cup {c(i)}]
<1>3. PICK i \in session[s].todo :
         \/ AnswerAbort(s, "invalid_event_state") /\ UNCHANGED lastId
         \/ lastId' = lastId + 1 /\ session' = [session EXCEPT ![s] = x(i)]
  BY ZenonT(30) DEF CloneReplay, Newest
<1>4. CASE AnswerAbort(s, "invalid_event_state") /\ UNCHANGED lastId
  <2>1. \E code \in Refusal : AnswerAbort(s, code)
    BY <1>4 DEF Refusal, AnswerAbort
  <2>. QED  BY <1>1, <1>4, <2>1, KeepsRefusal
<1>5. CASE lastId' = lastId + 1 /\ session' = [session EXCEPT ![s] = x(i)]
  <2>1. i \in Nat /\ lastId + 1 \in Nat /\ c(i) \in Clone
    BY <1>2 DEF OpenSession, Clone
  <2>2. /\ x(i) \in OpenSession /\ x(i).state = "open" /\ x(i).stage = "clone"
        /\ x(i).ask = session[s].ask
        /\ x(i).updating = session[s].updating /\ x(i).shared = session[s].shared
        /\ x(i).todo = session[s].todo \ {i} /\ x(i).clones = session[s].clones \cup {c(i)}
    BY Zenon, <1>1, <1>2, <2>1 DEF OpenSession
  <2>3. lastId + 1 \notin 1 .. lastId /\ lastId + 1 \in 1 .. lastId + 1 /\ 1 .. lastId \subseteq 1 .. lastId + 1
    BY <1>2
  <2>4. IsFiniteSet(session[s].clones \cup {c(i)})
    BY Zenon, <1>2, FS_AddElement DEF OpenOK
  <2>5. \A d \in session[s].clones : d.id # c(i).id /\ d.from # c(i).from
    BY <1>2, <1>3, <2>3 DEF OpenOK
  <2>6. c(i).from \in session[s].shared /\ c(i).id \notin DOMAIN outbox
    BY ZenonT(30), <1>1, <1>2, <1>3, <2>3 DEF OpenOK, OperationsInv
  <2>7. session'[s] = x(i) => OpenOK(s)'
    <3>. SUFFICES ASSUME session'[s] = x(i) PROVE OpenOK(s)'
      OBVIOUS
    <3>1. c(i).from = i /\ c(i).id = lastId + 1
      OBVIOUS
    <3>. HIDE DEF x, c
    <3>2. session[s].ask.op \in {"replay", "batch"} /\ session[s].updating = {}
      BY Zenon, <1>1, <1>2 DEF OpenOK
    <3>3. \A d \in session'[s].clones :
            /\ d.from \in session'[s].shared /\ d.from \notin session'[s].todo
            /\ d.id \in 1 .. lastId' /\ d.id \notin DOMAIN outbox'
      <4>. TAKE d \in session'[s].clones
      <4>1. /\ session'[s].clones = session[s].clones \cup {c(i)}
            /\ session'[s].todo = session[s].todo \ {i} /\ session'[s].shared = session[s].shared
            /\ lastId' = lastId + 1 /\ DOMAIN outbox' = DOMAIN outbox
        BY Zenon, <1>1, <1>5, <2>2
      <4>2. CASE d = c(i)
        BY Zenon, <2>3, <2>6, <3>1, <4>1, <4>2
      <4>3. CASE d \in session[s].clones
        BY ZenonT(30), <1>1, <1>2, <2>3, <4>1, <4>3 DEF OpenOK
      <4>. QED  BY Zenon, <4>1, <4>2, <4>3
    <3>4. \A d, e \in session'[s].clones : d.id = e.id \/ d.from = e.from => d = e
      BY SMTT(30), <1>2, <2>2, <2>5 DEF OpenOK
    <3>5. /\ session'[s].todo \subseteq session'[s].shared /\ IsFiniteSet(session'[s].clones)
          /\ \A j \in session'[s].shared : j \in DOMAIN outbox' /\ outbox'[j].status \in Terminal
      BY Zenon, <1>1, <1>2, <2>2, <2>4 DEF OpenOK
    <3>. QED  BY <2>2, <3>2, <3>3, <3>4, <3>5 DEF OpenOK
  <2>8. ASSUME NEW t \in Session \ {s}, session[t].state = "open",
               NEW d \in x(i).clones, NEW e \in session[t].clones
        PROVE  d.id # e.id
    <3>1. e.id \in 1 .. lastId
      BY <2>8 DEF OperationsInv, OpenOK
    <3>2. CASE d = c(i)
      BY <2>3, <3>1, <3>2
    <3>3. CASE d \in session[s].clones
      BY <1>1, <2>8, <3>3 DEF OperationsInv
    <3>. QED  BY <2>2, <3>2, <3>3
  <2>9. /\ x(i) \in AnySession
        /\ \A t \in Session : x(i).shared \cap session[t].updating = {}
                             /\ x(i).updating \cap session[t].shared = {}
        /\ x(i).shared \cap x(i).updating = {}
    BY <2>2 DEF AnySession, OperationsInv
  <2>10. lastId' \in Nat /\ lastId' >= lastId /\ begun' \in Nat /\ begun' >= begun /\ s <= begun'
    BY <1>1, <1>2, <1>5
  <2>. HIDE DEF x, c
  <2>. QED  BY Zenon, <1>1, <1>2, <1>5, <2>2, <2>7, <2>8, <2>9, <2>10, SessionStep
<1>. QED  BY <1>3, <1>4, <1>5

\* Relays and cleanup change no row a replay has locked.
LEMMA RowsStep ==
    ASSUME OperationsInv, UNCHANGED <<auditLog, session, begun, lastId>>,
           DOMAIN outbox' \subseteq DOMAIN outbox, outbox' \in [DOMAIN outbox' -> Row],
           \A j \in DOMAIN outbox' : outbox'[j].batch = outbox[j].batch,
           \A t \in Session : \A j \in session[t].shared :
              j \in DOMAIN outbox' /\ outbox'[j].status \in Terminal
    PROVE  OperationsInv'
<1>1. ASSUME NEW t \in Session, session[t].state = "open" PROVE OpenOK(t)'
  <2>1. OpenOK(t)
    BY <1>1 DEF OperationsInv
  <2>. QED  BY <2>1 DEF OpenOK
<1>2. \A t \in Session : Committed(t)' <=> Committed(t)
  BY Zenon DEF Committed
<1>. QED  BY <1>1, <1>2 DEF OperationsInv

LEMMA SharedIsTerminal ==
    ASSUME OperationsInv, NEW t \in Session, NEW j \in session[t].shared
    PROVE  j \in DOMAIN outbox /\ outbox[j].status \in Terminal
<1>1. session[t].state = "open"
  BY SessionKinds DEF OperationsInv
<1>. QED  BY <1>1 DEF OperationsInv, OpenOK

LEMMA KeepsSettle ==
    ASSUME OperationsInv, NEW i \in DOMAIN outbox, NEW status \in Terminal, Settle(i, status)
    PROVE  OperationsInv'
<1>1. /\ outbox' = [outbox EXCEPT ![i].status = status]
      /\ UNCHANGED <<auditLog, session, begun, lastId>>
  BY DEF Settle
<1>2. outbox \in [DOMAIN outbox -> Row]
  BY DEF OperationsInv
<1>3. /\ DOMAIN outbox' = DOMAIN outbox /\ outbox' \in [DOMAIN outbox -> Row]
      /\ \A j \in DOMAIN outbox : outbox'[j].batch = outbox[j].batch
      /\ \A j \in DOMAIN outbox : outbox[j].status \in Terminal => outbox'[j].status \in Terminal
  BY <1>1, <1>2 DEF Row
<1>. QED  BY <1>1, <1>3, SharedIsTerminal, RowsStep

LEMMA KeepsCleanup ==
    ASSUME OperationsInv, NEW i \in DOMAIN outbox, CleanupRow(i)
    PROVE  OperationsInv'
<1>1. /\ outbox' = [j \in DOMAIN outbox \ {i} |-> outbox[j]]
      /\ UNCHANGED <<auditLog, session, begun, lastId>>
      /\ \A t \in Session : i \notin session[t].shared
  BY DEF CleanupRow, ShareLocked
<1>2. outbox \in [DOMAIN outbox -> Row]
  BY DEF OperationsInv
<1>3. /\ DOMAIN outbox' = DOMAIN outbox \ {i} /\ outbox' \in [DOMAIN outbox' -> Row]
      /\ \A j \in DOMAIN outbox' : outbox'[j] = outbox[j]
  BY <1>1, <1>2
<1>. QED  BY Zenon, <1>1, <1>3, SharedIsTerminal, RowsStep

\* The rows a transaction leaves: its clones are new, and it changes no other
\* row but the one it retries.
LEMMA WrittenRows ==
    ASSUME OperationsInv, NEW s \in Session, session[s].state = "open"
    PROVE  /\ DOMAIN Written(s) = DOMAIN outbox \cup {c.id : c \in session[s].clones}
           /\ Written(s) \in [DOMAIN Written(s) -> Row]
           /\ \A c \in session[s].clones :
                /\ c.id \notin DOMAIN outbox
                /\ Written(s)[c.id].batch = s /\ Written(s)[c.id].from = c.from
                /\ Written(s)[c.id].created = s
           /\ \A i \in DOMAIN outbox :
                /\ Written(s)[i].batch = outbox[i].batch
                /\ Written(s)[i].from = outbox[i].from
                /\ Written(s)[i].created = outbox[i].created
                /\ \/ Written(s)[i] = outbox[i]
                   \/ session[s].ask.op = "retry" /\ i = session[s].ask.target
<1>1. session[s] \in OpenSession /\ OpenOK(s) /\ s \in Nat
  BY OpenFacts
<1>. DEFINE me == session[s]
            w == Written(s)
            of(i) == CHOOSE c \in me.clones : c.id = i
            fresh(i) == [status |-> "pending", created |-> s, batch |-> s,
                         ordered |-> FALSE, from |-> of(i).from]
<1>2. w = [i \in DOMAIN outbox \cup {c.id : c \in me.clones} |->
             IF i \notin DOMAIN outbox THEN fresh(i)
             ELSE IF me.ask.op = "retry" /\ i = me.ask.target
                  THEN [outbox[i] EXCEPT !.status = "pending"] ELSE outbox[i]]
  BY DEF Written
<1>3. \A c \in me.clones : c.id \notin DOMAIN outbox /\ of(c.id) = c /\ c.from \in Nat
  <2>. SUFFICES ASSUME NEW c \in me.clones
                PROVE  c.id \notin DOMAIN outbox /\ of(c.id) = c /\ c.from \in Nat
    OBVIOUS
  <2>1. c.id \notin DOMAIN outbox /\ c.from \in Nat /\ \A d \in me.clones : d.id = c.id => d = c
    BY Zenon, <1>1 DEF OpenOK, OpenSession, Clone
  <2>. QED  BY <2>1
<1>. HIDE DEF of
<1>4. \A c \in me.clones : /\ fresh(c.id) \in Row /\ fresh(c.id).batch = s
                            /\ fresh(c.id).from = c.from /\ fresh(c.id).created = s
  BY <1>1, <1>3 DEF Row
<1>. HIDE DEF fresh
<1>5. \A i \in DOMAIN outbox :
         /\ outbox[i] \in Row /\ [outbox[i] EXCEPT !.status = "pending"] \in Row
         /\ [outbox[i] EXCEPT !.status = "pending"].batch = outbox[i].batch
         /\ [outbox[i] EXCEPT !.status = "pending"].from = outbox[i].from
         /\ [outbox[i] EXCEPT !.status = "pending"].created = outbox[i].created
  BY DEF OperationsInv, Row
<1>6. DOMAIN w = DOMAIN outbox \cup {c.id : c \in me.clones}
  BY <1>2
<1>7. \A c \in me.clones : w[c.id] = fresh(c.id)
  BY <1>2, <1>3
<1>8. \A i \in DOMAIN outbox :
         \/ w[i] = outbox[i]
         \/ /\ me.ask.op = "retry" /\ i = me.ask.target
            /\ w[i] = [outbox[i] EXCEPT !.status = "pending"]
  BY <1>2
<1>9. w = [i \in DOMAIN w |-> w[i]]
  BY <1>2
<1>. HIDE DEF w, me
<1>10. ASSUME NEW i \in DOMAIN w PROVE w[i] \in Row
  <2>1. CASE i \in DOMAIN outbox
    BY Zenon, <1>5, <1>8, <2>1
  <2>2. CASE i \notin DOMAIN outbox
    <3>1. PICK c \in me.clones : i = c.id
      BY <1>6, <2>2
    <3>. QED  BY <1>4, <1>7, <3>1
  <2>. QED  BY <2>1, <2>2
<1>11. w \in [DOMAIN w -> Row]
  BY Zenon, <1>9, <1>10
<1>. QED  BY ZenonT(30), <1>3, <1>4, <1>5, <1>6, <1>7, <1>8, <1>11 DEF w, me

LEMMA KeepsCommit ==
    ASSUME OperationsInv, NEW s \in Session, NEW code \in {"ok", "internal"}, Commit(s, code)
    PROVE  OperationsInv'
<1>. DEFINE me == session[s]
            n == Cardinality(me.clones)
            x == Answered(code, n)
            a == [request |-> s, action |-> me.ask.op, count |-> n]
<1>1. /\ me.state = "open" /\ me.stage \in {"write", "clone"}
      /\ outbox' = Written(s) /\ auditLog' = auditLog \cup {a}
      /\ session' = [session EXCEPT ![s] = x] /\ UNCHANGED <<begun, lastId>>
  BY DEF Commit
<1>2. me \in OpenSession /\ OpenOK(s) /\ ~Committed(s)
      /\ s \in Nat /\ s <= begun /\ begun \in Nat /\ lastId \in Nat
  BY Zenon, <1>1, OpenFacts
<1>3. n \in Nat
  BY Zenon, <1>2, FS_CardinalityType DEF OpenOK
<1>4. /\ x \in AnySession /\ x.state = "answered" /\ x.code = code /\ x.created = n
      /\ x.shared = {} /\ x.updating = {}
  BY Zenon, <1>3 DEF Answered, AnySession, AnsweredSession, Code
<1>5. /\ session'[s] = x /\ \A t \in Session \ {s} : session'[t] = session[t]
      /\ session' \in [Session -> AnySession]
  BY Zenon, <1>1, <1>4 DEF OperationsInv
<1>6. Committed(s)' /\ \A t \in Session : Committed(t) => Committed(t)'
  BY Zenon, <1>2, <1>4, <1>5 DEF Committed
<1>7. /\ DOMAIN outbox' = DOMAIN outbox \cup {c.id : c \in me.clones}
      /\ outbox' \in [DOMAIN outbox' -> Row]
      /\ \A c \in me.clones : c.id \notin DOMAIN outbox /\ outbox'[c.id].batch = s
      /\ \A i \in DOMAIN outbox : outbox'[i].batch = outbox[i].batch
      /\ \A i \in DOMAIN outbox : outbox'[i] = outbox[i] \/ (me.ask.op = "retry" /\ i = me.ask.target)
  BY Zenon, <1>1, WrittenRows
<1>8. DOMAIN outbox' \subseteq 1 .. lastId'
  BY <1>1, <1>2, <1>7 DEF OperationsInv, OpenOK
<1>. HIDE DEF x, n, a
<1>9. ASSUME NEW t \in Session, session'[t].state = "open" PROVE OpenOK(t)'
  <2>1. t # s /\ session'[t] = session[t] /\ OpenOK(t)
    BY Zenon, <1>4, <1>5, <1>9 DEF OperationsInv
  <2>2. ASSUME NEW j \in session[t].shared PROVE j \in DOMAIN outbox' /\ outbox'[j].status \in Terminal
    <3>1. j \in DOMAIN outbox /\ outbox[j].status \in Terminal
      BY Zenon, <2>1, <2>2 DEF OpenOK
    <3>2. me.ask.op = "retry" => me.updating = {me.ask.target}
      BY Zenon, <1>1, <1>2 DEF OpenOK
    <3>3. ~(me.ask.op = "retry" /\ j = me.ask.target)
      BY ZenonT(30), <2>2, <3>2 DEF OperationsInv
    <3>. QED  BY Zenon, <1>7, <3>1, <3>3
  <2>3. \A d \in session[t].clones : d.id \notin DOMAIN outbox'
    BY <1>1, <1>7, <1>9, <2>1 DEF OperationsInv, OpenOK
  <2>. HIDE DEF me
  <2>. QED  BY Zenon, <1>1, <2>1, <2>2, <2>3 DEF OpenOK
<1>10. \A t, u \in Session : session'[t].shared \cap session'[u].updating = {}
  BY <1>4, <1>5 DEF OperationsInv
<1>11. \A t, u \in Session :
          t # u /\ session'[t].state = "open" /\ session'[u].state = "open" =>
             \A c \in session'[t].clones, d \in session'[u].clones : c.id # d.id
  BY <1>4, <1>5 DEF OperationsInv
<1>12. \A t \in Session : \A b \in auditLog' : b.request = t => Committed(t)'
  <2>1. a.request = s
    BY Zenon DEF a
  <2>. QED  BY <1>1, <1>6, <2>1 DEF OperationsInv
<1>13. \A t \in Session : \A i \in DOMAIN outbox' : outbox'[i].batch = t => Committed(t)'
  BY <1>6, <1>7 DEF OperationsInv
<1>14. \A t \in Session : session'[t].state = "answered" /\ session'[t].code = "ok" =>
          \E b \in auditLog' : b.request = t /\ b.count = session'[t].created
  <2>1. a \in auditLog' /\ a.request = s /\ a.count = n
    BY <1>1 DEF a
  <2>. QED  BY <1>1, <1>4, <1>5, <2>1 DEF OperationsInv
<1>15. ASSUME NEW t \in Session, t > begun' PROVE session'[t] = IdleSession
  <2>1. t # s /\ t > begun
    BY <1>1, <1>2, <1>15, SessionNumbers
  <2>. QED  BY <1>5, <2>1 DEF OperationsInv
<1>. QED  BY SMTT(30), <1>1, <1>2, <1>5, <1>7, <1>8, <1>9, <1>10, <1>11, <1>12, <1>13, <1>14, <1>15
          DEF OperationsInv

LEMMA OperationsStep == OperationsInv /\ [OperationsNext]_operationsVars => OperationsInv'
<1>. SUFFICES ASSUME OperationsInv, [OperationsNext]_operationsVars PROVE OperationsInv'
  OBVIOUS
<1>1. ASSUME NEW i \in DOMAIN outbox, NEW status \in Terminal, Settle(i, status)
      PROVE  OperationsInv'
  BY <1>1, KeepsSettle
<1>2. ASSUME NEW i \in DOMAIN outbox, CleanupRow(i) PROVE OperationsInv'
  BY <1>2, KeepsCleanup
<1>3. ASSUME NEW s \in Session, NEW r \in Requests, BeginRequest(s, r) PROVE OperationsInv'
  BY <1>3, KeepsBegin
<1>4. ASSUME NEW s \in Session, SelectRows(s) \/ LockRows(s) \/ CloneReplay(s)
      PROVE  OperationsInv'
  BY <1>4, KeepsSelect, KeepsLockRows, KeepsClone
<1>5. ASSUME NEW s \in Session, NEW code \in {"ok", "internal"}, Commit(s, code)
      PROVE  OperationsInv'
  BY <1>5, KeepsCommit
<1>6. ASSUME NEW s \in Session, TransactionFails(s) PROVE OperationsInv'
  <2>1. "internal" \in Code /\ "internal" # "ok"
    BY DEF Code
  <2>2. /\ session[s].state = "open" /\ AnswerAbort(s, "internal")
        /\ UNCHANGED <<outbox, auditLog, begun, lastId>>
    BY ZenonT(30), <1>6 DEF TransactionFails, AfterRollback
  <2>. QED  BY <2>1, <2>2, KeepsAbort
<1>7. CASE UNCHANGED operationsVars
  <2>1. UNCHANGED <<outbox, auditLog, session, begun, lastId>>
    BY <1>7 DEF operationsVars
  <2>. QED  BY <2>1, SharedIsTerminal, RowsStep DEF OperationsInv
<1>. QED  BY Zenon, <1>1, <1>2, <1>3, <1>4, <1>5, <1>6, <1>7 DEF OperationsNext, SessionProceeds
-----------------------------------------------------------------------------
\* Only the commit of a replay adds rows.
LEMMA AddedRows ==
    ASSUME OperationsInv, [OperationsNext]_operationsVars, DOMAIN outbox' \ DOMAIN outbox # {}
    PROVE  \E s \in Session, code \in {"ok", "internal"} :
              /\ Commit(s, code)
              /\ DOMAIN outbox' \ DOMAIN outbox = {c.id : c \in session[s].clones}
<1>1. ASSUME NEW i \in DOMAIN outbox, NEW status \in Terminal, Settle(i, status) PROVE FALSE
  BY <1>1 DEF Settle
<1>2. ASSUME NEW i \in DOMAIN outbox, CleanupRow(i) PROVE FALSE
  BY <1>2 DEF CleanupRow
<1>3. ASSUME NEW s \in Session, NEW r \in Requests, BeginRequest(s, r) PROVE FALSE
  BY <1>3 DEF BeginRequest
<1>4. ASSUME NEW s \in Session,
             SelectRows(s) \/ LockRows(s) \/ CloneReplay(s) \/ TransactionFails(s)
      PROVE  FALSE
  BY Zenon, <1>4 DEF SelectRows, LockRows, CloneReplay, TransactionFails, AfterRollback
<1>5. ASSUME UNCHANGED operationsVars PROVE FALSE
  BY Zenon, <1>5 DEF operationsVars
<1>6. PICK s \in Session, code \in {"ok", "internal"} : Commit(s, code)
  BY ZenonT(30), <1>1, <1>2, <1>3, <1>4, <1>5 DEF OperationsNext, SessionProceeds
<1>7. session[s].state = "open" /\ outbox' = Written(s)
  BY <1>6 DEF Commit
<1>8. /\ DOMAIN outbox' = DOMAIN outbox \cup {c.id : c \in session[s].clones}
      /\ \A c \in session[s].clones : c.id \notin DOMAIN outbox
  BY Zenon, <1>7, WrittenRows
<1>. QED  BY <1>6, <1>8

\* As many rows as clones: the ids are distinct.
LEMMA CloneCount ==
    ASSUME OperationsInv, NEW s \in Session, session[s].state = "open"
    PROVE  Cardinality({c.id : c \in session[s].clones}) = Cardinality(session[s].clones)
<1>. DEFINE clones == session[s].clones
            ids == {c.id : c \in clones}
            id == [c \in clones |-> c.id]
<1>1. IsFiniteSet(clones) /\ \A c, d \in clones : c.id = d.id => c = d
  BY Zenon, OpenFacts DEF OpenOK
<1>2. id \in Surjection(clones, ids) /\ id \in Injection(clones, ids)
  BY <1>1 DEF Surjection, Injection, IsInjective
<1>. HIDE DEF id, ids, clones
<1>3. Cardinality(ids) = Cardinality(clones)
  BY <1>1, <1>2, FS_Surjection
<1>. QED  BY Zenon, <1>3 DEF ids, clones

\* ReplayEvent and ReplayBatch: replayed rows become visible as one audited
\* batch with the right count, whatever fails and whoever else runs.
THEOREM ReplayWhole == OperationsSpec => ReplayIsWholeAndAudited
<1>. DEFINE added == DOMAIN outbox' \ DOMAIN outbox
            Whole == added # {} =>
                       \E a \in auditLog' \ auditLog :
                         /\ auditLog' = auditLog \cup {a}
                         /\ a.count = Cardinality(added)
                         /\ \A i \in added : outbox'[i].batch = a.request
                         /\ \A i, j \in added : outbox'[i].from = outbox'[j].from => i = j
<1>1. ASSUME OperationsInv, [OperationsNext]_operationsVars PROVE Whole
  <2>. SUFFICES ASSUME added # {}
                PROVE  \E a \in auditLog' \ auditLog :
                         /\ auditLog' = auditLog \cup {a}
                         /\ a.count = Cardinality(added)
                         /\ \A i \in added : outbox'[i].batch = a.request
                         /\ \A i, j \in added : outbox'[i].from = outbox'[j].from => i = j
    BY Zenon
  <2>1. PICK s \in Session, code \in {"ok", "internal"} :
             Commit(s, code) /\ added = {c.id : c \in session[s].clones}
    BY Zenon, <1>1, AddedRows
  <2>. DEFINE n == Cardinality(session[s].clones)
              a == [request |-> s, action |-> session[s].ask.op, count |-> n]
  <2>2. session[s].state = "open" /\ outbox' = Written(s) /\ auditLog' = auditLog \cup {a}
    BY Zenon, <2>1 DEF Commit
  <2>3. OpenOK(s) /\ ~Committed(s)
    BY Zenon, <1>1, <2>2, OpenFacts
  <2>4. a \notin auditLog
    <3>1. a.request = s
      OBVIOUS
    <3>. HIDE DEF a
    <3>. QED  BY Zenon, <1>1, <2>3, <3>1 DEF OperationsInv
  <2>5. n = Cardinality(added)
    BY <1>1, <2>1, <2>2, CloneCount
  <2>6. \A c \in session[s].clones : outbox'[c.id].batch = s /\ outbox'[c.id].from = c.from
    BY Zenon, <1>1, <2>2, WrittenRows
  <2>7. \A i \in added : outbox'[i].batch = s
    BY <2>1, <2>6
  <2>8. ASSUME NEW i \in added, NEW j \in added, outbox'[i].from = outbox'[j].from PROVE i = j
    <3>1. PICK c \in session[s].clones, d \in session[s].clones : i = c.id /\ j = d.id
      BY <2>1
    <3>2. c.from = d.from
      BY ZenonT(30), <2>6, <2>8, <3>1
    <3>. QED  BY Zenon, <2>3, <3>1, <3>2 DEF OpenOK
  <2>9. a.request = s /\ a.count = n
    OBVIOUS
  <2>10. a \in auditLog' \ auditLog
    <3>. HIDE DEF a
    <3>. QED  BY Zenon, <2>2, <2>4
  <2>. HIDE DEF a, n, added
  <2>. WITNESS a \in auditLog' \ auditLog
  <2>. QED  BY <2>2, <2>5, <2>7, <2>8, <2>9
<1>2. OperationsInv /\ [OperationsNext]_operationsVars => [Whole]_operationsVars
  BY Zenon, <1>1
<1>. QED  BY <1>2, OperationsStart, OperationsStep, PTL DEF OperationsSpec, ReplayIsWholeAndAudited

\* FOR SHARE: what is replayed is still stored, and still terminal, when its
\* clone becomes visible.
THEOREM SourcesOutlast == OperationsSpec => SourceOutlastsReplay
<1>. DEFINE Outlasts == \A i \in DOMAIN outbox' \ DOMAIN outbox :
                           LET source == outbox'[i].from
                           IN  source \in DOMAIN outbox /\ outbox[source].status \in Terminal
<1>1. ASSUME OperationsInv, [OperationsNext]_operationsVars PROVE Outlasts
  <2>. SUFFICES ASSUME NEW i \in DOMAIN outbox' \ DOMAIN outbox
                PROVE  outbox'[i].from \in DOMAIN outbox /\ outbox[outbox'[i].from].status \in Terminal
    OBVIOUS
  <2>1. PICK s \in Session, code \in {"ok", "internal"} :
             Commit(s, code) /\ DOMAIN outbox' \ DOMAIN outbox = {c.id : c \in session[s].clones}
    BY Zenon, <1>1, AddedRows
  <2>2. session[s].state = "open" /\ outbox' = Written(s)
    BY <2>1 DEF Commit
  <2>3. PICK c \in session[s].clones : i = c.id
    BY <2>1
  <2>4. outbox'[i].from = c.from
    BY ZenonT(30), <1>1, <2>2, <2>3, WrittenRows
  <2>5. c.from \in DOMAIN outbox /\ outbox[c.from].status \in Terminal
    BY <1>1, <2>2, OpenFacts DEF OpenOK
  <2>. QED  BY <2>4, <2>5
<1>2. OperationsInv /\ [OperationsNext]_operationsVars => [Outlasts]_operationsVars
  BY <1>1
<1>. QED  BY <1>2, OperationsStart, OperationsStep, PTL DEF OperationsSpec, SourceOutlastsReplay

\* Service and serviceError: a success is audited with the reported count, a
\* refusal has left nothing.
THEOREM AnswersAreTrue == OperationsSpec => []AnswerTellsTruth
<1>1. OperationsInv => AnswerTellsTruth
  BY ZenonT(30) DEF OperationsInv, AnswerTellsTruth, Committed
<1>. QED  BY <1>1, OperationsStart, OperationsStep, PTL DEF OperationsSpec

\* FOR UPDATE and FOR SHARE: however many requests there are and whichever rows
\* they share, their waits for row locks never form a circle, although a batch
\* replay waits with locks in hand (ReplayBatch, RetryDeadAudited). A request
\* that is waited for is past its first statement; if it waits, it is a batch
\* and waits for a row locked for update; who has that is past all waiting.
THEOREM WaitsNeverCircular == OperationsSpec => []NoCircularWait
<1>1. ASSUME OperationsInv PROVE NoCircularWait
  <2>. SUFFICES ASSUME NEW s \in Session, NEW t \in Session, NEW u \in Session, NEW v \in Session,
                       WaitsFor(s, t), WaitsFor(t, u), WaitsFor(u, v)
                PROVE  FALSE
    BY ZenonT(30) DEF NoCircularWait
  <2>1. /\ session[t].shared # {} \/ session[t].updating # {}
        /\ session[t].state = "open" /\ session[u].state = "open"
    BY DEF WaitsFor
  <2>2. OpenOK(t) /\ OpenOK(u)
    BY Zenon, <1>1, <2>1 DEF OperationsInv
  <2>3. session[t].stage = "lock"
    BY Zenon, <2>1, <2>2 DEF OpenOK, WaitsFor
  <2>4. session[u].updating # {}
    BY Zenon, <2>3 DEF WaitsFor
  <2>5. session[u].stage \notin {"select", "lock"}
    BY Zenon, <2>2, <2>4 DEF OpenOK
  <2>. QED  BY Zenon, <2>5 DEF WaitsFor
<1>. QED  BY <1>1, OperationsStart, OperationsStep, PTL DEF OperationsSpec
-----------------------------------------------------------------------------
\* What a request leaves is no newer than the latest request, and a replay
\* clones no more sources than its limit.
OperationsBounds ==
    /\ control \in BOOLEAN
    /\ \A i \in DOMAIN outbox : /\ outbox[i].created <= begun /\ outbox[i].batch <= begun
                                /\ outbox[i].from <= lastId
    /\ \A a \in auditLog : a.request \in 1 .. begun /\ a.count \in 0 .. ReplayLimit
    /\ \A s \in Session : session[s].state = "open" /\ session[s].stage # "lock" =>
          IsFiniteSet(session[s].shared) /\ Cardinality(session[s].shared) <= ReplayLimit

\* A step that commits nothing.
LEMMA BoundsKept ==
    ASSUME OperationsInv, OperationsBounds, UNCHANGED <<control, auditLog>>,
           DOMAIN outbox' \subseteq DOMAIN outbox,
           \A i \in DOMAIN outbox' : /\ outbox'[i].created = outbox[i].created
                                     /\ outbox'[i].batch = outbox[i].batch
                                     /\ outbox'[i].from = outbox[i].from,
           begun' \in Nat, begun' >= begun, lastId' \in Nat, lastId' >= lastId,
           \A s \in Session : session'[s].state = "open" /\ session'[s].stage # "lock" =>
              IsFiniteSet(session'[s].shared) /\ Cardinality(session'[s].shared) <= ReplayLimit
    PROVE  OperationsBounds'
<1>1. ASSUME NEW i \in DOMAIN outbox'
      PROVE  /\ outbox'[i].created <= begun' /\ outbox'[i].batch <= begun'
             /\ outbox'[i].from <= lastId'
  <2>1. /\ i \in DOMAIN outbox /\ begun \in Nat /\ lastId \in Nat
        /\ outbox[i].created \in Nat /\ outbox[i].batch \in Nat /\ outbox[i].from \in Nat
    BY Zenon DEF OperationsInv, Row
  <2>2. outbox[i].created <= begun /\ outbox[i].batch <= begun /\ outbox[i].from <= lastId
    BY <2>1 DEF OperationsBounds
  <2>. QED  BY <2>1, <2>2
<1>2. ASSUME NEW a \in auditLog PROVE a.request \in 1 .. begun' /\ a.count \in 0 .. ReplayLimit
  <2>1. a.request \in 1 .. begun /\ a.count \in 0 .. ReplayLimit /\ begun \in Nat
    BY DEF OperationsBounds, OperationsInv
  <2>. QED  BY <2>1
<1>. QED  BY Zenon, <1>1, <1>2 DEF OperationsBounds

\* ReplayEvent locks one source.
LEMMA SharesBounded ==
    ASSUME OperationsInv, OperationsBounds, NEW s \in Session, SelectRows(s)
    PROVE  session'[s].state = "open" /\ session'[s].stage # "lock" =>
              IsFiniteSet(session'[s].shared) /\ Cardinality(session'[s].shared) <= ReplayLimit
<1>1. /\ session[s].state = "open" /\ session[s] \in OpenSession
      /\ ReplayLimit \in Nat /\ ReplayLimit >= 1
      /\ IsFiniteSet(session[s].shared) /\ Cardinality(session[s].shared) <= ReplayLimit
      /\ session \in [Session -> AnySession]
  BY OpenFacts, OperationsConstants DEF SelectRows, OperationsBounds, OperationsInv
<1>2. ASSUME NEW code, AnswerAbort(s, code) PROVE session'[s].state # "open"
  BY <1>1, <1>2 DEF AnswerAbort, Answered
<1>3. ASSUME NEW sources, SharesSources(s, sources) PROVE session'[s].shared = sources
  BY <1>1, <1>3 DEF SharesSources, OpenSession
<1>4. CASE SelectControl(s)
  <2>1. session'[s].shared = session[s].shared
    BY Zenon, <1>1, <1>4 DEF SelectControl, OpenSession
  <2>. QED  BY <1>1, <2>1
<1>5. CASE SelectDead(s)
  <2>1. (\E code : AnswerAbort(s, code)) \/ session'[s].shared = session[s].shared
    BY <1>1, <1>5 DEF SelectDead, OpenSession
  <2>. QED  BY <1>1, <1>2, <2>1
<1>6. CASE SelectSource(s)
  <2>1. (\E code : AnswerAbort(s, code)) \/ (\E i : SharesSources(s, {i}))
    BY Zenon, <1>6 DEF SelectSource
  <2>2. ASSUME NEW i, SharesSources(s, {i})
        PROVE  IsFiniteSet(session'[s].shared) /\ Cardinality(session'[s].shared) <= ReplayLimit
    <3>1. session'[s].shared = {i} /\ IsFiniteSet({i}) /\ Cardinality({i}) = 1
      BY Zenon, <1>3, <2>2, FS_Singleton
    <3>. QED  BY <1>1, <3>1
  <2>. QED  BY Zenon, <1>2, <2>1, <2>2
<1>7. CASE SelectBatch(s)
  <2>1. session'[s].stage = "lock"
    BY Zenon, <1>1, <1>7 DEF SelectBatch, OpenSession
  <2>. QED  BY Zenon, <2>1
<1>. QED  BY ZenonT(30), <1>4, <1>5, <1>6, <1>7 DEF SelectRows

\* ReplayBatch goes on to clone only what is within the limit.
LEMMA BatchBounded ==
    ASSUME OperationsInv, NEW s \in Session, LockRows(s)
    PROVE  session'[s].state = "open" /\ session'[s].stage # "lock" =>
              IsFiniteSet(session'[s].shared) /\ Cardinality(session'[s].shared) <= ReplayLimit
<1>. DEFINE sources == session[s].shared
<1>1. /\ session[s].state = "open" /\ session[s].stage = "lock"
      /\ session[s] \in OpenSession /\ OpenOK(s)
      /\ ReplayLimit \in Nat /\ session \in [Session -> AnySession]
  BY Zenon, OpenFacts, OperationsConstants DEF LockRows, OperationsInv
<1>2. CASE LockSource(s)
  <2>1. session'[s].stage = "lock"
    BY Zenon, <1>1, <1>2 DEF LockSource, OpenSession
  <2>. QED  BY Zenon, <2>1
<1>3. CASE CountSources(s)
  <2>1. \/ session'[s].state = "answered"
        \/ session'[s].shared = sources /\ ~(Cardinality(sources) > ReplayLimit)
    <3>1. \A code : AnswerAbort(s, code) => session'[s].state = "answered"
      BY <1>1 DEF AnswerAbort, Answered
    <3>2. SharesSources(s, sources) => session'[s].shared = sources
      BY <1>1 DEF SharesSources, OpenSession
    <3>. QED  BY Zenon, <1>3, <3>1, <3>2 DEF CountSources, OverLimit
  <2>2. IsFiniteSet(sources)
    <3>1. sources \subseteq 1 .. lastId /\ lastId \in Nat
      BY <1>1 DEF OpenOK, OperationsInv
    <3>2. IsFiniteSet(1 .. lastId)
      BY <3>1, FS_Interval
    <3>. HIDE DEF sources
    <3>. QED  BY Zenon, <3>1, <3>2, FS_Subset
  <2>. HIDE DEF sources
  <2>3. Cardinality(sources) \in Nat
    BY <2>2, FS_CardinalityType
  <2>4. ~(Cardinality(sources) > ReplayLimit) => Cardinality(sources) <= ReplayLimit
    BY <1>1, <2>3
  <2>. QED  BY Zenon, <2>1, <2>2, <2>4
<1>. QED  BY Zenon, <1>2, <1>3 DEF LockRows

\* The clones of a replay are no more than its sources.
LEMMA ClonesBounded ==
    ASSUME OperationsInv, OperationsBounds, NEW s \in Session, session[s].state = "open"
    PROVE  Cardinality(session[s].clones) \in 0 .. ReplayLimit
<1>. DEFINE clones == session[s].clones
            shared == session[s].shared
            from == [c \in clones |-> c.from]
<1>1. /\ IsFiniteSet(clones) /\ \A c, d \in clones : c.from = d.from => c = d
      /\ \A c \in clones : c.from \in shared
  BY Zenon, OpenFacts DEF OpenOK
<1>2. ReplayLimit \in Nat
  BY OperationsConstants
<1>3. CASE session[s].stage = "lock"
  <2>1. clones = {}
    BY Zenon, <1>3, OpenFacts DEF OpenOK
  <2>2. Cardinality(clones) = 0
    BY Zenon, <2>1, FS_EmptySet
  <2>. QED  BY <1>2, <2>2
<1>4. CASE session[s].stage # "lock"
  <2>1. IsFiniteSet(shared) /\ Cardinality(shared) <= ReplayLimit
    BY Zenon, <1>4 DEF OperationsBounds
  <2>2. from \in Injection(clones, shared)
    BY <1>1 DEF Injection, IsInjective
  <2>. HIDE DEF from, shared, clones
  <2>3. Cardinality(clones) <= Cardinality(shared)
    BY <2>1, <2>2, FS_Injection
  <2>4. Cardinality(clones) \in Nat /\ Cardinality(shared) \in Nat
    BY <1>1, <2>1, FS_CardinalityType
  <2>. QED  BY <1>2, <2>1, <2>3, <2>4 DEF clones
<1>. QED  BY Zenon, <1>3, <1>4

LEMMA BoundsStart == OperationsInit => OperationsBounds
<1>. SUFFICES ASSUME OperationsInit PROVE OperationsBounds
  OBVIOUS
<1>1. lastId \in Nat /\ begun = 0
  BY OperationsConstants, FS_CardinalityType DEF OperationsInit
<1>2. \A i \in DOMAIN outbox : outbox[i].created = 0 /\ outbox[i].batch = 0 /\ outbox[i].from = 0
  BY DEF OperationsInit
<1>3. \A s \in Session : session[s].state # "open"
  BY DEF OperationsInit, IdleSession
<1>4. control \in BOOLEAN /\ auditLog = {}
  BY Zenon DEF OperationsInit
<1>. QED  BY <1>1, <1>2, <1>3, <1>4 DEF OperationsBounds

LEMMA CommitBounded ==
    ASSUME OperationsInv, OperationsBounds, NEW s \in Session,
           NEW code \in {"ok", "internal"}, Commit(s, code)
    PROVE  OperationsBounds'
<1>. DEFINE me == session[s]
            n == Cardinality(me.clones)
            x == Answered(code, n)
            a == [request |-> s, action |-> me.ask.op, count |-> n]
<1>1. /\ me.state = "open" /\ outbox' = Written(s) /\ auditLog' = auditLog \cup {a}
      /\ session' = [session EXCEPT ![s] = x] /\ UNCHANGED <<begun, lastId>>
  BY DEF Commit
<1>2. me \in OpenSession /\ OpenOK(s) /\ s \in Nat \ {0} /\ s <= begun
      /\ begun \in Nat /\ lastId \in Nat
  BY <1>1, OpenFacts, SessionNumbers
<1>3. control' \in BOOLEAN
  <2>1. me.ask.op = "pause" => me.ask.value \in BOOLEAN
    BY ZenonT(30), <1>2 DEF OpenSession, Asks
  <2>2. control' = IF me.ask.op = "pause" THEN me.ask.value ELSE control
    BY DEF Commit
  <2>3. control \in BOOLEAN
    BY Zenon DEF OperationsBounds
  <2>. HIDE DEF me
  <2>. QED  BY <2>1, <2>2, <2>3, Zenon
<1>4. ASSUME NEW b \in auditLog' PROVE b.request \in 1 .. begun' /\ b.count \in 0 .. ReplayLimit
  <2>1. a.request = s /\ a.count = n /\ n \in 0 .. ReplayLimit
    BY Zenon, <1>1, ClonesBounded
  <2>2. b \in auditLog \/ b = a
    BY <1>1, <1>4
  <2>. HIDE DEF a, n
  <2>. QED  BY <1>1, <1>2, <2>1, <2>2 DEF OperationsBounds
<1>5. ASSUME NEW i \in DOMAIN outbox'
      PROVE  /\ outbox'[i].created <= begun' /\ outbox'[i].batch <= begun'
             /\ outbox'[i].from <= lastId'
  <2>1. /\ DOMAIN outbox' = DOMAIN outbox \cup {c.id : c \in me.clones}
        /\ \A c \in me.clones : /\ outbox'[c.id].batch = s /\ outbox'[c.id].created = s
                                /\ outbox'[c.id].from = c.from
        /\ \A j \in DOMAIN outbox : /\ outbox'[j].batch = outbox[j].batch
                                    /\ outbox'[j].from = outbox[j].from
                                    /\ outbox'[j].created = outbox[j].created
    BY ZenonT(30), <1>1, WrittenRows
  <2>2. \A c \in me.clones : c.from \in Nat /\ c.from <= lastId
    <3>1. DOMAIN outbox \subseteq 1 .. lastId
      BY Zenon DEF OperationsInv
    <3>2. \A c \in me.clones : c.from \in DOMAIN outbox
      BY Zenon, <1>2 DEF OpenOK
    <3>. HIDE DEF me
    <3>. QED  BY <1>2, <3>1, <3>2
  <2>3. CASE i \in DOMAIN outbox
    BY Zenon, <1>1, <2>1, <2>3 DEF OperationsBounds
  <2>4. CASE i \notin DOMAIN outbox
    <3>1. PICK c \in me.clones : i = c.id
      BY ZenonT(30), <1>5, <2>1, <2>4
    <3>. HIDE DEF me
    <3>. QED  BY Zenon, <1>1, <1>2, <2>1, <2>2, <3>1
  <2>. QED  BY <2>3, <2>4
<1>6. ASSUME NEW t \in Session, session'[t].state = "open", session'[t].stage # "lock"
      PROVE  IsFiniteSet(session'[t].shared) /\ Cardinality(session'[t].shared) <= ReplayLimit
  <2>1. x.state = "answered"
    BY Zenon DEF Answered
  <2>. HIDE DEF x
  <2>2. session'[t] = session[t]
    BY Zenon, <1>1, <1>6, <2>1 DEF OperationsInv
  <2>. QED  BY <1>6, <2>2 DEF OperationsBounds
<1>. QED  BY ZenonT(30), <1>3, <1>4, <1>5, <1>6 DEF OperationsBounds

LEMMA BoundsStep ==
    OperationsInv /\ OperationsBounds /\ [OperationsNext]_operationsVars => OperationsBounds'
<1>. SUFFICES ASSUME OperationsInv, OperationsBounds, [OperationsNext]_operationsVars
              PROVE  OperationsBounds'
  OBVIOUS
<1>. DEFINE Locks(t) == session'[t].state = "open" /\ session'[t].stage # "lock" =>
                 IsFiniteSet(session'[t].shared) /\ Cardinality(session'[t].shared) <= ReplayLimit
<1>1. /\ begun \in Nat /\ lastId \in Nat /\ session \in [Session -> AnySession]
      /\ outbox \in [DOMAIN outbox -> Row]
  BY DEF OperationsInv
<1>2. ASSUME NEW t \in Session, session'[t] = session[t] PROVE Locks(t)
  BY <1>2 DEF OperationsBounds
<1>3. ASSUME NEW i \in DOMAIN outbox, NEW status \in Terminal, Settle(i, status)
      PROVE  OperationsBounds'
  <2>1. outbox' = [outbox EXCEPT ![i].status = status]
        /\ UNCHANGED <<control, auditLog, session, begun, lastId>>
    BY <1>3 DEF Settle
  <2>2. /\ DOMAIN outbox' = DOMAIN outbox
        /\ \A j \in DOMAIN outbox' : /\ outbox'[j].created = outbox[j].created
                                     /\ outbox'[j].batch = outbox[j].batch
                                     /\ outbox'[j].from = outbox[j].from
    BY Zenon, <1>1, <2>1 DEF Row
  <2>. QED  BY <1>1, <1>2, <2>1, <2>2, BoundsKept
<1>4. ASSUME NEW i \in DOMAIN outbox, CleanupRow(i) PROVE OperationsBounds'
  <2>1. outbox' = [j \in DOMAIN outbox \ {i} |-> outbox[j]]
        /\ UNCHANGED <<control, auditLog, session, begun, lastId>>
    BY <1>4 DEF CleanupRow
  <2>2. DOMAIN outbox' \subseteq DOMAIN outbox
        /\ \A j \in DOMAIN outbox' : outbox'[j] = outbox[j]
    BY <2>1
  <2>. QED  BY <1>1, <1>2, <2>1, <2>2, BoundsKept
<1>5. ASSUME NEW s \in Session, NEW r \in Requests, BeginRequest(s, r) PROVE OperationsBounds'
  <2>1. begun' = begun + 1 /\ UNCHANGED <<outbox, control, auditLog, lastId>>
    BY Zenon, <1>5 DEF BeginRequest
  <2>2. session'[s].shared = {} /\ \A t \in Session \ {s} : session'[t] = session[t]
    BY <1>1, <1>5 DEF BeginRequest
  <2>3. IsFiniteSet({}) /\ Cardinality({}) = 0 /\ ReplayLimit \in Nat
    BY FS_EmptySet, OperationsConstants
  <2>4. Cardinality({}) <= ReplayLimit
    BY <2>3
  <2>5. Locks(s)
    BY <2>2, <2>3, <2>4
  <2>6. \A t \in Session : Locks(t)
    BY Zenon, <1>2, <2>2, <2>5
  <2>. QED  BY <1>1, <2>1, <2>6, BoundsKept
<1>6. ASSUME NEW s \in Session, SelectRows(s) PROVE OperationsBounds'
  <2>1. UNCHANGED <<outbox, control, auditLog, begun, lastId>>
    BY <1>6 DEF SelectRows
  <2>2. \A t \in Session \ {s} : session'[t] = session[t]
    BY Zenon, <1>1, <1>6 DEF SelectRows, SelectControl, SelectDead, SelectSource, SelectBatch,
                      SharesSources, AnswerAbort
  <2>3. \A t \in Session : Locks(t)
    BY Zenon, <1>2, <1>6, <2>2, SharesBounded
  <2>. QED  BY <1>1, <2>1, <2>3, BoundsKept
<1>7. ASSUME NEW s \in Session, LockRows(s) PROVE OperationsBounds'
  <2>1. UNCHANGED <<outbox, control, auditLog, begun, lastId>>
    BY Zenon, <1>7 DEF LockRows
  <2>2. \A t \in Session \ {s} : session'[t] = session[t]
    BY Zenon, <1>1, <1>7 DEF LockRows, LockSource, CountSources, SharesSources, AnswerAbort
  <2>3. \A t \in Session : Locks(t)
    BY Zenon, <1>2, <1>7, <2>2, BatchBounded
  <2>. QED  BY <1>1, <2>1, <2>3, BoundsKept
<1>8. ASSUME NEW s \in Session, CloneReplay(s) PROVE OperationsBounds'
  <2>1. UNCHANGED <<outbox, control, auditLog, begun>> /\ lastId' \in {lastId, lastId + 1}
    BY <1>8 DEF CloneReplay, AfterRollback
  <2>2. session[s].state = "open" /\ session[s] \in OpenSession
    BY <1>8, OpenFacts DEF CloneReplay
  <2>3. /\ \A t \in Session \ {s} : session'[t] = session[t]
        /\ \/ session'[s].state = "answered"
           \/ /\ session[s].stage # "lock"
              /\ session'[s].shared = session[s].shared
    BY <1>1, <1>8, <2>2 DEF CloneReplay, AnswerAbort, Answered, OpenSession
  <2>4. Locks(s)
    BY Zenon, <2>2, <2>3 DEF OperationsBounds
  <2>5. \A t \in Session : Locks(t)
    BY Zenon, <1>2, <2>3, <2>4
  <2>. QED  BY <1>1, <2>1, <2>5, BoundsKept
<1>9. ASSUME NEW s \in Session, TransactionFails(s) PROVE OperationsBounds'
  <2>1. UNCHANGED <<outbox, control, auditLog, begun, lastId>>
    BY <1>9 DEF TransactionFails, AfterRollback
  <2>2. session'[s].state = "answered" /\ \A t \in Session \ {s} : session'[t] = session[t]
    BY Zenon, <1>1, <1>9 DEF TransactionFails, AnswerAbort, Answered
  <2>3. \A t \in Session : Locks(t)
    BY <1>2, <2>2
  <2>. QED  BY <1>1, <2>1, <2>3, BoundsKept
<1>10. CASE UNCHANGED operationsVars
  BY <1>1, <1>2, <1>10, BoundsKept DEF operationsVars
<1>. QED  BY Zenon, <1>3, <1>4, <1>5, <1>6, <1>8, <1>9, <1>10, <1>7, CommitBounded
          DEF OperationsNext, SessionProceeds

\* Every row and every audit record stays within the types of its columns; an
\* audited replay never created more rows than its limit, whichever sources
\* were locked and whichever clones were written (ReplayEvent, ReplayBatch).
THEOREM OperationsTypesCorrect == OperationsSpec => []OperationsTypeOK
<1>1. OperationsInv /\ OperationsBounds => OperationsTypeOK
  <2>. SUFFICES ASSUME OperationsInv, OperationsBounds PROVE OperationsTypeOK
    OBVIOUS
  <2>1. ASSUME NEW s \in Session PROVE session[s].state \in {"idle", "open", "answered"}
    BY DEF OperationsInv, AnySession, IdleSession, AnsweredSession, OpenSession
  <2>2. ASSUME NEW i \in DOMAIN outbox
        PROVE  /\ outbox[i].status \in {"pending"} \cup Terminal
               /\ outbox[i].created \in 0 .. begun /\ outbox[i].batch \in 0 .. begun
               /\ outbox[i].from \in 0 .. lastId /\ outbox[i].ordered \in BOOLEAN
    BY DEF OperationsInv, OperationsBounds, Row
  <2>. QED  BY <2>1, <2>2 DEF OperationsInv, OperationsBounds, OperationsTypeOK
<1>. QED  BY <1>1, OperationsStart, OperationsStep, BoundsStart, BoundsStep, PTL DEF OperationsSpec
=============================================================================
