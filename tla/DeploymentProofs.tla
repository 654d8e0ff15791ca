-------------------------- MODULE DeploymentProofs --------------------------
(***************************************************************************)
(* Whatever the revisions and however many commands run, die and race: the *)
(* stamp claims nothing that is missing except what a refused downgrade    *)
(* can drop, which is no table, and an upgrade that stopped half-way is    *)
(* never completed by another.  And whatever the requests do meanwhile,    *)
(* the database at the head serves the models (Deployment).                *)
(*                                                                         *)
(* Neither is inductive.  No statement is tied to its stamp by a           *)
(* transaction; what stands in for one is the first table of a revision.   *)
(* It can be created once, so at most one command is beyond it (OneInside), *)
(* and only that command can reach the end of the revision and move the    *)
(* stamp.  No command ever drops a table, because a downgrade meets an     *)
(* index that a foreign key needs before it meets a table (NotPastPinned). *)
(***************************************************************************)
EXTENDS Deployment, DomainRecordsProofs

\* A command beyond the first statement of its upgrade.
Inside(c) == Running(c, "up") /\ command[c].at > 1

\* Exists, or is what a refused downgrade drops.
Kept(object) == object \in missing => object \in Droppable

\* Where an upgrade under way can be, and what it has created.
UpgradePlaced(c) ==
    Running(c, "up") =>
        /\ command[c].revision \in Revisions /\ command[c].revision <= stamp + 1
        /\ command[c].at \in 1 .. Len(Upgrades[command[c].revision]) + 1
        /\ Inside(c) => command[c].revision = stamp + 1
        /\ \A i \in 1 .. command[c].at - 1 : Kept(Upgrades[command[c].revision][i])

\* A downgrade under way has dropped no index that a foreign key needs.
NotPastPinned(c) ==
    Running(c, "down") =>
        /\ command[c].revision \in Revisions
        /\ command[c].at >= 1
        /\ \A i \in 1 .. command[c].at - 1 : ~Pinned(Downgrades[command[c].revision][i])

\* The stamp claims nothing that is missing but what a refused downgrade drops.
StampedObjectsKept ==
    \A n \in 1 .. stamp : \A object \in ObjectsOf(n) : Kept(object)

\* At most one command is inside a revision.
OneInside == \A c, d \in Commands : Inside(c) /\ Inside(d) => c = d

SchemaInv ==
    /\ SchemaTypeOK /\ StampedObjectsKept /\ OneInside
    /\ \A c \in Commands : UpgradePlaced(c) /\ NotPastPinned(c)

-----------------------------------------------------------------------------

\* The revisions are numbered from 1 to the head.
LEMMA RevisionNumbers == HeadRevision \in Nat /\ Revisions = 1 .. HeadRevision
  BY UpgradesAssumption DEF HeadRevision, Revisions

\* An upgrade is a sequence of objects that begins with a table.
LEMMA UpgradeTyped ==
  ASSUME NEW n \in Revisions
  PROVE  /\ Upgrades[n] \in Seq(Objects)
         /\ Len(Upgrades[n]) \in Nat \ {0}
         /\ DOMAIN Upgrades[n] = 1 .. Len(Upgrades[n])
         /\ IsTable(Upgrades[n][1]) /\ Upgrades[n][1] \in ObjectsOf(n)
<1>1. Upgrades[n] \in Seq(Objects) /\ Upgrades[n] # <<>>
  BY UpgradesAssumption DEF Revisions
<1>2. Len(Upgrades[n]) \in Nat \ {0} /\ DOMAIN Upgrades[n] = 1 .. Len(Upgrades[n])
  BY <1>1
<1>3. IsTable(Upgrades[n][1])
  BY UpgradesAssumption
<1>4. 1 \in DOMAIN Upgrades[n]
  BY <1>2
<1>5. Upgrades[n][1] \in ObjectsOf(n)
  BY <1>4 DEF ObjectsOf
<1> QED
  BY <1>1, <1>2, <1>3, <1>5

\* What a refused downgrade drops is an object, and no table: the index it is
\* refused for comes before its first table.
LEMMA NoTableDroppable ==
  ASSUME NEW object \in Droppable
  PROVE  object \in Objects /\ ~IsTable(object)
<1>1. PICK n \in Revisions : \E i \in DOMAIN Downgrades[n] :
         object = Downgrades[n][i] /\ \A j \in 1 .. i : ~Pinned(Downgrades[n][j])
  BY DEF Droppable
<1>2. Downgrades[n] \in Seq(Objects)
  BY DowngradesAssumption
<1>3. PICK i \in DOMAIN Downgrades[n] :
         object = Downgrades[n][i] /\ \A j \in 1 .. i : ~Pinned(Downgrades[n][j])
  BY <1>1
<1>4. DOMAIN Downgrades[n] = 1 .. Len(Downgrades[n]) /\ Len(Downgrades[n]) \in Nat
  BY <1>2
<1>5. PICK p \in DOMAIN Downgrades[n] :
         Pinned(Downgrades[n][p]) /\ \A j \in 1 .. p : ~IsTable(Downgrades[n][j])
  BY DowngradesAssumption
<1>6. i \in 1 .. p
  <2>1. i < p
    BY <1>3, <1>4, <1>5
  <2> QED
    BY <2>1, <1>4
<1> QED
  BY <1>2, <1>3, <1>4, <1>5, <1>6

\* So a table that a statement created is there to stay.
LEMMA KeptTableExists ==
  ASSUME NEW object, IsTable(object), Kept(object)
  PROVE  Exists(object)
BY NoTableDroppable DEF Kept, Exists

\* A downgrade under way has a statement left, and it drops no table.
LEMMA DowngradeStuck ==
  ASSUME SchemaInv, NEW c \in Commands, Running(c, "down")
  PROVE  /\ Remaining(c)
         /\ Statement(c) \in Objects /\ ~IsTable(Statement(c))
         /\ ~Pinned(Statement(c)) => Statement(c) \in Droppable
<1> DEFINE n == command[c].revision
           drops == Downgrades[n]
<1>1. n \in Revisions /\ command[c].at \in Nat /\ command[c].at >= 1
  BY DEF SchemaInv, NotPastPinned, SchemaTypeOK
<1>2. drops \in Seq(Objects) /\ Script(c) = drops
  BY <1>1, DowngradesAssumption DEF Script, Running
<1>3. PICK p \in DOMAIN drops : Pinned(drops[p]) /\ \A i \in 1 .. p : ~IsTable(drops[i])
  BY <1>1, DowngradesAssumption
<1>4. DOMAIN drops = 1 .. Len(drops) /\ Len(drops) \in Nat /\ p \in Nat /\ p <= Len(drops)
  BY <1>2, <1>3
<1>5. command[c].at <= p
  BY <1>1, <1>3, <1>4 DEF SchemaInv, NotPastPinned
<1>6. Remaining(c) /\ Statement(c) = drops[command[c].at]
  BY <1>1, <1>2, <1>4, <1>5 DEF Remaining, Statement
<1>7. ASSUME ~Pinned(drops[command[c].at])
      PROVE  drops[command[c].at] \in Droppable
  <2>1. command[c].at \in DOMAIN drops
    BY <1>1, <1>4, <1>5
  <2>2. \A j \in 1 .. command[c].at : ~Pinned(drops[j])
    BY <1>1, <1>7 DEF SchemaInv, NotPastPinned
  <2> QED
    BY <1>1, <2>1, <2>2 DEF Droppable
<1> QED
  BY <1>1, <1>2, <1>3, <1>4, <1>5, <1>6, <1>7

\* An upgrade under way creates an object of its revision; if that is the first
\* one, the revision is the one after the stamp.
LEMMA CreatesInPlace ==
  ASSUME SchemaInv, NEW c \in Commands, Running(c, "up"), Remaining(c), ~CreateRefused(Statement(c))
  PROVE  /\ command[c].revision = stamp + 1
         /\ Statement(c) = Upgrades[stamp + 1][command[c].at]
         /\ Statement(c) \in missing
<1> DEFINE n == command[c].revision
<1>1. /\ n \in Revisions /\ n <= stamp + 1 /\ command[c].at \in 1 .. Len(Upgrades[n]) + 1
      /\ Inside(c) => n = stamp + 1
  BY DEF SchemaInv, UpgradePlaced
<1>2. n \in Nat /\ n >= 1 /\ stamp \in Nat
  BY <1>1, RevisionNumbers DEF SchemaInv, SchemaTypeOK
<1>3. Statement(c) = Upgrades[n][command[c].at] /\ Statement(c) \in missing
  BY DEF Script, Statement, Running, CreateRefused, Exists
<1>4. n = stamp + 1
  <2>1. CASE command[c].at > 1
    BY <2>1, <1>1 DEF Inside
  <2>2. CASE command[c].at = 1
    <3>1. IsTable(Statement(c)) /\ Statement(c) \in ObjectsOf(n)
      BY <2>2, <1>1, <1>3, UpgradeTyped
    <3>2. ~(n \in 1 .. stamp)
      BY <3>1, <1>3, KeptTableExists DEF SchemaInv, StampedObjectsKept, Exists
    <3> QED
      BY <3>2, <1>1, <1>2
  <2> QED
    BY <2>1, <2>2, <1>1, UpgradeTyped
<1> QED
  BY <1>3, <1>4

\* A command that completed a revision is the one inside it, and goes up.
LEMMA CompletesInPlace ==
  ASSUME SchemaInv, NEW c \in Commands, command[c].pc = "running", ~Remaining(c)
  PROVE  /\ Inside(c) /\ command[c].revision = stamp + 1 /\ From(c) = stamp /\ To(c) = stamp + 1
         /\ \A i \in DOMAIN Upgrades[stamp + 1] :
               Kept(Upgrades[stamp + 1][i])
<1> DEFINE n == command[c].revision
<1>1. Running(c, "up")
  BY DowngradeStuck DEF SchemaInv, SchemaTypeOK, Running
<1>2. /\ n \in Revisions /\ command[c].at \in 1 .. Len(Upgrades[n]) + 1
      /\ Inside(c) => n = stamp + 1
      /\ \A i \in 1 .. command[c].at - 1 : Kept(Upgrades[n][i])
  BY <1>1 DEF SchemaInv, UpgradePlaced
<1>3. Script(c) = Upgrades[n]
  BY <1>1 DEF Script, Running
<1>4. Len(Upgrades[n]) \in Nat \ {0} /\ DOMAIN Upgrades[n] = 1 .. Len(Upgrades[n])
  BY <1>2, UpgradeTyped
<1>5. command[c].at = Len(Upgrades[n]) + 1
  BY <1>2, <1>3, <1>4 DEF Remaining
<1>6. Inside(c)
  BY <1>1, <1>4, <1>5 DEF Inside
<1>7. n = stamp + 1 /\ stamp \in Nat
  BY <1>2, <1>6, RevisionNumbers DEF SchemaInv, SchemaTypeOK
<1> QED
  BY <1>1, <1>2, <1>4, <1>5, <1>6, <1>7 DEF From, To, Running

-----------------------------------------------------------------------------

\* The initial state satisfies the invariant.
LEMMA InitSchemaInv == SchemaInit => SchemaInv
  BY RevisionNumbers
  DEF SchemaInit, SchemaInv, SchemaTypeOK, StampedObjectsKept, OneInside, UpgradePlaced,
      NotPastPinned, Inside, Running, NewCommand

\* A command that ends, or that starts at its first statement, disturbs nothing.
LEMMA QuietStep ==
  ASSUME SchemaInv, NEW c \in Commands, UNCHANGED <<missing, stamp>>,
         NEW next, command' = [command EXCEPT ![c] = next],
         \/ next = EndedCommand
         \/ /\ next.pc = "running" /\ next.at = 1 /\ next.way \in {"up", "down"}
            /\ next.revision \in Revisions /\ next.revision <= stamp + 1
            /\ next = [pc |-> "running", way |-> next.way, revision |-> next.revision, at |-> 1]
  PROVE  SchemaInv'
<1>1. /\ SchemaTypeOK' /\ next.at \in Nat /\ next.at <= 1
      /\ command' \in [Commands -> [pc : {"new", "running", "ended"}, way : {"up", "down"},
                                    revision : 0 .. HeadRevision, at : Nat]]
  BY RevisionNumbers DEF SchemaInv, SchemaTypeOK, EndedCommand, NewCommand
<1>2. \A d \in Commands : command'[d] = IF d = c THEN next ELSE command[d]
  BY DEF SchemaInv, SchemaTypeOK
<1>3. StampedObjectsKept'
  BY DEF SchemaInv, StampedObjectsKept, Kept
<1>4. \A d \in Commands : Inside(d)' => Inside(d) /\ d # c
  BY <1>1, <1>2 DEF Inside, Running
<1>5. OneInside'
  BY <1>4 DEF SchemaInv, OneInside
<1>6. ASSUME NEW d \in Commands
      PROVE  UpgradePlaced(d)' /\ NotPastPinned(d)'
  <2>1. CASE d # c
    BY <1>2, <2>1 DEF SchemaInv, UpgradePlaced, NotPastPinned, Inside, Running, Kept
  <2>2. CASE d = c
    <3>1. CASE next = EndedCommand
      BY <1>2, <2>2, <3>1 DEF UpgradePlaced, NotPastPinned, Running, EndedCommand, NewCommand
    <3>2. CASE next.pc = "running"
      <4>1. next.revision \in Revisions /\ next.revision <= stamp + 1 /\ next.at = 1
        BY <3>2 DEF EndedCommand, NewCommand
      <4>2. 1 \in 1 .. Len(Upgrades[next.revision]) + 1
        BY <4>1, UpgradeTyped
      <4> QED
        BY <1>2, <2>2, <4>1, <4>2 DEF UpgradePlaced, NotPastPinned, Inside, Running, Kept
    <3> QED
      BY <3>1, <3>2
  <2> QED
    BY <2>1, <2>2
<1> QED
  BY <1>1, <1>3, <1>5, <1>6 DEF SchemaInv

\* Creating an object moves its command on within the revision after the stamp.
LEMMA CreateKeeps ==
  ASSUME SchemaInv, NEW c \in Commands, CreateNext(c)
  PROVE  SchemaInv'
<1> DEFINE n == stamp + 1
           made == Statement(c)
<1>1. /\ command[c].revision = n /\ made = Upgrades[n][command[c].at] /\ made \in missing
      /\ Running(c, "up") /\ Remaining(c)
  BY CreatesInPlace DEF CreateNext
<1>2. /\ n \in Revisions /\ command[c].at \in 1 .. Len(Upgrades[n]) /\ command[c].at \in Nat
      /\ Len(Upgrades[n]) \in Nat /\ stamp \in Nat
      /\ \A i \in 1 .. command[c].at - 1 : Kept(Upgrades[n][i])
  <2>1. /\ n \in Revisions /\ command[c].at \in 1 .. Len(Upgrades[n]) + 1
        /\ \A i \in 1 .. command[c].at - 1 : Kept(Upgrades[n][i])
    BY <1>1 DEF SchemaInv, UpgradePlaced
  <2>2. Script(c) = Upgrades[n]
    BY <1>1 DEF Script, Running
  <2> QED
    BY <1>1, <2>1, <2>2, UpgradeTyped DEF Remaining, SchemaInv, SchemaTypeOK
<1>3. /\ missing' = missing \ {made} /\ stamp' = stamp
      /\ command' = [command EXCEPT ![c].at = @ + 1]
  BY DEF CreateNext
<1>4. \A d \in Commands : command'[d] = IF d = c THEN [command[c] EXCEPT !.at = @ + 1] ELSE command[d]
  BY <1>3 DEF SchemaInv, SchemaTypeOK
<1>5. SchemaTypeOK'
  <2>1. command'[c] \in [pc : {"new", "running", "ended"}, way : {"up", "down"},
                         revision : 0 .. HeadRevision, at : Nat]
    <3>1. command[c] \in [pc : {"new", "running", "ended"}, way : {"up", "down"},
                          revision : 0 .. HeadRevision, at : Nat]
      BY DEF SchemaInv, SchemaTypeOK
    <3>2. command'[c] = [command[c] EXCEPT !.at = @ + 1]
      BY <1>4
    <3> QED
      BY <3>1, <3>2
  <2>2. missing' \subseteq Objects /\ stamp' \in 0 .. HeadRevision
    BY <1>3 DEF SchemaInv, SchemaTypeOK
  <2>3. command' = [command EXCEPT ![c] = command'[c]]
    BY <1>3 DEF SchemaInv, SchemaTypeOK
  <2> QED
    BY <2>1, <2>2, <2>3 DEF SchemaInv, SchemaTypeOK
<1>6. StampedObjectsKept'
  BY <1>3 DEF SchemaInv, StampedObjectsKept, Kept
<1>7. missing' \subseteq missing
  BY <1>3
<1>8. \A d \in Commands : d # c => ~Inside(d)
  <2>1. SUFFICES ASSUME NEW d \in Commands, d # c, Inside(d)
                 PROVE  FALSE
    OBVIOUS
  <2>2. /\ command[d].revision = n /\ command[d].at \in Nat /\ command[d].at > 1
        /\ \A i \in 1 .. command[d].at - 1 : Kept(Upgrades[n][i])
    BY <2>1 DEF SchemaInv, UpgradePlaced, Inside, SchemaTypeOK
  <2>3. Exists(Upgrades[n][1])
    BY <2>2, <1>2, UpgradeTyped, KeptTableExists
  <2>4. command[c].at # 1
    BY <2>3, <1>1 DEF Exists
  <2>5. Inside(c)
    BY <2>4, <1>1, <1>2 DEF Inside
  <2> QED
    BY <2>1, <2>5 DEF SchemaInv, OneInside
<1>9. OneInside'
  BY <1>4, <1>8 DEF OneInside, Inside, Running
<1>10. ASSUME NEW d \in Commands
       PROVE  UpgradePlaced(d)' /\ NotPastPinned(d)'
  <2>1. CASE d # c
    <3>1. command'[d] = command[d]
      BY <1>4, <2>1
    <3> QED
      BY <3>1, <1>3, <1>7 DEF SchemaInv, UpgradePlaced, NotPastPinned, Inside, Running, Kept
  <2>2. CASE d = c
    <3>1. /\ command'[c].pc = "running" /\ command'[c].way = "up"
          /\ command'[c].revision = n /\ command'[c].at = command[c].at + 1
      BY <1>1, <1>4 DEF Running, SchemaInv, SchemaTypeOK
    <3>2. made \notin missing'
      BY <1>3
    <3>3. \A i \in 1 .. command'[c].at - 1 : Upgrades[n][i] \in missing' => Upgrades[n][i] \in Droppable
      <4> SUFFICES ASSUME NEW i \in 1 .. command[c].at, Upgrades[n][i] \in missing'
                   PROVE  Upgrades[n][i] \in Droppable
        BY <3>1, <1>2
      <4>1. i # command[c].at
        BY <3>2, <1>1
      <4>2. i \in 1 .. command[c].at - 1
        BY <4>1, <1>2
      <4> QED
        BY <4>2, <1>2, <1>7 DEF Kept
    <3>4. command'[c].at \in 1 .. Len(Upgrades[n]) + 1
      BY <1>2, <3>1
    <3>5. stamp' + 1 = n
      BY <1>3
    <3> QED
      BY <2>2, <3>1, <3>3, <3>4, <3>5, <1>2 DEF UpgradePlaced, NotPastPinned, Running, Inside, Kept
  <2> QED
    BY <2>1, <2>2
<1> QED
  BY <1>5, <1>6, <1>9, <1>10 DEF SchemaInv

\* Dropping an object takes no table and no pinned index.
LEMMA DropKeeps ==
  ASSUME SchemaInv, NEW c \in Commands, DropNext(c)
  PROVE  SchemaInv'
<1> DEFINE dropped == Statement(c)
<1>1. /\ Running(c, "down") /\ dropped \in Objects /\ dropped \in Droppable
      /\ ~Pinned(dropped) /\ dropped = Downgrades[command[c].revision][command[c].at]
  BY DowngradeStuck DEF DropNext, DropRefused, Statement, Script, Running
<1>2. /\ missing' = missing \cup {dropped} /\ stamp' = stamp
      /\ command' = [command EXCEPT ![c].at = @ + 1]
  BY DEF DropNext
<1>3. \A d \in Commands : command'[d] = IF d = c THEN [command[c] EXCEPT !.at = @ + 1] ELSE command[d]
  BY <1>2 DEF SchemaInv, SchemaTypeOK
<1>4. SchemaTypeOK'
  BY <1>1, <1>2 DEF SchemaInv, SchemaTypeOK
<1>5. \A object : Kept(object) => (object \in missing' => object \in Droppable)
  BY <1>1, <1>2 DEF Kept
<1>6. StampedObjectsKept'
  BY <1>2, <1>5 DEF SchemaInv, StampedObjectsKept, Kept
<1>7. \A d \in Commands : Running(d, "up")' => Running(d, "up") /\ command'[d] = command[d]
  BY <1>1, <1>3 DEF Running, SchemaInv, SchemaTypeOK
<1>8. OneInside'
  BY <1>7 DEF SchemaInv, OneInside, Inside
<1>9. ASSUME NEW d \in Commands
      PROVE  UpgradePlaced(d)' /\ NotPastPinned(d)'
  <2>1. UpgradePlaced(d)'
    BY <1>2, <1>5, <1>7 DEF SchemaInv, UpgradePlaced, Inside, Kept
  <2>2. CASE d # c
    BY <1>3, <2>1, <2>2 DEF SchemaInv, NotPastPinned, Running
  <2>3. CASE d = c
    <3>1. /\ command[c].at \in Nat /\ command[c].at >= 1 /\ command[c].revision \in Revisions
          /\ \A i \in 1 .. command[c].at - 1 : ~Pinned(Downgrades[command[c].revision][i])
      BY <1>1 DEF SchemaInv, NotPastPinned, SchemaTypeOK
    <3>2. command'[c].at = command[c].at + 1 /\ command'[c].revision = command[c].revision
      BY <1>3, <3>1 DEF SchemaInv, SchemaTypeOK
    <3>3. \A i \in 1 .. command'[c].at - 1 : ~Pinned(Downgrades[command[c].revision][i])
      BY <3>1, <3>2, <1>1
    <3> QED
      BY <2>1, <2>3, <3>1, <3>2, <3>3 DEF NotPastPinned
  <2> QED
    BY <2>1, <2>2, <2>3
<1> QED
  BY <1>4, <1>6, <1>8, <1>9 DEF SchemaInv

\* The stamp moves to a revision whose tables all exist, and nobody is inside the
\* next one.
LEMMA MoveKeeps ==
  ASSUME SchemaInv, NEW c \in Commands, MoveStamp(c)
  PROVE  SchemaInv'
<1> DEFINE n == stamp + 1
<1>1. /\ Inside(c) /\ Running(c, "up") /\ command[c].revision = n /\ From(c) = stamp /\ To(c) = n
      /\ \A i \in DOMAIN Upgrades[n] : Kept(Upgrades[n][i])
  BY CompletesInPlace DEF MoveStamp, Inside
<1>2. n \in Revisions /\ stamp \in Nat /\ n <= HeadRevision /\ HeadRevision \in Nat
  BY <1>1, RevisionNumbers DEF SchemaInv, UpgradePlaced, SchemaTypeOK
<1>3. stamp' = n /\ missing' = missing
  BY <1>1 DEF MoveStamp
<1>4. \A d \in Commands : d # c => ~Inside(d) /\ command'[d] = command[d]
  BY <1>1 DEF SchemaInv, OneInside, MoveStamp, Ended, SchemaTypeOK
<1>5. \/ command'[c] = EndedCommand
      \/ /\ n < HeadRevision /\ command'[c] = [pc |-> "running", way |-> "up", revision |-> n + 1, at |-> 1]
  <2>1. CASE n < HeadRevision
    <3>1. command' = [command EXCEPT ![c].revision = @ + 1, ![c].at = 1]
      BY <1>1, <2>1 DEF MoveStamp, Running
    <3> QED
      BY <3>1, <2>1, <1>1 DEF SchemaInv, SchemaTypeOK, Running
  <2>2. CASE ~(n < HeadRevision)
    BY <1>1, <2>2 DEF MoveStamp, Ended, SchemaInv, SchemaTypeOK
  <2> QED
    BY <2>1, <2>2
<1>6. SchemaTypeOK'
  <2>1. command'[c] \in [pc : {"new", "running", "ended"}, way : {"up", "down"},
                         revision : 0 .. HeadRevision, at : Nat]
    BY <1>2, <1>5 DEF EndedCommand, NewCommand
  <2>2. command' = [command EXCEPT ![c] = command'[c]]
    BY <1>4 DEF MoveStamp, Ended, SchemaInv, SchemaTypeOK
  <2> QED
    BY <1>2, <1>3, <2>1, <2>2 DEF SchemaInv, SchemaTypeOK
<1>7. StampedObjectsKept'
  <2> SUFFICES ASSUME NEW m \in 1 .. n, NEW object \in ObjectsOf(m), object \in missing
               PROVE  object \in Droppable
    BY <1>3 DEF StampedObjectsKept, Kept
  <2>1. CASE m = n
    BY <1>1, <2>1 DEF ObjectsOf, Kept
  <2>2. CASE m # n
    BY <1>2, <2>2 DEF SchemaInv, StampedObjectsKept, Kept
  <2> QED
    BY <2>1, <2>2
<1>8. \A d \in Commands : ~Inside(d)'
  <2>1. ~Inside(c)'
    BY <1>5 DEF Inside, Running, EndedCommand, NewCommand
  <2> QED
    BY <1>4, <2>1 DEF Inside, Running
<1>9. ASSUME NEW d \in Commands
      PROVE  UpgradePlaced(d)' /\ NotPastPinned(d)'
  <2>1. CASE d # c
    <3>1. Running(d, "up") => command[d].revision \in Nat /\ command[d].revision <= stamp'+ 1
      BY <1>2, <1>3, RevisionNumbers DEF SchemaInv, UpgradePlaced
    <3> QED
      BY <1>3, <1>4, <1>8, <2>1, <3>1 DEF SchemaInv, UpgradePlaced, NotPastPinned, Running, Kept, Inside
  <2>2. CASE d = c
    <3>1. CASE command'[c] = EndedCommand
      BY <2>2, <3>1 DEF UpgradePlaced, NotPastPinned, Running, EndedCommand, NewCommand
    <3>2. CASE n < HeadRevision /\ command'[c] = [pc |-> "running", way |-> "up", revision |-> n + 1, at |-> 1]
      <4>1. n + 1 \in Revisions /\ n + 1 <= stamp' + 1
        BY <1>2, <1>3, <3>2, RevisionNumbers
      <4>2. 1 \in 1 .. Len(Upgrades[n + 1]) + 1
        BY <4>1, UpgradeTyped
      <4> QED
        BY <2>2, <3>2, <4>1, <4>2, <1>8 DEF UpgradePlaced, NotPastPinned, Running
    <3> QED
      BY <1>5, <3>1, <3>2
  <2> QED
    BY <2>1, <2>2
<1> QED
  BY <1>6, <1>7, <1>8, <1>9 DEF SchemaInv, OneInside

\* Every step keeps the invariant.
LEMMA StepSchemaInv == SchemaInv /\ [SchemaNext]_schemaVars => SchemaInv'
<1> SUFFICES ASSUME SchemaInv, [SchemaNext]_schemaVars
             PROVE  SchemaInv'
  OBVIOUS
<1>1. CASE UNCHANGED schemaVars
  BY <1>1 DEF schemaVars, SchemaInv, SchemaTypeOK, StampedObjectsKept, OneInside, UpgradePlaced,
              NotPastPinned, Inside, Running, Kept
<1>2. ASSUME NEW c \in Commands, Ended(c), UNCHANGED <<missing, stamp>>
      PROVE  SchemaInv'
  BY <1>2, QuietStep DEF Ended
<1>3. ASSUME NEW c \in Commands, StartUpgrade(c)
      PROVE  SchemaInv'
  <2>1. CASE stamp < HeadRevision
    <3>1. stamp + 1 \in Revisions
      BY <2>1, RevisionNumbers DEF SchemaInv, SchemaTypeOK
    <3>2. [pc |-> "running", way |-> "up", revision |-> stamp + 1, at |-> 1].revision <= stamp + 1
      BY DEF SchemaInv, SchemaTypeOK
    <3> QED
      BY <1>3, <2>1, <3>1, <3>2, QuietStep DEF StartUpgrade
  <2>2. CASE ~(stamp < HeadRevision)
    BY <1>2, <1>3, <2>2 DEF StartUpgrade
  <2> QED
    BY <2>1, <2>2
<1>4. ASSUME NEW c \in Commands, StartDowngrade(c)
      PROVE  SchemaInv'
  <2>1. stamp \in Revisions /\ stamp <= stamp + 1
    BY <1>4, RevisionNumbers DEF SchemaInv, SchemaTypeOK, StartDowngrade
  <2> QED
    BY <1>4, <2>1, QuietStep DEF StartDowngrade
<1>5. ASSUME NEW c \in Commands, SchemaStep(c)
      PROVE  SchemaInv'
  BY <1>2, <1>3, <1>4, <1>5, CreateKeeps, DropKeeps, MoveKeeps
  DEF SchemaStep, StatementRefused, CommandDies
<1> QED
  BY <1>1, <1>5 DEF SchemaNext

-----------------------------------------------------------------------------

\* The invariant holds throughout.
LEMMA SchemaInvariance == SchemaSpec => []SchemaInv
  BY InitSchemaInv, StepSchemaInv, PTL DEF SchemaSpec

\* The schema and the commands keep their types.
THEOREM SchemaTypeCorrect == SchemaSpec => []SchemaTypeOK
<1>1. SchemaInv => SchemaTypeOK
  BY DEF SchemaInv
<1> QED
  BY <1>1, SchemaInvariance, PTL

\* The stamp never claims a table that is missing.
THEOREM StampedTables == SchemaSpec => []StampedTablesExist
<1>1. SchemaInv => StampedTablesExist
  BY KeptTableExists DEF SchemaInv, StampedObjectsKept, StampedTablesExist, Exists
<1> QED
  BY <1>1, SchemaInvariance, PTL

\* While an upgrade is left half-way, no statement of an upgrade is carried out and
\* no stamp is moved.
LEMMA InterruptedStep == SchemaInv /\ [SchemaNext]_schemaVars => [Interrupted => stamp' = stamp /\ Interrupted']_schemaVars
<1> SUFFICES ASSUME SchemaInv, Interrupted, SchemaNext
             PROVE  stamp' = stamp /\ Interrupted'
  OBVIOUS
<1> DEFINE first == Upgrades[stamp + 1][1]
<1>1. /\ stamp \in Nat /\ stamp < HeadRevision /\ Exists(first)
      /\ \A d \in Commands : ~Inside(d)
  <2>1. \A d \in Commands : Inside(d) => command[d].revision = stamp + 1
    BY DEF SchemaInv, UpgradePlaced, Inside
  <2> QED
    BY <2>1 DEF SchemaInv, SchemaTypeOK, Interrupted, Inside
<1>2. stamp + 1 \in Revisions /\ IsTable(first)
  BY <1>1, RevisionNumbers, UpgradeTyped
<1>3. PICK c \in Commands : SchemaStep(c)
  BY DEF SchemaNext
<1>4. ~CreateNext(c)
  <2> SUFFICES ASSUME CreateNext(c)
               PROVE  FALSE
    OBVIOUS
  <2>1. /\ command[c].revision = stamp + 1 /\ Statement(c) = Upgrades[stamp + 1][command[c].at]
        /\ Statement(c) \in missing /\ Running(c, "up")
    BY CreatesInPlace DEF CreateNext
  <2>2. command[c].at = 1
    <3>1. command[c].at \in 1 .. Len(Upgrades[stamp + 1]) + 1
      BY <2>1 DEF SchemaInv, UpgradePlaced
    <3> QED
      BY <3>1, <2>1, <1>1 DEF Inside
  <2> QED
    BY <2>1, <2>2, <1>1 DEF Exists
<1>5. ~MoveStamp(c)
  BY <1>1, CompletesInPlace DEF MoveStamp
<1>6. /\ stamp' = stamp /\ Exists(first)'
      /\ \A d \in Commands : Running(d, "up")' /\ command'[d].at > 1 => Inside(d)
  <2>1. CASE DropNext(c)
    <3>1. missing' = missing \cup {Statement(c)} /\ ~IsTable(Statement(c)) /\ stamp' = stamp
      BY <2>1, DowngradeStuck DEF DropNext
    <3>2. \A d \in Commands : Running(d, "up")' => Running(d, "up") /\ command'[d] = command[d]
      BY <2>1 DEF DropNext, Running, SchemaInv, SchemaTypeOK
    <3> QED
      BY <3>1, <3>2, <1>1, <1>2 DEF Exists, Inside
  <2>2. CASE ~DropNext(c)
    <3>1. missing' = missing /\ stamp' = stamp
      BY <1>3, <1>4, <1>5, <2>2
      DEF SchemaStep, StartUpgrade, StartDowngrade, StatementRefused, CommandDies
    <3>2. \A d \in Commands : command'[d] = command[d] \/ command'[d].pc = "ended" \/ command'[d].at = 1
      BY <1>3, <1>4, <1>5, <2>2
      DEF SchemaStep, StartUpgrade, StartDowngrade, StatementRefused, CommandDies, Ended,
          EndedCommand, NewCommand, SchemaInv, SchemaTypeOK
    <3> QED
      BY <3>1, <3>2, <1>1 DEF Exists, Inside, Running
  <2> QED
    BY <2>1, <2>2
<1> QED
  BY <1>1, <1>6 DEF Interrupted, Inside, Running, Exists

\* An upgrade that stopped half-way is never completed by another one.
THEOREM InterruptedForGood == SchemaSpec => InterruptedUpgradeStays
  BY SchemaInvariance, InterruptedStep, PTL DEF SchemaSpec, InterruptedUpgradeStays

-----------------------------------------------------------------------------
(* The composition.  Neither side guards the other: a command looks at no  *)
(* row and a request at no object.  What holds them together is that the   *)
(* stamp, once at the head, stays there.                                   *)

\* Rows exist only in a database that is at the head.
ServedAtHead == Live # {} => stamp = HeadRevision

DeploymentInv == IInv /\ SchemaInv /\ ServedAtHead

\* No command moves the stamp of a database at the head: only a completed upgrade
\* could, and there is no revision after the head.
LEMMA HeadStays ==
  ASSUME SchemaInv, stamp = HeadRevision, SchemaNext
  PROVE  stamp' = stamp
<1>1. PICK c \in Commands : SchemaStep(c)
  BY DEF SchemaNext
<1>2. ~MoveStamp(c)
  <2> SUFFICES ASSUME MoveStamp(c)
               PROVE  FALSE
    OBVIOUS
  <2>1. Inside(c) /\ command[c].revision = stamp + 1
    BY CompletesInPlace DEF MoveStamp
  <2>2. stamp + 1 \in Revisions
    BY <2>1 DEF SchemaInv, UpgradePlaced, Inside
  <2> QED
    BY <2>2, RevisionNumbers
<1> QED
  BY <1>1, <1>2
  DEF SchemaStep, StartUpgrade, StartDowngrade, CreateNext, DropNext, StatementRefused, CommandDies

\* The requests of the deployment are requests of the records.
LEMMA ServeIsNext ==
  ASSUME Serve
  PROVE  Next /\ UNCHANGED schemaVars /\ stamp = HeadRevision
<1>1. SeedNext /\ UNCHANGED schemaVars /\ stamp = HeadRevision
  BY DEF Serve
<1>2. PICK c \in Clients : Reads(c) \/ Commits(c)
  BY <1>1 DEF SeedNext, Reads, Commits
<1> QED
  BY <1>1, <1>2 DEF Next

\* The invariant holds initially.
LEMMA InitDeploymentInv == DeploymentInit => DeploymentInv
<1>1. Init => Live = {}
  BY DEF Init, Live
<1> QED
  BY <1>1, InitInvariant, InitSchemaInv DEF DeploymentInit, DeploymentInv, ServedAtHead

\* Every step preserves the invariant, and is a step of the schema or leaves it.
LEMMA DeploymentStep ==
  ASSUME DeploymentInv, [DeploymentNext]_deploymentVars
  PROVE  DeploymentInv' /\ [SchemaNext]_schemaVars
<1>1. ASSUME Migrate
      PROVE  DeploymentInv' /\ SchemaNext
  <2>1. SchemaNext /\ UNCHANGED domainVars
    BY <1>1 DEF Migrate
  <2>2. IInv'
    BY <2>1, NextKeeps DEF DeploymentInv
  <2>3. SchemaInv'
    BY <2>1, StepSchemaInv DEF DeploymentInv
  <2>4. ServedAtHead'
    <3>1. Live' = Live
      BY <2>1 DEF domainVars, Live
    <3> QED
      BY <3>1, <2>1, HeadStays DEF DeploymentInv, ServedAtHead
  <2> QED
    BY <2>1, <2>2, <2>3, <2>4 DEF DeploymentInv
<1>2. ASSUME Serve
      PROVE  DeploymentInv' /\ UNCHANGED schemaVars
  <2>1. Next /\ UNCHANGED schemaVars /\ stamp = HeadRevision
    BY <1>2, ServeIsNext
  <2>2. IInv'
    BY <2>1, NextKeeps DEF DeploymentInv
  <2>3. SchemaInv'
    BY <2>1, StepSchemaInv DEF DeploymentInv
  <2>4. ServedAtHead'
    BY <2>1 DEF ServedAtHead, schemaVars
  <2> QED
    BY <2>1, <2>2, <2>3, <2>4 DEF DeploymentInv
<1>3. ASSUME UNCHANGED deploymentVars
      PROVE  DeploymentInv' /\ UNCHANGED schemaVars
  <2>1. UNCHANGED domainVars /\ UNCHANGED schemaVars
    BY <1>3 DEF deploymentVars
  <2>2. IInv'
    BY <2>1, NextKeeps DEF DeploymentInv
  <2>3. SchemaInv'
    BY <2>1, StepSchemaInv DEF DeploymentInv
  <2>4. ServedAtHead'
    BY <2>1 DEF DeploymentInv, ServedAtHead, schemaVars, domainVars, Live
  <2> QED
    BY <2>1, <2>2, <2>3, <2>4 DEF DeploymentInv
<1> QED
  BY <1>1, <1>2, <1>3 DEF DeploymentNext

\* The invariant holds throughout, however commands and requests interleave.
THEOREM DeploymentInvariance == DeploymentSpec => []DeploymentInv
<1>1. DeploymentInv /\ [DeploymentNext]_deploymentVars => DeploymentInv'
  BY DeploymentStep
<1> QED
  BY <1>1, InitDeploymentInv, PTL DEF DeploymentSpec

\* The records and the schema keep their types.
THEOREM DeploymentTypeCorrect == DeploymentSpec => []DeploymentTypeOK
<1>1. DeploymentInv => DeploymentTypeOK
  BY DEF DeploymentInv, IInv, SchemaInv, DeploymentTypeOK
<1> QED
  BY <1>1, DeploymentInvariance, PTL

\* What the invariant says of a database at the head: every object of the models was
\* created by a stamped revision, so what is missing is what a refused downgrade drops.
LEMMA HeadHasTheModels ==
  ASSUME DeploymentInv
  PROVE  HeadServesModels
<1>1. \A n \in 1 .. stamp : \A object \in ObjectsOf(n) : Kept(object)
  BY DEF DeploymentInv, SchemaInv, StampedObjectsKept
<1>2. StampedTablesExist
  BY <1>1, KeptTableExists DEF StampedTablesExist, Exists
<1>3. stamp = HeadRevision => missing \subseteq Droppable
  <2> SUFFICES ASSUME stamp = HeadRevision, NEW object \in missing
               PROVE  object \in Droppable
    OBVIOUS
  <2>1. PICK n \in Revisions : object \in ObjectsOf(n)
    BY DEF DeploymentInv, SchemaInv, SchemaTypeOK, Objects
  <2> QED
    BY <2>1, <1>1, RevisionNumbers DEF Kept
<1>4. ASSUME Live # {}, NEW table \in DOMAIN ModelIndexes
      PROVE  Exists(<<table>>)
  <2>1. <<table>> \in Objects /\ IsTable(<<table>>)
    BY ModelsAssumption DEF Metadata, IsTable
  <2>2. stamp = HeadRevision
    BY <1>4 DEF DeploymentInv, ServedAtHead
  <2> QED
    BY <2>1, <2>2, <1>3, NoTableDroppable DEF Exists
<1> QED
  BY <1>2, <1>3, <1>4, LossAssumption DEF HeadServesModels

\* At the head the database has what the models declare, up to the two indexes that
\* a refused downgrade can cost, and rows never lose their table.
THEOREM DeploymentHeadServesModels == DeploymentSpec => []HeadServesModels
<1>1. DeploymentInv => HeadServesModels
  BY HeadHasTheModels
<1> QED
  BY <1>1, DeploymentInvariance, PTL

\* Commands that run beside the requests do not double the tickets of the scenario.
THEOREM DeploymentSeededTicketsOnce == DeploymentSpec => []SeededTicketsOnce
<1>1. DeploymentInv => SeededTicketsOnce
  BY DEF DeploymentInv, IInv
<1> QED
  BY <1>1, DeploymentInvariance, PTL

\* An upgrade that stopped half-way is never completed, also while requests are served.
THEOREM DeploymentInterruptedForGood == DeploymentSpec => InterruptedUpgradeStays
<1>1. DeploymentInv /\ [DeploymentNext]_deploymentVars
        => [Interrupted => stamp' = stamp /\ Interrupted']_schemaVars
  BY DeploymentStep, InterruptedStep DEF DeploymentInv
<1> QED
  BY <1>1, DeploymentInvariance, PTL DEF DeploymentSpec, InterruptedUpgradeStays
=============================================================================
