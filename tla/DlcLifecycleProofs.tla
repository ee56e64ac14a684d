------------------------- MODULE DlcLifecycleProofs -------------------------
(***************************************************************************)
(* For any catalogue, any engines and any number of commands and faults,   *)
(* as long as commands are serialised: a verified contract can always be   *)
(* put together from the files and their backups, the history of the lock  *)
(* explains it, and the state of a DLC survives its removal and return.    *)
(***************************************************************************)
EXTENDS DlcLifecycle, WellFoundedInduction, TLAPS

\* One command line at a time: nothing in the code locks the three files, and
\* the guarantees are those of an operator who runs one command after another.
Serialised == Processes # {} /\ \A p, q \in Processes : p = q

\* The state of every DLC that is installed in one lock and retained in the
\* other is the same in both.
Carried(a, b) ==
  \A d \in Dlcs :
    /\ d \in DOMAIN a.retained /\ d \in DOMAIN b.dlcs => b.dlcs[d].state = a.retained[d].state
    /\ d \in DOMAIN a.dlcs /\ d \in DOMAIN b.retained => b.retained[d].state = a.dlcs[d].state

\* What the history of a lock promises.
LockExplained(lock) ==
  /\ \A d \in Dlcs : Explained(lock.history, lock.dlcs, d)
  /\ \A i \in 1..Len(lock.history) :
       lock.history[i].dlc \in DOMAIN lock.dlcs \cup DOMAIN lock.retained

\* A lock that a command may write: typed, disjoint and explained.
LockSound(lock) ==
  /\ LockTyped(lock)
  /\ DOMAIN lock.dlcs \cap DOMAIN lock.retained = {}
  /\ LockExplained(lock)

IsContract(contract) == contract = [name \in Names |-> contract[name]]

\* A contract that a command reads whole or writes whole.
WholeContract(contract) ==
  /\ IsContract(contract)
  /\ Coherent(contract)
  /\ LockSound(contract["lock"])
  /\ EnvTyped(contract["env"])

Phases == {"idle", "write", "fill", "linkIntent", "linkLock", "readLock", "readEnv", "prepare",
           "commit", "rollback", "replaceLock"}

\* The lock is the last file to appear and none of the three goes away again.
FilesInv ==
  /\ IsContract(files)
  /\ files["env"] # NoFile => EnvTyped(files["env"])
  /\ files["lock"] # NoFile =>
       /\ LockSound(files["lock"])
       /\ files["intent"] # NoFile /\ files["env"] # NoFile

\* Backups exist only beside a lock, and hold what their files held.
BackupsInv ==
  /\ backups # {} => files["lock"] # NoFile
  /\ \A b \in backups :
       /\ DOMAIN b = {"owner", "file", "bytes"}
       /\ b.owner \in Processes \cup {Missing}
       /\ b.file \in Names
       /\ b.file = "lock" => LockSound(b.bytes)
       /\ b.file = "env" => EnvTyped(b.bytes)
       /\ faults = 0 => b.owner # Missing

ProcInv ==
  /\ DOMAIN proc = Processes
  /\ \A p \in Processes :
       /\ DOMAIN proc[p] = {"pc", "read", "new", "step"}
       /\ proc[p].pc \in Phases
       /\ proc[p].step \in IF proc[p].pc = "rollback" THEN 0..3 ELSE 0..4
       /\ IsContract(proc[p].read) /\ IsContract(proc[p].new)
  /\ faults \in 0..MaxFaults

\* Between commands the files are coherent, or the backups of the last command
\* that failed complete them; restoring their lock loses no state.
SettledInv ==
  files["lock"] # NoFile =>
    \/ Coherent(files)
    \/ /\ backups # {}
       /\ \E contract \in Choices : Coherent(contract)
       /\ \A b \in backups : b.file = "lock" => Carried(files["lock"], b.bytes)

\* What a process that creates the contract has done so far.
CreatingInv(p) ==
  /\ proc[p].pc \in {"write", "fill"} =>
       /\ proc[p].step \in 1..3
       /\ WholeContract(proc[p].new)
       /\ \A i \in 1..3 : files[BootstrapOrder[i]] =
            IF i < proc[p].step THEN proc[p].new[BootstrapOrder[i]] ELSE NoFile
  /\ proc[p].pc \in {"linkIntent", "linkLock"} =>
       /\ files["lock"] = NoFile /\ files["env"] # NoFile
       /\ files["intent"] = IF proc[p].pc = "linkLock" THEN proc[p].new["intent"] ELSE NoFile
       /\ WholeContract([proc[p].new EXCEPT !["env"] = files["env"]])

\* What a process that changes the contract has read, and done so far.
ChangingInv(p) ==
  /\ proc[p].pc \in {"readLock", "readEnv"} => proc[p].read["intent"] = files["intent"]
  /\ proc[p].pc = "readEnv" =>
       files["lock"] # NoFile /\ proc[p].read["lock"] = files["lock"]
  /\ proc[p].pc = "replaceLock" =>
       LET new == proc[p].new["lock"]
       IN  /\ files["lock"] # NoFile
           /\ LockSound(new)
           /\ new.dlcs = files["lock"].dlcs /\ new.retained = files["lock"].retained
           /\ \E e \in Engines : PairVerified(e, files["intent"], new)

\* A transaction: what it read, what it writes, and where each file stands.
TransactionInv(p) ==
  LET read == proc[p].read
      new == proc[p].new
      step == proc[p].step
  IN  /\ proc[p].pc \in {"prepare", "commit", "rollback"} =>
           /\ WholeContract(read) /\ WholeContract(new)
           /\ Carried(read["lock"], new["lock"])
           /\ \A b \in Owned(p) : \E name \in Names : b = Backup(p, name)
      /\ proc[p].pc = "prepare" => step \in 1..3 /\ files = read
      /\ proc[p].pc = "commit" =>
           /\ step \in 1..4
           /\ \A i \in 1..3 : files[ReplaceOrder[i]] =
                IF i < step THEN new[ReplaceOrder[i]] ELSE read[ReplaceOrder[i]]
           /\ \A name \in Names : Backup(p, name) \in backups
      /\ proc[p].pc = "prepare" =>
           \A i \in 1..3 : i < step => Backup(p, ReplaceOrder[i]) \in backups
      /\ proc[p].pc = "rollback" =>
           /\ \A i \in 1..3 :
                \/ files[ReplaceOrder[i]] = read[ReplaceOrder[i]]
                \/ /\ i <= step
                   /\ files[ReplaceOrder[i]] = new[ReplaceOrder[i]]
                   /\ Backup(p, ReplaceOrder[i]) \in backups

PhaseInv(p) ==
  /\ proc[p].pc \notin {"prepare", "commit", "rollback"} => Owned(p) = {} /\ SettledInv
  /\ CreatingInv(p) /\ ChangingInv(p) /\ TransactionInv(p)

Inv == FilesInv /\ BackupsInv /\ ProcInv /\ \A p \in Processes : PhaseInv(p)

\* Files that were not written to their end: the one bootstrap is writing, or
\* what one that was cut short has left, never beside a lock.
TornInv ==
  /\ torn \subseteq Names
  /\ \A name \in torn : files[name] = NoFile
  /\ torn # {} => files["lock"] = NoFile
  /\ \A p \in Processes :
       /\ proc[p].pc \in {"write", "linkIntent", "linkLock"} => torn = {}
       /\ proc[p].pc = "fill" => torn = {BootstrapOrder[proc[p].step]}
       /\ proc[p].pc # "fill" => "env" \notin torn

---------------------------------------------------------------------------
(* Loops over the DLCs. *)

\* A non-empty set of naturals has a least element: induction without an
\* operator as its parameter.
LEMMA LeastNat ==
  ASSUME NEW T, T \subseteq Nat, T # {}
  PROVE  \E x \in T : \A y \in T : x <= y
<1> DEFINE R == {ss \in Nat \X Nat : ss[1] < ss[2]}
<1>1. OpToRel(<, Nat) = R
  BY DEF OpToRel
<1>2. IsWellFoundedOn(R, Nat)
  BY <1>1, NatLessThanWellFounded
<1>3. PICK x \in T : \A y \in T : ~(<<y, x>> \in R)
  BY <1>2, WFMin
<1>4. ASSUME NEW y \in T
      PROVE  x <= y
  <2>1. <<y, x>> \in Nat \X Nat /\ <<y, x>>[1] = y /\ <<y, x>>[2] = x
    OBVIOUS
  <2>2. ~(y < x)
    BY <1>3, <2>1
  <2> QED
    BY <2>2
<1> QED
  BY <1>4

\* What the loop of PushEach does in one round.
Round(history, records, d) ==
  IF d \in DOMAIN records THEN Append(history, records[d]) ELSE history

\* PushEach is the last of a row of histories, each one round from the one
\* before it.
LEMMA PushEachRounds ==
  ASSUME NEW history, NEW records, DlcOrder \in Seq(Dlcs)
  PROVE  \E f : /\ f[0] = history
                /\ \A n \in 1..Len(DlcOrder) : f[n] = Round(f[n - 1], records, DlcOrder[n])
                /\ PushEach(history, records) = f[Len(DlcOrder)]
<1> DEFINE N == Len(DlcOrder)
           Step(g, n) == IF n = 0 THEN history
                         ELSE IF DlcOrder[n] \in DOMAIN records
                              THEN Append(g[n - 1], records[DlcOrder[n]])
                              ELSE g[n - 1]
           Upto(m) == \E g : g = [n \in 0..m |-> Step(g, n)]
           Bad == {m \in 0..N : ~Upto(m)}
<1>1. N \in Nat
  OBVIOUS
<1> HIDE DEF Upto
<1>2. Bad = {}
  <2> SUFFICES ASSUME Bad # {}
               PROVE  FALSE
    OBVIOUS
  <2>0. Bad \subseteq Nat /\ \A m \in 0..N : m \notin Bad => Upto(m)
    BY <1>1
  <2>1. PICK m \in Bad : \A k \in Bad : m <= k
    <3> HIDE DEF Bad
    <3> QED
      BY <2>0, LeastNat
  <2>2. m \in 0..N /\ ~Upto(m)
    OBVIOUS
  <2> HIDE DEF Bad
  <2>3. CASE m = 0
    <3> DEFINE g == [n \in 0..0 |-> history]
    <3>1. g = [n \in 0..0 |-> Step(g, n)]
      OBVIOUS
    <3>2. Upto(0)
      BY <3>1 DEF Upto
    <3> QED
      BY <3>2, <2>2, <2>3
  <2>4. CASE m # 0
    <3>1. m - 1 \in 0..N /\ m - 1 \notin Bad /\ m \in Nat
      BY <1>1, <2>1, <2>2, <2>4
    <3>2. PICK h : h = [n \in 0..(m - 1) |-> Step(h, n)]
      BY <2>0, <3>1 DEF Upto
    <3> DEFINE g == [n \in 0..m |-> IF n < m THEN h[n] ELSE Step(h, n)]
    <3>3. \A n \in 0..m : g[n] = Step(g, n)
      <4> SUFFICES ASSUME NEW n \in 0..m
                   PROVE  g[n] = Step(g, n)
        OBVIOUS
      <4>1. CASE n = 0
        BY <4>1, <3>1, <3>2, <2>4
      <4>2. CASE n # 0
        <5>1. n - 1 \in 0..m /\ n - 1 < m /\ g[n - 1] = h[n - 1]
          BY <3>1, <4>2
        <5>2. Step(g, n) = Step(h, n)
          BY <5>1
        <5> HIDE DEF Step
        <5>3. n < m => h[n] = Step(h, n)
          <6>1. n < m => n \in 0..(m - 1)
            BY <3>1
          <6> QED
            BY <3>2, <6>1
        <5> QED
          BY <5>2, <5>3
      <4> QED
        BY <4>1, <4>2
    <3> HIDE DEF Step
    <3>4. g = [n \in 0..m |-> Step(g, n)]
      BY <3>3
    <3>5. Upto(m)
      BY <3>4 DEF Upto
    <3> QED
      BY <3>5, <2>2
  <2> QED
    BY <2>3, <2>4
<1>3. Upto(N)
  <2>1. N \in 0..N
    BY <1>1
  <2> QED
    BY <1>2, <2>1
<1> DEFINE f == CHOOSE g : g = [n \in 0..N |-> Step(g, n)]
<1>4. f = [n \in 0..N |-> Step(f, n)]
  BY <1>3 DEF Upto
<1>5. PushEach(history, records) = f[N]
  BY DEF PushEach
<1> HIDE DEF f
<1>6. f[0] = history
  BY <1>1, <1>4
<1>7. ASSUME NEW n \in 1..N
      PROVE  f[n] = Round(f[n - 1], records, DlcOrder[n])
  <2>1. n \in 0..N /\ n # 0
    BY <1>1
  <2>2. f[n] = Step(f, n)
    <3> HIDE DEF Step
    <3> QED
      BY <1>4, <2>1
  <2> QED
    BY <2>1, <2>2 DEF Round
<1> QED
  BY <1>5, <1>6, <1>7
---------------------------------------------------------------------------
(* Histories. *)

\* The records of a history that one more record extends.
LEMMA Extended ==
  ASSUME NEW h \in Seq(HistoryRecords), NEW r \in HistoryRecords
  PROVE  /\ Append(h, r) \in Seq(HistoryRecords)
         /\ Len(h) \in Nat /\ Len(Append(h, r)) = Len(h) + 1
         /\ \A i \in 1..Len(h) : Append(h, r)[i] = h[i]
         /\ Append(h, r)[Len(h) + 1] = r
OBVIOUS

\* A record of another DLC explains nothing new about this one.
LEMMA ExplainedByOther ==
  ASSUME NEW h \in Seq(HistoryRecords), NEW r \in HistoryRecords, NEW old, NEW new, NEW d,
         Explained(h, old, d), r.dlc # d,
         d \in DOMAIN new <=> d \in DOMAIN old,
         d \in DOMAIN old => /\ new[d].version = old[d].version
                             /\ new[d].enabled = old[d].enabled
  PROVE  Explained(Append(h, r), new, d)
<1> DEFINE g == Append(h, r)
<1>1. /\ Len(h) \in Nat /\ Len(g) = Len(h) + 1
      /\ \A i \in 1..Len(h) : g[i] = h[i]
      /\ g[Len(h) + 1] = r
  BY Extended
<1> HIDE DEF g
<1> DEFINE own == {i \in 1..Len(h) : h[i].dlc = d}
           switches == {i \in own : h[i].action # "upgraded"}
<1>2. {i \in 1..Len(g) : g[i].dlc = d} = own
  BY <1>1
<1>3. {i \in own : g[i].action # "upgraded"} = switches
  BY <1>1
<1>4. \A i \in own : g[i] = h[i]
  BY <1>1
<1>5. \A i \in switches : i \in own
  OBVIOUS
<1>6. /\ d \in DOMAIN old <=> \E i \in own : Latest(i, own) /\ h[i].action # "removed"
      /\ d \in DOMAIN old =>
           /\ \E i \in own : Latest(i, own) /\ h[i].to = old[d].version
           /\ \E i \in switches :
                Latest(i, switches) /\ (old[d].enabled <=> h[i].action # "disabled")
  BY DEF Explained
<1> HIDE DEF own, switches
<1>7. /\ d \in DOMAIN new <=> \E i \in own : Latest(i, own) /\ g[i].action # "removed"
      /\ d \in DOMAIN new =>
           /\ \E i \in own : Latest(i, own) /\ g[i].to = new[d].version
           /\ \E i \in switches :
                Latest(i, switches) /\ (new[d].enabled <=> g[i].action # "disabled")
  BY <1>4, <1>5, <1>6
<1>8. Explained(g, new, d)
  BY <1>2, <1>3, <1>7 DEF Explained
<1> QED
  BY <1>8 DEF g

\* The same history explains records that agree in version and switch.
LEMMA ExplainedAlike ==
  ASSUME NEW h, NEW old, NEW new, NEW d,
         Explained(h, old, d),
         d \in DOMAIN new <=> d \in DOMAIN old,
         d \in DOMAIN old => /\ new[d].version = old[d].version
                             /\ new[d].enabled = old[d].enabled
  PROVE  Explained(h, new, d)
BY DEF Explained

\* An installation, a switch or an upgrade is explained by its record.
LEMMA ExplainedByOwn ==
  ASSUME NEW h \in Seq(HistoryRecords), NEW r \in HistoryRecords, NEW new, NEW d,
         r.dlc = d, d \in DOMAIN new, new[d].version = r.to,
         r.action \notin {"removed", "upgraded"},
         new[d].enabled <=> r.action # "disabled"
  PROVE  Explained(Append(h, r), new, d)
<1> DEFINE g == Append(h, r)
           last == Len(h) + 1
           own == {i \in 1..Len(g) : g[i].dlc = d}
           switches == {i \in own : g[i].action # "upgraded"}
<1>1. /\ Len(h) \in Nat /\ Len(g) = Len(h) + 1
      /\ g[last] = r
  BY Extended
<1> HIDE DEF g
<1>2. last \in own /\ last \in switches
  BY <1>1
<1>3. Latest(last, own) /\ Latest(last, switches)
  BY <1>1, <1>2 DEF Latest
<1> HIDE DEF own, switches
<1>4. /\ d \in DOMAIN new <=> \E i \in own : Latest(i, own) /\ g[i].action # "removed"
      /\ d \in DOMAIN new =>
           /\ \E i \in own : Latest(i, own) /\ g[i].to = new[d].version
           /\ \E i \in switches :
                Latest(i, switches) /\ (new[d].enabled <=> g[i].action # "disabled")
  BY <1>1, <1>2, <1>3
<1>5. Explained(g, new, d)
  BY <1>4 DEF Explained, own, switches
<1> QED
  BY <1>5 DEF g

\* An upgrade is explained by its record, the switch by what came before.
LEMMA ExplainedByUpgrade ==
  ASSUME NEW h \in Seq(HistoryRecords), NEW r \in HistoryRecords, NEW old, NEW new, NEW d,
         Explained(h, old, d), r.dlc = d, r.action = "upgraded",
         d \in DOMAIN old, d \in DOMAIN new, new[d].version = r.to,
         new[d].enabled = old[d].enabled
  PROVE  Explained(Append(h, r), new, d)
<1> DEFINE g == Append(h, r)
           last == Len(h) + 1
           own == {i \in 1..Len(g) : g[i].dlc = d}
           before == {i \in 1..Len(h) : h[i].dlc = d}
           switches == {i \in own : g[i].action # "upgraded"}
<1>1. /\ Len(h) \in Nat /\ Len(g) = Len(h) + 1
      /\ \A i \in 1..Len(h) : g[i] = h[i]
      /\ g[last] = r
  BY Extended
<1> HIDE DEF g
<1>2. last \in own
  BY <1>1
<1>3. Latest(last, own)
  BY <1>1, <1>2 DEF Latest
<1>4. switches = {i \in before : h[i].action # "upgraded"}
  BY <1>1
<1>5. \A i \in switches : g[i] = h[i]
  BY <1>1, <1>4
<1>6. \E i \in switches : Latest(i, switches) /\ (old[d].enabled <=> h[i].action # "disabled")
  BY <1>4 DEF Explained
<1> HIDE DEF own, switches
<1>7. /\ d \in DOMAIN new <=> \E i \in own : Latest(i, own) /\ g[i].action # "removed"
      /\ \E i \in own : Latest(i, own) /\ g[i].to = new[d].version
  BY <1>1, <1>2, <1>3
<1>8. \E i \in switches : Latest(i, switches) /\ (new[d].enabled <=> g[i].action # "disabled")
  BY <1>5, <1>6
<1>9. Explained(g, new, d)
  BY <1>7, <1>8 DEF Explained, own, switches
<1> QED
  BY <1>9 DEF g

\* A removal is explained by its record.
LEMMA ExplainedByRemoval ==
  ASSUME NEW h \in Seq(HistoryRecords), NEW r \in HistoryRecords, NEW new, NEW d,
         r.dlc = d, d \notin DOMAIN new, r.action = "removed"
  PROVE  Explained(Append(h, r), new, d)
<1> DEFINE g == Append(h, r)
           last == Len(h) + 1
           own == {i \in 1..Len(g) : g[i].dlc = d}
<1>1. /\ Len(h) \in Nat /\ Len(g) = Len(h) + 1
      /\ g[last] = r
  BY Extended
<1> HIDE DEF g
<1>2. last \in own
  BY <1>1
<1>3. ASSUME NEW i \in own, Latest(i, own)
      PROVE  i = last
  BY <1>1, <1>2, <1>3 DEF Latest
<1> HIDE DEF own
<1>4. ~ \E i \in own : Latest(i, own) /\ g[i].action # "removed"
  BY <1>1, <1>3
<1>5. Explained(g, new, d)
  BY <1>4 DEF Explained, own
<1> QED
  BY <1>5 DEF g
\* Whatever every round of PushEach keeps, PushEach keeps: Good holds for each
\* n the histories that may stand after the n-th DLC.
LEMMA PushEachInto ==
  ASSUME NEW history, NEW records, NEW Good, DlcOrder \in Seq(Dlcs),
         history \in Good[0],
         \A n \in 1..Len(DlcOrder) : \A h \in Good[n - 1] :
           Round(h, records, DlcOrder[n]) \in Good[n]
  PROVE  PushEach(history, records) \in Good[Len(DlcOrder)]
<1> DEFINE N == Len(DlcOrder)
<1>1. N \in Nat
  OBVIOUS
<1>2. PICK f : /\ f[0] = history
               /\ \A n \in 1..N : f[n] = Round(f[n - 1], records, DlcOrder[n])
               /\ PushEach(history, records) = f[N]
  BY PushEachRounds
<1> DEFINE Bad == {n \in 0..N : f[n] \notin Good[n]}
<1>3. Bad = {}
  <2> SUFFICES ASSUME Bad # {}
               PROVE  FALSE
    OBVIOUS
  <2>1. Bad \subseteq Nat
    BY <1>1
  <2>2. PICK m \in Bad : \A k \in Bad : m <= k
    BY <2>1, LeastNat
  <2>3. m \in 0..N /\ f[m] \notin Good[m]
    OBVIOUS
  <2>4. m # 0
    BY <1>2, <2>3
  <2>5. m \in 1..N /\ m - 1 \in 0..N /\ m - 1 \notin Bad
    BY <1>1, <2>2, <2>3, <2>4
  <2>6. f[m - 1] \in Good[m - 1]
    BY <2>5
  <2>7. Round(f[m - 1], records, DlcOrder[m]) \in Good[m]
    BY <2>5, <2>6
  <2> QED
    BY <1>2, <2>3, <2>5, <2>7
<1>4. N \in 0..N
  BY <1>1
<1> QED
  BY <1>2, <1>3, <1>4

\* The records that push_history writes.
LEMMA RecordTyped ==
  ASSUME NEW action \in {"installed", "enabled", "disabled", "upgraded", "removed"},
         NEW d \in Dlcs, NEW from \in Versions \cup {Missing}, NEW to \in Versions \cup {Missing},
         NEW engine \in Engines
  PROVE  /\ HistoryRecord(action, d, from, to, engine) \in HistoryRecords
         /\ HistoryRecord(action, d, from, to, engine).action = action
         /\ HistoryRecord(action, d, from, to, engine).dlc = d
         /\ HistoryRecord(action, d, from, to, engine).to = to
BY DEF HistoryRecord, HistoryRecords

\* The DLCs of the order's first n places.
Before(n) == {DlcOrder[i] : i \in 1..n}

\* One round adds one DLC.
LEMMA BeforeGrows ==
  ASSUME DlcOrder \in Seq(Dlcs), NEW n \in 1..Len(DlcOrder)
  PROVE  /\ Before(n) = Before(n - 1) \cup {DlcOrder[n]} /\ DlcOrder[n] \in Dlcs
         /\ Before(0) = {} /\ Before(Len(DlcOrder)) = Dlcs
<1>1. Len(DlcOrder) \in Nat /\ n \in Nat
  OBVIOUS
<1>2. 1..n = (1..(n - 1)) \cup {n}
  BY <1>1
<1>3. Before(n) = Before(n - 1) \cup {DlcOrder[n]}
  BY <1>2 DEF Before
<1> QED
  BY <1>1, <1>3 DEF Before, Dlcs

\* What upgrade and reconcile push explains what they wrote.
LEMMA UpgradesExplained ==
  ASSUME NEW lock, NEW dlcs, NEW engine \in Engines, LockSound(lock),
         DOMAIN dlcs = DOMAIN lock.dlcs,
         \A d \in DOMAIN dlcs : /\ dlcs[d] \in LockRecords
                                /\ dlcs[d].enabled = lock.dlcs[d].enabled
                                /\ dlcs[d].version >= lock.dlcs[d].version
  PROVE  LET h == PushUpgrades(lock, dlcs, engine)
         IN  /\ h \in Seq(HistoryRecords)
             /\ \A d \in Dlcs : Explained(h, dlcs, d)
             /\ \A i \in 1..Len(h) : h[i].dlc \in DOMAIN dlcs \cup DOMAIN lock.retained
<1> DEFINE raised == {d \in DOMAIN dlcs : dlcs[d].version > lock.dlcs[d].version}
           rec(d) == HistoryRecord("upgraded", d, lock.dlcs[d].version, dlcs[d].version, engine)
           records == [d \in raised |-> rec(d)]
           S == DOMAIN dlcs \cup DOMAIN lock.retained
           Mixed(n) == [x \in DOMAIN dlcs |-> IF x \in Before(n) THEN dlcs[x] ELSE lock.dlcs[x]]
           N == Len(DlcOrder)
           Good == [n \in 0..N |-> {h \in Seq(HistoryRecords) :
                      /\ \A d \in Dlcs : Explained(h, Mixed(n), d)
                      /\ \A i \in 1..Len(h) : h[i].dlc \in S}]
<1>1. DlcOrder \in Seq(Dlcs) /\ N \in Nat
  BY DlcAssumption
<1>2. /\ lock.history \in Seq(HistoryRecords) /\ DOMAIN dlcs \subseteq Dlcs
      /\ \A d \in DOMAIN dlcs : lock.dlcs[d] \in LockRecords
  BY DEF LockSound, LockTyped
<1>3. \A d \in DOMAIN dlcs : /\ lock.dlcs[d].version \in Nat /\ dlcs[d].version \in Nat
                             /\ lock.dlcs[d].version \in Versions /\ dlcs[d].version \in Versions
  BY <1>2, DlcAssumption DEF LockRecords
<1>4. \A d \in raised : /\ rec(d) \in HistoryRecords /\ rec(d).dlc = d
                        /\ rec(d).action = "upgraded" /\ rec(d).to = dlcs[d].version
  <2> SUFFICES ASSUME NEW d \in raised
               PROVE  /\ rec(d) \in HistoryRecords /\ rec(d).dlc = d
                      /\ rec(d).action = "upgraded" /\ rec(d).to = dlcs[d].version
    OBVIOUS
  <2>1. d \in Dlcs /\ lock.dlcs[d].version \in Versions /\ dlcs[d].version \in Versions
    BY <1>2, <1>3
  <2> QED
    BY <2>1, RecordTyped
<1>5. PushUpgrades(lock, dlcs, engine) = PushEach(lock.history, records)
  BY DEF PushUpgrades
<1> HIDE DEF rec
<1>6. lock.history \in Good[0]
  <2>1. \A d \in Dlcs : Explained(lock.history, lock.dlcs, d)
    BY DEF LockSound, LockExplained
  <2>2. Before(0) = {}
    BY DEF Before
  <2>3. Mixed(0) = [x \in DOMAIN dlcs |-> lock.dlcs[x]]
    BY <2>2
  <2>4. ASSUME NEW d \in Dlcs
        PROVE  Explained(lock.history, Mixed(0), d)
    <3>1. Explained(lock.history, lock.dlcs, d)
      BY <2>1
    <3>2. d \in DOMAIN Mixed(0) <=> d \in DOMAIN lock.dlcs
      OBVIOUS
    <3>3. d \in DOMAIN lock.dlcs => Mixed(0)[d] = lock.dlcs[d]
      BY <2>3
    <3> HIDE DEF Mixed
    <3> QED
      BY <3>1, <3>2, <3>3, ExplainedAlike
  <2>5. \A i \in 1..Len(lock.history) : lock.history[i].dlc \in S
    BY DEF LockSound, LockExplained
  <2>6. 0 \in 0..N
    BY <1>1
  <2> HIDE DEF Mixed, S
  <2> QED
    BY <1>2, <2>4, <2>5, <2>6
<1>7. ASSUME NEW n \in 1..N, NEW h \in Good[n - 1]
      PROVE  Round(h, records, DlcOrder[n]) \in Good[n]
  <2> DEFINE d0 == DlcOrder[n]
             g == Round(h, records, d0)
  <2>1. n \in 0..N /\ n - 1 \in 0..N
    BY <1>1
  <2>2. /\ h \in Seq(HistoryRecords)
        /\ \A d \in Dlcs : Explained(h, Mixed(n - 1), d)
        /\ \A i \in 1..Len(h) : h[i].dlc \in S
    <3> HIDE DEF Mixed, S
    <3> QED
      BY <2>1
  <2>3. Before(n) = Before(n - 1) \cup {d0} /\ d0 \in Dlcs
    BY <1>1, BeforeGrows
  <2>4. /\ DOMAIN Mixed(n) = DOMAIN dlcs /\ DOMAIN Mixed(n - 1) = DOMAIN dlcs
        /\ \A d \in DOMAIN dlcs : d # d0 => Mixed(n)[d] = Mixed(n - 1)[d]
        /\ d0 \in DOMAIN dlcs => /\ Mixed(n)[d0] = dlcs[d0]
                                 /\ Mixed(n - 1)[d0] \in {dlcs[d0], lock.dlcs[d0]}
    BY <2>3
  <2> HIDE DEF Mixed, d0, Good
  <2>5. CASE d0 \in raised
    <3>1. g = Append(h, rec(d0)) /\ d0 \in DOMAIN dlcs
      BY <2>5 DEF Round
    <3>2. rec(d0) \in HistoryRecords /\ rec(d0).dlc = d0
      BY <1>4, <2>5
    <3>3. ASSUME NEW d \in Dlcs
          PROVE  Explained(g, Mixed(n), d)
      <4>1. Explained(h, Mixed(n - 1), d)
        BY <2>2
      <4>2. CASE d # d0
        BY <4>1, <4>2, <3>1, <3>2, <2>2, <2>4, ExplainedByOther
      <4>3. CASE d = d0
        <5>1. Mixed(n)[d].version = rec(d).to /\ rec(d).action = "upgraded"
          BY <1>4, <2>4, <2>5, <3>1, <4>3
        <5>2. Mixed(n)[d].enabled = Mixed(n - 1)[d].enabled
          BY <2>4, <3>1, <4>3
        <5> QED
          BY <4>1, <4>3, <5>1, <5>2, <3>1, <3>2, <2>2, <2>4, ExplainedByUpgrade
      <4> QED
        BY <4>2, <4>3
    <3>4. g \in Seq(HistoryRecords) /\ \A i \in 1..Len(g) : g[i].dlc \in S
      <4>1. rec(d0).dlc \in S
        BY <3>1, <3>2
      <4> HIDE DEF g, S, raised, records
      <4>2. /\ g \in Seq(HistoryRecords)
            /\ Len(h) \in Nat /\ Len(g) = Len(h) + 1
            /\ \A i \in 1..Len(h) : g[i] = h[i]
            /\ g[Len(h) + 1] = rec(d0)
        BY <2>2, <3>1, <3>2, Extended
      <4> QED
        BY <4>1, <4>2, <2>2
    <3> HIDE DEF g, S
    <3>5. g \in Good[n]
      BY <2>1, <3>3, <3>4 DEF Good
    <3> QED
      BY <3>5 DEF g, d0
  <2>6. CASE d0 \notin raised
    <3>1. g = h
      BY <2>6 DEF Round
    <3>2. ASSUME NEW d \in Dlcs
          PROVE  Explained(h, Mixed(n), d)
      <4>1. Explained(h, Mixed(n - 1), d)
        BY <2>2
      <4>2. d \in DOMAIN dlcs => /\ Mixed(n)[d].version = Mixed(n - 1)[d].version
                                 /\ Mixed(n)[d].enabled = Mixed(n - 1)[d].enabled
        <5>1. CASE d # d0
          BY <5>1, <2>4
        <5>2. CASE d = d0 /\ d \in DOMAIN dlcs
          <6>1. dlcs[d].version = lock.dlcs[d].version
            BY <5>2, <2>6, <1>3
          <6> QED
            BY <6>1, <5>2, <2>4
        <5> QED
          BY <5>1, <5>2
      <4> QED
        BY <4>1, <4>2, <2>4, ExplainedAlike
    <3> HIDE DEF S
    <3>3. h \in Good[n]
      BY <2>1, <2>2, <3>2 DEF Good
    <3> QED
      BY <3>1, <3>3 DEF g, d0
  <2> QED
    BY <2>5, <2>6
<1>8. PushEach(lock.history, records) \in Good[N]
  <2> HIDE DEF records, Good
  <2> QED
    BY <1>1, <1>6, <1>7, PushEachInto
<1> DEFINE h == PushEach(lock.history, records)
<1>9. /\ h \in Seq(HistoryRecords)
      /\ \A d \in Dlcs : Explained(h, Mixed(N), d)
      /\ \A i \in 1..Len(h) : h[i].dlc \in S
  <2>1. N \in 0..N
    BY <1>1
  <2> HIDE DEF Mixed, S, records
  <2> QED
    BY <2>1, <1>8
<1>10. \A d \in DOMAIN dlcs : Mixed(N)[d] = dlcs[d]
  BY <1>2 DEF Before, Dlcs
<1>11. DOMAIN Mixed(N) = DOMAIN dlcs
  OBVIOUS
<1> HIDE DEF Mixed, records, S
<1>12. \A d \in Dlcs : Explained(h, dlcs, d)
  BY <1>9, <1>10, <1>11, ExplainedAlike
<1> QED
  BY <1>5, <1>9, <1>12 DEF S
---------------------------------------------------------------------------
(* What the commands write. *)

\* resolve_official answers a record of the catalogue.
LEMMA ResolvedTyped ==
  ASSUME NEW engine \in Engines, NEW d \in Dlcs, NEW requirement \in SUBSET Versions,
         NEW enabled \in BOOLEAN, Catalog[engine][d] # Missing
  PROVE  LET new == Resolved(engine, d, requirement, enabled)
         IN  /\ new \in LockRecords
             /\ new.version = Catalog[engine][d].version /\ new.enabled = enabled
             /\ new.requested = requirement /\ new.manifest = Catalog[engine][d]
             /\ Catalog[engine][d].version \in Versions
<1> DEFINE m == Catalog[engine][d]
<1>1. m \in Manifests
  BY DEF Manifests
<1>2. m.version \in Versions /\ m.state \in Nat \cup {Missing}
  BY <1>1, DlcAssumption DEF Versions
<1> HIDE DEF m
<1>3. [requested |-> requirement, version |-> m.version, manifest |-> m, enabled |-> enabled,
       state |-> m.state] \in LockRecords
  BY <1>1, <1>2 DEF LockRecords
<1> QED
  BY <1>2, <1>3 DEF Resolved, m

\* bootstrap and adopt write a sound lock, whose history installs what it has.
LEMMA NewLockSound ==
  ASSUME NEW engine \in Engines, NEW selected \in SUBSET Dlcs, NEW source,
         NEW requirement \in [selected -> SUBSET Versions],
         \A d \in selected : Catalog[engine][d] # Missing
  PROVE  LET lock == NewLock(engine, selected, requirement, source)
         IN  LockSound(lock) /\ BundledManifests(engine, lock) /\ EnabledDlcs(lock) = selected
<1> DEFINE dlc(d) == Resolved(engine, d, requirement[d], TRUE)
           dlcs == [d \in selected |-> dlc(d)]
           rec(d) == HistoryRecord("installed", d, Missing, Catalog[engine][d].version, engine)
           records == [d \in selected |-> rec(d)]
           Part(n) == [d \in selected \cap Before(n) |-> dlc(d)]
           N == Len(DlcOrder)
           Good == [n \in 0..N |-> {h \in Seq(HistoryRecords) :
                      /\ \A d \in Dlcs : Explained(h, Part(n), d)
                      /\ \A i \in 1..Len(h) : h[i].dlc \in selected}]
<1>1. DlcOrder \in Seq(Dlcs) /\ N \in Nat
  BY DlcAssumption
<1>2. ASSUME NEW d \in selected
      PROVE  /\ dlc(d) \in LockRecords /\ dlc(d).version = Catalog[engine][d].version
             /\ dlc(d).enabled = TRUE /\ dlc(d).manifest = Catalog[engine][d]
             /\ rec(d) \in HistoryRecords /\ rec(d).dlc = d /\ rec(d).action = "installed"
             /\ rec(d).to = dlc(d).version
  <2>1. requirement[d] \in SUBSET Versions /\ d \in Dlcs /\ TRUE \in BOOLEAN
    OBVIOUS
  <2>2. /\ dlc(d) \in LockRecords /\ dlc(d).version = Catalog[engine][d].version
        /\ dlc(d).enabled = TRUE /\ dlc(d).manifest = Catalog[engine][d]
        /\ Catalog[engine][d].version \in Versions
    <3>1. \A enabled \in BOOLEAN :
            LET new == Resolved(engine, d, requirement[d], enabled)
            IN  /\ new \in LockRecords /\ new.version = Catalog[engine][d].version
                /\ new.enabled = enabled /\ new.manifest = Catalog[engine][d]
                /\ Catalog[engine][d].version \in Versions
      BY <2>1, ResolvedTyped
    <3> QED
      BY <3>1
  <2> HIDE DEF dlc
  <2>3. rec(d) \in HistoryRecords /\ rec(d).dlc = d /\ rec(d).action = "installed"
        /\ rec(d).to = Catalog[engine][d].version
    <3> DEFINE v == Catalog[engine][d].version
    <3>1. /\ Missing \in Versions \cup {Missing}
          /\ v \in Versions \cup {Missing}
          /\ "installed" \in {"installed", "enabled", "disabled", "upgraded", "removed"}
      BY <2>2
    <3> HIDE DEF v
    <3>2. LET r == HistoryRecord("installed", d, Missing, v, engine)
          IN  r \in HistoryRecords /\ r.dlc = d /\ r.action = "installed" /\ r.to = v
      <4>1. d \in Dlcs
        OBVIOUS
      <4> QED
        BY <4>1, <3>1, RecordTyped DEF HistoryRecords, HistoryRecord
    <3> QED
      BY <3>2 DEF v
  <2> HIDE DEF rec
  <2> QED
    BY <2>2, <2>3
<1>3. NewLock(engine, selected, requirement, source) =
        [engine |-> engine, source |-> source, dlcs |-> dlcs, retained |-> [d \in {} |-> Missing],
         history |-> PushEach(<<>>, records)]
  BY DEF NewLock
<1> HIDE DEF dlc, rec
<1>4. <<>> \in Good[0]
  <2>1. Before(0) = {}
    BY DEF Before
  <2>2. DOMAIN Part(0) = {}
    BY <2>1
  <2> HIDE DEF Part
  <2>3. \A d \in Dlcs : Explained(<<>>, Part(0), d)
    BY <2>2 DEF Explained
  <2> QED
    BY <1>1, <2>3
<1>5. ASSUME NEW n \in 1..N, NEW h \in Good[n - 1]
      PROVE  Round(h, records, DlcOrder[n]) \in Good[n]
  <2> DEFINE d0 == DlcOrder[n]
             g == Round(h, records, d0)
  <2>1. n \in 0..N /\ n - 1 \in 0..N
    BY <1>1
  <2>2. /\ h \in Seq(HistoryRecords)
        /\ \A d \in Dlcs : Explained(h, Part(n - 1), d)
        /\ \A i \in 1..Len(h) : h[i].dlc \in selected
    <3> HIDE DEF Part
    <3> QED
      BY <2>1
  <2>3. Before(n) = Before(n - 1) \cup {d0} /\ d0 \in Dlcs
    BY <1>1, BeforeGrows
  <2>4. /\ \A d : d # d0 => (d \in DOMAIN Part(n) <=> d \in DOMAIN Part(n - 1))
        /\ \A d \in DOMAIN Part(n - 1) : Part(n)[d] = Part(n - 1)[d]
        /\ d0 \in selected => d0 \in DOMAIN Part(n) /\ Part(n)[d0] = dlc(d0)
        /\ d0 \notin selected => d0 \notin DOMAIN Part(n) /\ d0 \notin DOMAIN Part(n - 1)
    BY <2>3
  <2> HIDE DEF Part, d0, Good
  <2>5. CASE d0 \in selected
    <3>1. g = Append(h, rec(d0))
      BY <2>5 DEF Round
    <3>2. rec(d0) \in HistoryRecords /\ rec(d0).dlc = d0
      BY <1>2, <2>5
    <3>3. ASSUME NEW d \in Dlcs
          PROVE  Explained(g, Part(n), d)
      <4>1. CASE d # d0
        <5>1. Explained(h, Part(n - 1), d)
          BY <2>2
        <5>2. d \in DOMAIN Part(n) <=> d \in DOMAIN Part(n - 1)
          BY <2>4, <4>1
        <5>3. d \in DOMAIN Part(n - 1) => Part(n)[d] = Part(n - 1)[d]
          BY <2>4
        <5> HIDE DEF g, records
        <5> QED
          BY <5>1, <5>2, <5>3, <4>1, <3>1, <3>2, <2>2, ExplainedByOther
      <4>2. CASE d = d0
        <5>1. d \in DOMAIN Part(n) /\ Part(n)[d].version = rec(d).to
          BY <1>2, <2>4, <2>5, <4>2
        <5>2. Part(n)[d].enabled = TRUE /\ rec(d).action = "installed"
          BY <1>2, <2>4, <2>5, <4>2
        <5>3. Part(n)[d].enabled <=> rec(d).action # "disabled"
          BY <5>2
        <5> QED
          BY <4>2, <5>1, <5>2, <5>3, <3>1, <3>2, <2>2, ExplainedByOwn
      <4> QED
        BY <4>1, <4>2
    <3>4. g \in Seq(HistoryRecords) /\ \A i \in 1..Len(g) : g[i].dlc \in selected
      <4> HIDE DEF g, records
      <4>1. /\ g \in Seq(HistoryRecords)
            /\ Len(h) \in Nat /\ Len(g) = Len(h) + 1
            /\ \A i \in 1..Len(h) : g[i] = h[i]
            /\ g[Len(h) + 1] = rec(d0)
        BY <2>2, <3>1, <3>2, Extended
      <4> QED
        BY <4>1, <2>2, <2>5, <3>2
    <3> HIDE DEF g
    <3>5. g \in Good[n]
      BY <2>1, <3>3, <3>4 DEF Good
    <3> QED
      BY <3>5 DEF g, d0
  <2>6. CASE d0 \notin selected
    <3>1. g = h
      BY <2>6 DEF Round
    <3>2. ASSUME NEW d \in Dlcs
          PROVE  Explained(h, Part(n), d)
      <4>1. Explained(h, Part(n - 1), d)
        BY <2>2
      <4>2. d \in DOMAIN Part(n) <=> d \in DOMAIN Part(n - 1)
        BY <2>4, <2>6
      <4> QED
        BY <4>1, <4>2, <2>4, ExplainedAlike
    <3>3. h \in Good[n]
      BY <2>1, <2>2, <3>2 DEF Good
    <3> QED
      BY <3>1, <3>3 DEF g, d0
  <2> QED
    BY <2>5, <2>6
<1>6. PushEach(<<>>, records) \in Good[N]
  <2> HIDE DEF records, Good
  <2> QED
    BY <1>1, <1>4, <1>5, PushEachInto
<1> DEFINE h == PushEach(<<>>, records)
<1>7. /\ h \in Seq(HistoryRecords)
      /\ \A d \in Dlcs : Explained(h, Part(N), d)
      /\ \A i \in 1..Len(h) : h[i].dlc \in selected
  <2>1. N \in 0..N
    BY <1>1
  <2> HIDE DEF Part, records
  <2> QED
    BY <2>1, <1>6
<1>8. Part(N) = dlcs
  <2>1. selected \cap Before(N) = selected
    BY DEF Before, Dlcs
  <2> QED
    BY <2>1
<1> HIDE DEF h, records
<1> DEFINE lock == NewLock(engine, selected, requirement, source)
<1>9. /\ lock.dlcs = dlcs /\ lock.history = h /\ DOMAIN lock.retained = {}
      /\ lock.engine = engine /\ DOMAIN lock = {"engine", "source", "dlcs", "retained", "history"}
  BY <1>3 DEF h
<1> HIDE DEF lock
<1>14. /\ DOMAIN lock.dlcs = selected
       /\ \A d \in selected : /\ lock.dlcs[d] \in LockRecords
                              /\ lock.dlcs[d].version = Catalog[engine][d].version
                              /\ lock.dlcs[d].manifest = Catalog[engine][d]
                              /\ lock.dlcs[d].enabled = TRUE
  <2>1. DOMAIN lock.dlcs = selected /\ \A d \in selected : lock.dlcs[d] = dlc(d)
    BY <1>9
  <2> QED
    <3>1. ASSUME NEW d \in selected
          PROVE  /\ lock.dlcs[d] \in LockRecords
                 /\ lock.dlcs[d].version = Catalog[engine][d].version
                 /\ lock.dlcs[d].manifest = Catalog[engine][d]
                 /\ lock.dlcs[d].enabled = TRUE
      <4>1. lock.dlcs[d] = dlc(d)
        BY <2>1
      <4>2. /\ dlc(d) \in LockRecords /\ dlc(d).version = Catalog[engine][d].version
            /\ dlc(d).enabled = TRUE /\ dlc(d).manifest = Catalog[engine][d]
        BY <1>2
      <4> QED
        BY <4>1, <4>2
    <3> QED
      BY <2>1, <3>1
<1>15. \A d \in selected : lock.dlcs[d].enabled
  BY <1>14
<1>10. LockTyped(lock)
  BY <1>7, <1>9, <1>14 DEF LockTyped
<1>11. LockExplained(lock)
  BY <1>7, <1>8, <1>9 DEF LockExplained
<1>12. BundledManifests(engine, lock)
  BY <1>14 DEF BundledManifests
<1>13. EnabledDlcs(lock) = selected
  BY <1>14, <1>15 DEF EnabledDlcs
<1> QED
  BY <1>9, <1>10, <1>11, <1>12, <1>13 DEF LockSound, lock
\* What load_deployment knows of a sound lock and its intent.
LEMMA Loaded ==
  ASSUME NEW engine, NEW intent, NEW lock, LockSound(lock), PairVerified(engine, intent, lock)
  PROVE  /\ DOMAIN lock = {"engine", "source", "dlcs", "retained", "history"}
         /\ DOMAIN intent = DOMAIN lock.dlcs /\ DOMAIN lock.dlcs \subseteq Dlcs
         /\ DOMAIN lock.retained \subseteq Dlcs
         /\ DOMAIN lock.dlcs \cap DOMAIN lock.retained = {}
         /\ lock.engine \in Engines /\ lock.history \in Seq(HistoryRecords)
         /\ \A d \in DOMAIN lock.dlcs : /\ intent[d].version = lock.dlcs[d].requested
                                        /\ lock.dlcs[d] \in LockRecords
         /\ \A d \in DOMAIN lock.retained : lock.retained[d] \in RetainedRecords
         /\ \A d \in Dlcs : Explained(lock.history, lock.dlcs, d)
         /\ \A i \in 1..Len(lock.history) :
              lock.history[i].dlc \in DOMAIN lock.dlcs \cup DOMAIN lock.retained
BY DEF LockSound, LockTyped, LockExplained, PairVerified

\* What is shown of the lock each command writes.
Follows(old, new) == LockTyped(new) /\ LockExplained(new) /\ Carried(old, new)

\* One record, pushed for one DLC, explains the lock that differs there.
LEMMA PushedExplained ==
  ASSUME NEW h \in Seq(HistoryRecords), NEW r \in HistoryRecords, NEW d, NEW old, NEW new,
         NEW S,
         \A x \in Dlcs : Explained(h, old, x),
         \A i \in 1..Len(h) : h[i].dlc \in S,
         r.dlc = d, d \in S, Explained(Append(h, r), new, d),
         \A x \in Dlcs \ {d} : /\ x \in DOMAIN new <=> x \in DOMAIN old
                               /\ x \in DOMAIN old => new[x] = old[x]
  PROVE  /\ Append(h, r) \in Seq(HistoryRecords)
         /\ \A x \in Dlcs : Explained(Append(h, r), new, x)
         /\ \A i \in 1..Len(Append(h, r)) : Append(h, r)[i].dlc \in S
<1>1. ASSUME NEW x \in Dlcs
      PROVE  Explained(Append(h, r), new, x)
  <2>1. CASE x = d
    BY <2>1
  <2>2. CASE x # d
    <3>1. Explained(h, old, x) /\ r.dlc # x
      BY <2>2
    <3>2. x \in DOMAIN new <=> x \in DOMAIN old
      BY <2>2
    <3>3. x \in DOMAIN old => /\ new[x].version = old[x].version
                              /\ new[x].enabled = old[x].enabled
      BY <2>2
    <3> QED
      BY <3>1, <3>2, <3>3, ExplainedByOther
  <2> QED
    BY <2>1, <2>2
<1> DEFINE g == Append(h, r)
<1>2. /\ g \in Seq(HistoryRecords)
      /\ Len(h) \in Nat /\ Len(g) = Len(h) + 1
      /\ \A i \in 1..Len(h) : g[i] = h[i]
      /\ g[Len(h) + 1] = r
  BY Extended
<1> HIDE DEF g
<1>3. \A i \in 1..Len(g) : g[i].dlc \in S
  BY <1>2
<1> QED
  BY <1>1, <1>2, <1>3 DEF g

\* run, Add.
LEMMA AddFollows ==
  ASSUME NEW engine \in Engines, NEW intent, NEW lock, NEW d \in Dlcs,
         NEW requirement \in Requirements, LockSound(lock), PairVerified(engine, intent, lock),
         NEW o \in Add(engine, intent, lock, d, requirement)
  PROVE  Follows(lock, o.lock)
<1> DEFINE fresh == Resolved(engine, d, requirement, TRUE)
           new == IF d \in DOMAIN lock.retained
                  THEN [fresh EXCEPT !.state = lock.retained[d].state]
                  ELSE fresh
           r == HistoryRecord("installed", d, Missing, new.version, engine)
           dlcs == Update(lock.dlcs, d, new)
           retained == Restrict(lock.retained, Dlcs \ {d})
           h == Append(lock.history, r)
           after == [lock EXCEPT !.dlcs = dlcs, !.retained = retained, !.history = h]
<1>1. o.lock = after /\ d \notin DOMAIN intent /\ Catalog[engine][d] # Missing
  BY DEF Add, When, Pair, Resolves, PushHistory
<1>2. requirement \in SUBSET Versions
  BY DlcAssumption
<1>3. fresh \in LockRecords /\ fresh.enabled = TRUE
  <2>1. \A enabled \in BOOLEAN :
          LET x == Resolved(engine, d, requirement, enabled)
          IN  x \in LockRecords /\ x.enabled = enabled
    BY <1>1, <1>2, ResolvedTyped
  <2> QED
    BY <2>1
<1> HIDE DEF fresh
<1>4. /\ new \in LockRecords /\ new.enabled = TRUE
      /\ d \in DOMAIN lock.retained => new.state = lock.retained[d].state
  <2>1. CASE d \in DOMAIN lock.retained
    <3>1. lock.retained[d].state \in Nat \cup {Missing}
      BY <2>1, Loaded DEF RetainedRecords
    <3>2. new = [fresh EXCEPT !.state = lock.retained[d].state]
      BY <2>1
    <3> HIDE DEF new
    <3> QED
      BY <1>3, <3>1, <3>2 DEF LockRecords
  <2>2. CASE d \notin DOMAIN lock.retained
    BY <1>3, <2>2
  <2> QED
    BY <2>1, <2>2
<1> HIDE DEF new
<1>5. r \in HistoryRecords /\ r.dlc = d /\ r.action = "installed" /\ r.to = new.version
  <2>1. new.version \in Versions \cup {Missing} /\ Missing \in Versions \cup {Missing}
    BY <1>4 DEF LockRecords
  <2> QED
    BY <2>1, RecordTyped DEF HistoryRecords, HistoryRecord
<1> HIDE DEF r
<1>6. /\ DOMAIN dlcs = DOMAIN lock.dlcs \cup {d} /\ dlcs[d] = new
      /\ \A x \in DOMAIN lock.dlcs : x # d => dlcs[x] = lock.dlcs[x]
      /\ DOMAIN retained = (DOMAIN lock.retained \cap Dlcs) \ {d}
      /\ \A x \in DOMAIN retained : retained[x] = lock.retained[x]
  BY DEF Update, Restrict
<1> HIDE DEF dlcs, retained
<1>7. d \notin DOMAIN lock.dlcs
  BY <1>1, Loaded
<1>8. Explained(h, dlcs, d)
  <2>1. d \in DOMAIN dlcs /\ dlcs[d].version = r.to
    BY <1>5, <1>6
  <2>2. dlcs[d].enabled <=> r.action # "disabled"
    BY <1>4, <1>5, <1>6
  <2>3. lock.history \in Seq(HistoryRecords)
    BY Loaded
  <2> QED
    BY <1>5, <2>1, <2>2, <2>3, ExplainedByOwn
<1> DEFINE S == DOMAIN dlcs \cup DOMAIN retained
<1>9. /\ \A x \in Dlcs : Explained(lock.history, lock.dlcs, x)
      /\ \A i \in 1..Len(lock.history) : lock.history[i].dlc \in S
      /\ lock.history \in Seq(HistoryRecords)
  BY <1>6, Loaded
<1>10. /\ h \in Seq(HistoryRecords)
       /\ \A x \in Dlcs : Explained(h, dlcs, x)
       /\ \A i \in 1..Len(h) : h[i].dlc \in S
  <2>1. \A x \in Dlcs \ {d} : /\ x \in DOMAIN dlcs <=> x \in DOMAIN lock.dlcs
                              /\ x \in DOMAIN lock.dlcs => dlcs[x] = lock.dlcs[x]
    BY <1>6
  <2>2. d \in S
    BY <1>6
  <2> HIDE DEF S
  <2> QED
    BY <1>5, <1>8, <1>9, <2>1, <2>2, PushedExplained
<1> HIDE DEF h
<1>11. /\ DOMAIN after = {"engine", "source", "dlcs", "retained", "history"}
       /\ after.dlcs = dlcs /\ after.retained = retained /\ after.history = h
       /\ after.engine \in Engines
  BY Loaded
<1> HIDE DEF after
<1>12. LockTyped(after)
  BY <1>4, <1>6, <1>10, <1>11, Loaded DEF LockTyped
<1>13. LockExplained(after)
  BY <1>10, <1>11 DEF LockExplained
<1>14. Carried(lock, after)
  BY <1>4, <1>6, <1>11, Loaded DEF Carried
<1> QED
  BY <1>1, <1>12, <1>13, <1>14 DEF Follows, after
\* set_enabled.
LEMMA SetEnabledFollows ==
  ASSUME NEW engine \in Engines, NEW intent, NEW lock, NEW d \in Dlcs,
         NEW enabled \in BOOLEAN, LockSound(lock), PairVerified(engine, intent, lock),
         NEW o \in SetEnabled(engine, intent, lock, d, enabled)
  PROVE  Follows(lock, o.lock)
<1> DEFINE version == lock.dlcs[d].version
           action == IF enabled THEN "enabled" ELSE "disabled"
           r == HistoryRecord(action, d, version, version, engine)
           dlcs == [lock.dlcs EXCEPT ![d].enabled = enabled]
           h == Append(lock.history, r)
           after == [lock EXCEPT !.dlcs[d].enabled = enabled, !.history = h]
<1>1. o.lock = after /\ d \in DOMAIN intent
  BY DEF SetEnabled, When, Pair, PushHistory
<1>2. d \in DOMAIN lock.dlcs /\ lock.dlcs[d] \in LockRecords
  BY <1>1, Loaded
<1>3. /\ DOMAIN dlcs = DOMAIN lock.dlcs
      /\ \A x \in DOMAIN lock.dlcs : x # d => dlcs[x] = lock.dlcs[x]
      /\ dlcs[d] \in LockRecords /\ dlcs[d].version = version /\ dlcs[d].enabled = enabled
      /\ dlcs[d].state = lock.dlcs[d].state
  BY <1>2 DEF LockRecords
<1>4. r \in HistoryRecords /\ r.dlc = d /\ r.action = action /\ r.to = version
  <2>1. version \in Versions \cup {Missing}
    BY <1>2 DEF LockRecords
  <2>2. action \in {"installed", "enabled", "disabled", "upgraded", "removed"}
    OBVIOUS
  <2> HIDE DEF version, action
  <2> QED
    BY <2>1, <2>2, RecordTyped DEF HistoryRecords, HistoryRecord
<1>5. /\ DOMAIN after = {"engine", "source", "dlcs", "retained", "history"}
      /\ after.dlcs = dlcs /\ after.retained = lock.retained /\ after.history = h
      /\ after.engine = lock.engine
  BY Loaded
<1>6. /\ r.action \notin {"removed", "upgraded"}
      /\ enabled <=> r.action # "disabled"
  <2>1. enabled => action = "enabled"
    OBVIOUS
  <2>2. ~enabled => action = "disabled"
    OBVIOUS
  <2> HIDE DEF action, r
  <2> QED
    BY <1>4, <2>1, <2>2
<1> HIDE DEF r, version, dlcs
<1>7. Explained(h, dlcs, d)
  <2>1. d \in DOMAIN dlcs /\ dlcs[d].version = r.to
    BY <1>2, <1>3, <1>4
  <2>2. dlcs[d].enabled <=> r.action # "disabled"
    BY <1>3, <1>6
  <2>3. lock.history \in Seq(HistoryRecords)
    BY Loaded
  <2> QED
    BY <1>4, <1>6, <2>1, <2>2, <2>3, ExplainedByOwn
<1> DEFINE S == DOMAIN dlcs \cup DOMAIN lock.retained
<1>8. /\ \A x \in Dlcs : Explained(lock.history, lock.dlcs, x)
      /\ \A i \in 1..Len(lock.history) : lock.history[i].dlc \in S
      /\ lock.history \in Seq(HistoryRecords)
  BY <1>3, Loaded
<1>9. /\ h \in Seq(HistoryRecords)
      /\ \A x \in Dlcs : Explained(h, dlcs, x)
      /\ \A i \in 1..Len(h) : h[i].dlc \in S
  <2>1. \A x \in Dlcs \ {d} : /\ x \in DOMAIN dlcs <=> x \in DOMAIN lock.dlcs
                              /\ x \in DOMAIN lock.dlcs => dlcs[x] = lock.dlcs[x]
    BY <1>3
  <2>2. d \in S
    BY <1>2, <1>3
  <2> HIDE DEF S
  <2> QED
    BY <1>4, <1>7, <1>8, <2>1, <2>2, PushedExplained
<1> HIDE DEF h, after
<1>10. \A x \in DOMAIN dlcs : dlcs[x] \in LockRecords
  BY <1>3, Loaded
<1>11. LockTyped(after)
  BY <1>3, <1>5, <1>9, <1>10, Loaded DEF LockTyped
<1>12. LockExplained(after)
  BY <1>5, <1>9 DEF LockExplained
<1>13. Carried(lock, after)
  BY <1>3, <1>5, Loaded DEF Carried
<1> QED
  BY <1>1, <1>11, <1>12, <1>13 DEF Follows, after

\* remove.
LEMMA RemoveFollows ==
  ASSUME NEW engine \in Engines, NEW intent, NEW lock, NEW d \in Dlcs,
         LockSound(lock), PairVerified(engine, intent, lock),
         NEW o \in Remove(engine, intent, lock, d)
  PROVE  Follows(lock, o.lock)
<1> DEFINE version == lock.dlcs[d].version
           kept == [version |-> version, state |-> lock.dlcs[d].state]
           r == HistoryRecord("removed", d, version, Missing, engine)
           dlcs == Restrict(lock.dlcs, Dlcs \ {d})
           retained == Update(lock.retained, d, kept)
           h == Append(lock.history, r)
           after == [lock EXCEPT !.dlcs = dlcs, !.retained = retained, !.history = h]
<1>1. o.lock = after /\ d \in DOMAIN lock.dlcs
  BY DEF Remove, When, Pair, PushHistory
<1>2. kept \in RetainedRecords /\ version \in Versions \cup {Missing}
  <2>1. lock.dlcs[d] \in LockRecords
    BY <1>1, Loaded
  <2> QED
    BY <2>1 DEF LockRecords, RetainedRecords
<1>3. r \in HistoryRecords /\ r.dlc = d /\ r.action = "removed"
  <2>1. Missing \in Versions \cup {Missing}
    OBVIOUS
  <2> HIDE DEF version
  <2> QED
    BY <1>2, <2>1, RecordTyped DEF HistoryRecords, HistoryRecord
<1>4. /\ DOMAIN dlcs = (DOMAIN lock.dlcs \cap Dlcs) \ {d}
      /\ \A x \in DOMAIN dlcs : dlcs[x] = lock.dlcs[x]
      /\ DOMAIN retained = DOMAIN lock.retained \cup {d}
      /\ retained[d] = kept
      /\ \A x \in DOMAIN lock.retained : x # d => retained[x] = lock.retained[x]
  BY DEF Update, Restrict
<1>5. /\ DOMAIN after = {"engine", "source", "dlcs", "retained", "history"}
      /\ after.dlcs = dlcs /\ after.retained = retained /\ after.history = h
      /\ after.engine = lock.engine
  BY Loaded
<1> HIDE DEF r, dlcs, retained
<1> DEFINE S == DOMAIN dlcs \cup DOMAIN retained
<1>6. /\ \A x \in Dlcs : Explained(lock.history, lock.dlcs, x)
      /\ \A i \in 1..Len(lock.history) : lock.history[i].dlc \in S
      /\ lock.history \in Seq(HistoryRecords)
  BY <1>4, Loaded
<1>7. Explained(h, dlcs, d)
  BY <1>3, <1>4, <1>6, ExplainedByRemoval
<1>8. /\ h \in Seq(HistoryRecords)
      /\ \A x \in Dlcs : Explained(h, dlcs, x)
      /\ \A i \in 1..Len(h) : h[i].dlc \in S
  <2>1. \A x \in Dlcs \ {d} : /\ x \in DOMAIN dlcs <=> x \in DOMAIN lock.dlcs
                              /\ x \in DOMAIN lock.dlcs => dlcs[x] = lock.dlcs[x]
    BY <1>4
  <2>2. d \in S
    BY <1>4
  <2> HIDE DEF S
  <2> QED
    <3> DEFINE older == lock.history
               before == lock.dlcs
    <3>1. /\ older \in Seq(HistoryRecords) /\ r \in HistoryRecords /\ r.dlc = d
          /\ \A x \in Dlcs : Explained(older, before, x)
          /\ \A i \in 1..Len(older) : older[i].dlc \in S
          /\ Explained(Append(older, r), dlcs, d) /\ h = Append(older, r)
      BY <1>3, <1>6, <1>7
    <3> HIDE DEF older, before, h
    <3>2. \A x \in Dlcs \ {d} : /\ x \in DOMAIN dlcs <=> x \in DOMAIN before
                                /\ x \in DOMAIN before => dlcs[x] = before[x]
      BY <2>1 DEF before
    <3>3. /\ Append(older, r) \in Seq(HistoryRecords)
          /\ \A x \in Dlcs : Explained(Append(older, r), dlcs, x)
          /\ \A i \in 1..Len(Append(older, r)) : Append(older, r)[i].dlc \in S
      BY <3>1, <3>2, <2>2, PushedExplained
    <3> QED
      BY <3>1, <3>3
<1> HIDE DEF h, after
<1>9. LockTyped(after)
  <2> HIDE DEF kept
  <2> QED
    BY <1>2, <1>4, <1>5, <1>8, Loaded DEF LockTyped
<1>10. LockExplained(after)
  BY <1>5, <1>8 DEF LockExplained
<1>11. Carried(lock, after)
  BY <1>4, <1>5, Loaded DEF Carried
<1> QED
  BY <1>1, <1>9, <1>10, <1>11 DEF Follows, after

\* A re-resolved composition: the same DLCs, the same switches, no version
\* below the one before, and history records of those that rose.
LEMMA ReresolvedFollows ==
  ASSUME NEW engine \in Engines, NEW intent, NEW lock, NEW dlcs, NEW after,
         LockSound(lock), PairVerified(engine, intent, lock),
         DOMAIN dlcs = DOMAIN lock.dlcs,
         \A d \in DOMAIN dlcs : /\ dlcs[d] \in LockRecords
                                /\ dlcs[d].enabled = lock.dlcs[d].enabled
                                /\ dlcs[d].version >= lock.dlcs[d].version,
         DOMAIN after = {"engine", "source", "dlcs", "retained", "history"},
         after.engine \in Engines, after.dlcs = dlcs, after.retained = lock.retained,
         after.history = PushUpgrades(lock, dlcs, engine)
  PROVE  Follows(lock, after)
<1> DEFINE h == PushUpgrades(lock, dlcs, engine)
<1>1. /\ h \in Seq(HistoryRecords)
      /\ \A d \in Dlcs : Explained(h, dlcs, d)
      /\ \A i \in 1..Len(h) : h[i].dlc \in DOMAIN dlcs \cup DOMAIN lock.retained
  BY UpgradesExplained
<1> HIDE DEF h
<1>2. LockTyped(after)
  BY <1>1, Loaded DEF LockTyped, h
<1>3. LockExplained(after)
  BY <1>1 DEF LockExplained, h
<1>4. Carried(lock, after)
  BY Loaded DEF Carried
<1> QED
  BY <1>2, <1>3, <1>4 DEF Follows
\* One DLC, re-resolved.
LEMMA ReresolvedTyped ==
  ASSUME NEW engine \in Engines, NEW d \in Dlcs, NEW old \in LockRecords,
         NEW requirement \in SUBSET Versions, Resolves(engine, d, requirement),
         MayReplace(old, Reresolved(engine, old, d, requirement))
  PROVE  LET new == Reresolved(engine, old, d, requirement)
         IN  new \in LockRecords /\ new.enabled = old.enabled /\ new.version >= old.version
<1>1. old.enabled \in BOOLEAN /\ Catalog[engine][d] # Missing
  BY DEF LockRecords, Resolves
<1> DEFINE e == old.enabled
<1> HIDE DEF e
<1>2. LET new == Resolved(engine, d, requirement, e) IN new \in LockRecords /\ new.enabled = e
  BY <1>1, ResolvedTyped DEF e
<1> QED
  BY <1>2 DEF Reresolved, MayReplace, e

\* upgrade.
LEMMA UpgradeFollows ==
  ASSUME NEW engine \in Engines, NEW intent, NEW lock, NEW targets,
         NEW requirement \in Requirements \cup {Missing},
         LockSound(lock), PairVerified(engine, intent, lock),
         NEW o \in Upgrade(engine, intent, lock, targets, requirement)
  PROVE  Follows(lock, o.lock)
<1> DEFINE wanted == [d \in DOMAIN intent |->
                        IF requirement = Missing THEN intent[d].version ELSE requirement]
           dlcs == [d \in DOMAIN lock.dlcs |->
                      IF d \in targets THEN Reresolved(engine, lock.dlcs[d], d, wanted[d])
                                       ELSE lock.dlcs[d]]
           h == PushUpgrades(lock, dlcs, engine)
           after == [lock EXCEPT !.dlcs = dlcs, !.history = h]
<1>1. /\ o.lock = after /\ targets \subseteq DOMAIN intent
      /\ \A d \in targets : /\ Resolves(engine, d, wanted[d])
                            /\ MayReplace(lock.dlcs[d], dlcs[d])
  <2> DEFINE i == [d \in DOMAIN intent |->
                     IF d \in targets THEN [intent[d] EXCEPT !.version = wanted[d]] ELSE intent[d]]
             c == /\ lock.engine = engine
                  /\ targets # {} /\ targets \subseteq DOMAIN intent
                  /\ \A d \in targets : /\ Resolves(engine, d, wanted[d])
                                        /\ MayReplace(lock.dlcs[d], dlcs[d])
                  /\ dlcs # lock.dlcs
  <2>1. o \in When(c, Pair(i, after))
    BY DEF Upgrade
  <2>2. c => targets \subseteq DOMAIN intent
             /\ \A d \in targets : /\ Resolves(engine, d, wanted[d])
                                   /\ MayReplace(lock.dlcs[d], dlcs[d])
    OBVIOUS
  <2> HIDE DEF c, i, after
  <2>3. c /\ o = Pair(i, after)
    BY <2>1 DEF When
  <2>4. o.lock = after
    BY <2>3 DEF Pair
  <2> HIDE DEF wanted, dlcs
  <2> QED
    BY <2>2, <2>3, <2>4
<1>2. ASSUME NEW d \in DOMAIN lock.dlcs
      PROVE  /\ dlcs[d] \in LockRecords /\ dlcs[d].enabled = lock.dlcs[d].enabled
             /\ dlcs[d].version >= lock.dlcs[d].version
  <2>1. lock.dlcs[d] \in LockRecords /\ d \in Dlcs /\ d \in DOMAIN intent
    BY Loaded
  <2>2. CASE d \notin targets
    <3>1. dlcs[d] = lock.dlcs[d]
      BY <2>2
    <3>2. lock.dlcs[d].version \in Nat
      BY <2>1, DlcAssumption DEF LockRecords
    <3> QED
      BY <2>1, <3>1, <3>2
  <2>3. CASE d \in targets
    <3>1. wanted[d] \in SUBSET Versions
      <4>1. intent[d].version \in SUBSET Versions
        BY <2>1, Loaded DEF LockRecords
      <4>2. requirement # Missing => requirement \in SUBSET Versions
        BY DlcAssumption
      <4> QED
        BY <2>1, <4>1, <4>2
    <3>2. dlcs[d] = Reresolved(engine, lock.dlcs[d], d, wanted[d])
      BY <2>3
    <3>3. Resolves(engine, d, wanted[d]) /\ MayReplace(lock.dlcs[d], dlcs[d])
      BY <1>1, <2>3
    <3> HIDE DEF dlcs, wanted
    <3> QED
      BY <2>1, <3>1, <3>2, <3>3, ReresolvedTyped
  <2> QED
    BY <2>2, <2>3
<1>3. DOMAIN dlcs = DOMAIN lock.dlcs
  OBVIOUS
<1> HIDE DEF dlcs
<1>4. /\ DOMAIN after = {"engine", "source", "dlcs", "retained", "history"}
      /\ after.dlcs = dlcs /\ after.retained = lock.retained /\ after.history = h
      /\ after.engine \in Engines
  BY Loaded
<1> HIDE DEF after
<1>5. Follows(lock, after)
  BY <1>2, <1>3, <1>4, ReresolvedFollows
<1> QED
  BY <1>1, <1>5 DEF after

\* reconcile.
LEMMA ReconcileFollows ==
  ASSUME NEW engine \in Engines, NEW intent, NEW lock,
         LockSound(lock), PairVerified(engine, intent, lock),
         NEW o \in Reconcile(engine, intent, lock)
  PROVE  Follows(lock, o.lock)
<1> DEFINE dlcs == [d \in DOMAIN lock.dlcs |->
                      Reresolved(engine, lock.dlcs[d], d, intent[d].version)]
           h == PushUpgrades(lock, dlcs, engine)
           after == [lock EXCEPT !.engine = engine, !.source = "release", !.dlcs = dlcs,
                                 !.history = h]
<1>1. /\ o.lock = after
      /\ \A d \in DOMAIN intent : /\ Resolves(engine, d, intent[d].version)
                                  /\ MayReplace(lock.dlcs[d], dlcs[d])
  BY DEF Reconcile, When, Pair
<1>2. ASSUME NEW d \in DOMAIN lock.dlcs
      PROVE  /\ dlcs[d] \in LockRecords /\ dlcs[d].enabled = lock.dlcs[d].enabled
             /\ dlcs[d].version >= lock.dlcs[d].version
  <2>1. lock.dlcs[d] \in LockRecords /\ d \in Dlcs /\ d \in DOMAIN intent
    BY Loaded
  <2>2. intent[d].version \in SUBSET Versions
    BY <2>1, Loaded DEF LockRecords
  <2>3. dlcs[d] = Reresolved(engine, lock.dlcs[d], d, intent[d].version)
    OBVIOUS
  <2>4. Resolves(engine, d, intent[d].version) /\ MayReplace(lock.dlcs[d], dlcs[d])
    BY <1>1, <2>1
  <2> HIDE DEF dlcs
  <2> QED
    BY <2>1, <2>2, <2>3, <2>4, ReresolvedTyped
<1>3. DOMAIN dlcs = DOMAIN lock.dlcs
  OBVIOUS
<1> HIDE DEF dlcs
<1>4. /\ DOMAIN after = {"engine", "source", "dlcs", "retained", "history"}
      /\ after.dlcs = dlcs /\ after.retained = lock.retained /\ after.history = h
      /\ after.engine \in Engines
  BY Loaded
<1> HIDE DEF after
<1>5. Follows(lock, after)
  BY <1>2, <1>3, <1>4, ReresolvedFollows
<1> QED
  BY <1>1, <1>5 DEF after

\* run: whatever the command.
LEMMA OutcomeFollows ==
  ASSUME NEW engine \in Engines, NEW intent, NEW lock, NEW command \in Commands,
         LockSound(lock), PairVerified(engine, intent, lock),
         NEW o \in Outcome(engine, command, intent, lock)
  PROVE  Follows(lock, o.lock)
<1>1. CASE command.op = "add"
  <2>1. command.dlc \in Dlcs /\ command.requirement \in Requirements
    BY <1>1 DEF Commands
  <2> QED
    BY <1>1, <2>1, AddFollows DEF Outcome
<1>2. CASE command.op \in {"enable", "disable"}
  <2>1. command.dlc \in Dlcs
    BY <1>2 DEF Commands
  <2>2. \E enabled \in BOOLEAN : o \in SetEnabled(engine, intent, lock, command.dlc, enabled)
    BY <1>2 DEF Outcome
  <2> QED
    BY <2>1, <2>2, SetEnabledFollows
<1>3. CASE command.op = "remove"
  <2>1. command.dlc \in Dlcs
    BY <1>3 DEF Commands
  <2> QED
    BY <1>3, <2>1, RemoveFollows DEF Outcome
<1>4. CASE command.op \in {"upgrade", "require", "upgradeAll"}
  <2>1. command.op = "require" => command.requirement \in Requirements
    BY DEF Commands
  <2>2. \E targets : \E requirement \in Requirements \cup {Missing} :
          o \in Upgrade(engine, intent, lock, targets, requirement)
    BY <1>4, <2>1 DEF Outcome
  <2> QED
    BY <2>2, UpgradeFollows
<1>5. CASE command.op = "reconcile"
  BY <1>5, ReconcileFollows DEF Outcome
<1> QED
  BY <1>1, <1>2, <1>3, <1>4, <1>5 DEF Commands
---------------------------------------------------------------------------
(* The contract. *)

\* What is no file is no lock, no environment and no intent.
LEMMA Present ==
  /\ \A lock : LockTyped(lock) => lock # NoFile
  /\ \A env : EnvTyped(env) => env # NoFile
  /\ \A engine, intent, lock :
       PairVerified(engine, intent, lock) /\ LockTyped(lock) => intent # NoFile
<1>1. DOMAIN NoFile = {"absent"} /\ "absent" \notin Dlcs
  BY DlcAssumption DEF NoFile
<1>2. \A lock : LockTyped(lock) => lock # NoFile
  BY <1>1 DEF LockTyped
<1>3. \A env : EnvTyped(env) => env # NoFile
  BY <1>1 DEF EnvTyped
<1>4. ASSUME NEW engine, NEW intent, NEW lock, PairVerified(engine, intent, lock), LockTyped(lock)
      PROVE  intent # NoFile
  <2>1. DOMAIN intent = DOMAIN lock.dlcs
    BY <1>4 DEF PairVerified
  <2>2. DOMAIN lock.dlcs \subseteq Dlcs
    BY <1>4 DEF LockTyped
  <2> QED
    BY <1>1, <2>1, <2>2
<1> QED
  BY <1>2, <1>3, <1>4

\* A lock keeps its own state.
LEMMA CarriedSame ==
  ASSUME NEW a, NEW b, LockSound(a), b.dlcs = a.dlcs, b.retained = a.retained
  PROVE  Carried(a, b)
BY DEF LockSound, Carried

\* What is carried from one lock to another is carried back.
LEMMA CarriedBack ==
  ASSUME NEW a, NEW b, Carried(a, b)
  PROVE  Carried(b, a)
BY DEF Carried

\* The contract that is written for a verified pair is whole.
LEMMA WrittenWhole ==
  ASSUME NEW engine \in Engines, NEW intent, NEW lock,
         LockTyped(lock), LockExplained(lock), PairVerified(engine, intent, lock),
         NEW env, EnvTyped(env), env.ids \in {Missing, EnabledDlcs(lock)}
  PROVE  WholeContract(Contract(intent, lock, env))
<1> DEFINE c == Contract(intent, lock, env)
<1>1. c["intent"] = intent /\ c["lock"] = lock /\ c["env"] = env /\ IsContract(c)
  BY DEF Contract, IsContract, Names
<1> HIDE DEF c
<1>2. LockSound(lock)
  BY DEF LockSound, PairVerified, LockValid
<1>3. Coherent(c)
  BY <1>1, Present DEF Coherent
<1> QED
  BY <1>1, <1>2, <1>3 DEF WholeContract, c

\* The environment that bootstrap and persist render.
LEMMA ProjectionTyped ==
  ASSUME NEW lock, LockTyped(lock)
  PROVE  EnvTyped(Projection(lock)) /\ Projection(lock).ids = EnabledDlcs(lock)
BY DEF EnvTyped, Projection, EnabledDlcs, LockTyped

\* A whole contract, file by file.
LEMMA WholeFiles ==
  ASSUME NEW c, WholeContract(c)
  PROVE  /\ c["intent"] # NoFile /\ c["lock"] # NoFile /\ c["env"] # NoFile
         /\ LockSound(c["lock"]) /\ LockTyped(c["lock"]) /\ EnvTyped(c["env"])
         /\ Coherent(c) /\ IsContract(c)
BY DEF WholeContract, Coherent, LockSound

\* Contracts with the same files are the same.
LEMMA SameContract ==
  ASSUME NEW a, NEW b, IsContract(a), IsContract(b),
         a["intent"] = b["intent"], a["lock"] = b["lock"], a["env"] = b["env"]
  PROVE  a = b
BY DEF IsContract, Names

---------------------------------------------------------------------------
(* The steps keep the invariant and carry the state. *)

\* What every step is shown to keep.
LockCarried ==
  files["lock"] # NoFile /\ files'["lock"] # NoFile => Carried(files["lock"], files'["lock"])
Kept == Inv' /\ LockCarried

\* A step that leaves the files alone carries their state.
LEMMA UntouchedCarried ==
  ASSUME Inv, UNCHANGED files
  PROVE  LockCarried /\ FilesInv'
<1>1. files["lock"] # NoFile => LockSound(files["lock"])
  BY DEF Inv, FilesInv
<1>2. LockCarried
  BY <1>1, CarriedSame DEF LockCarried
<1>3. FilesInv'
  BY DEF Inv, FilesInv
<1> QED
  BY <1>2, <1>3

\* A command that ends owns nothing and leaves the deployment settled.
LEMMA EndKeeps ==
  ASSUME Inv, Serialised, NEW p \in Processes, End(p), FilesInv', BackupsInv',
         faults' \in 0..MaxFaults, \A b \in backups' : b.owner # p, SettledInv'
  PROVE  Inv'
<1>1. DOMAIN proc = Processes
  BY DEF Inv, ProcInv
<1>2. \A q \in Processes : q = p
  BY DEF Serialised
<1>3. proc'[p] = Idle /\ DOMAIN proc' = Processes
  BY <1>1 DEF End
<1>4. IsContract(NoContract)
  BY DEF IsContract, NoContract, Contract, Names
<1>5. /\ DOMAIN Idle = {"pc", "read", "new", "step"} /\ Idle.pc = "idle" /\ Idle.step = 0
      /\ Idle.read = NoContract /\ Idle.new = NoContract
  BY DEF Idle
<1>6. ProcInv'
  <2>1. "idle" \in Phases /\ "idle" # "rollback" /\ 0 \in 0..4
    BY DEF Phases
  <2> QED
    BY <1>2, <1>3, <1>4, <1>5, <2>1 DEF ProcInv
<1>7. proc'[p].pc = "idle"
  BY <1>3, <1>5
<1>8. PhaseInv(p)'
  <2>1. Owned(p)' = {}
    BY DEF Owned
  <2>2. CreatingInv(p)' /\ ChangingInv(p)' /\ TransactionInv(p)'
    BY <1>7 DEF CreatingInv, ChangingInv, TransactionInv
  <2> QED
    BY <2>1, <2>2 DEF PhaseInv
<1> QED
  BY <1>2, <1>6, <1>8 DEF Inv

\* What Begin makes of a process.
LEMMA Begun ==
  ASSUME Inv, NEW p \in Processes, NEW pc, NEW read, NEW new, Begin(p, pc, read, new)
  PROVE  /\ DOMAIN proc' = Processes /\ DOMAIN proc'[p] = {"pc", "read", "new", "step"}
         /\ proc'[p].pc = pc /\ proc'[p].read = read /\ proc'[p].new = new /\ proc'[p].step = 1
BY DEF Inv, ProcInv, Begin

\* What Goto makes of a process.
LEMMA Gone ==
  ASSUME Inv, NEW p \in Processes, NEW pc, NEW step, Goto(p, pc, step)
  PROVE  /\ DOMAIN proc' = Processes /\ DOMAIN proc'[p] = {"pc", "read", "new", "step"}
         /\ proc'[p].pc = pc /\ proc'[p].step = step
         /\ proc'[p].read = proc[p].read /\ proc'[p].new = proc[p].new
BY DEF Inv, ProcInv, Goto

\* The files and the backups as they were, and no new fault.
LEMMA StillSettled ==
  ASSUME Inv, UNCHANGED <<files, backups, faults>>
  PROVE  FilesInv' /\ BackupsInv' /\ (SettledInv => SettledInv') /\ faults' \in 0..MaxFaults
BY DEF Inv, FilesInv, BackupsInv, SettledInv, Choices, ProcInv

\* bootstrap, before it writes.
LEMMA StartBootstrapKeeps ==
  ASSUME Inv, Serialised, NEW p \in Processes, NEW e \in Engines, NEW selected \in SUBSET Dlcs,
         NEW r \in Requirements, StartBootstrap(p, e, selected, r)
  PROVE  Kept
<1> DEFINE requirement == [d \in selected |-> r]
           lock == NewLock(e, selected, requirement, "source-checkout")
           new == Contract(NewIntent(lock), lock, Projection(lock))
<1>1. /\ proc[p] = Idle /\ files = NoContract /\ LockValid(lock)
      /\ \A d \in selected : Catalog[e][d] # Missing
      /\ Begin(p, "write", NoContract, new)
      /\ UNCHANGED <<files, backups, faults>>
  BY DEF StartBootstrap
<1>2. requirement \in [selected -> SUBSET Versions]
  BY DlcAssumption
<1> HIDE DEF requirement
<1>3. LockSound(lock) /\ BundledManifests(e, lock) /\ EnabledDlcs(lock) = selected
  BY <1>1, <1>2, NewLockSound
<1>4. DOMAIN lock.dlcs = selected
  BY DEF NewLock
<1>5. \A d \in selected : lock.dlcs[d].enabled
  BY <1>3, <1>4 DEF EnabledDlcs
<1> HIDE DEF lock
<1>6. \A d \in selected : lock.dlcs[d].enabled = TRUE
  <2>1. \A d \in selected : lock.dlcs[d] \in LockRecords
    BY <1>3, <1>4 DEF LockSound, LockTyped
  <2> QED
    BY <1>5, <2>1 DEF LockRecords
<1>7. PairVerified(e, NewIntent(lock), lock)
  <2>1. NewIntent(lock) = [d \in DOMAIN lock.dlcs |->
          [version |-> lock.dlcs[d].requested, enabled |-> lock.dlcs[d].enabled]]
    BY <1>4, <1>6 DEF NewIntent
  <2> QED
    BY <1>1, <1>3, <2>1 DEF PairVerified
<1>8. WholeContract(new)
  <2>1. EnvTyped(Projection(lock)) /\ Projection(lock).ids = EnabledDlcs(lock)
    BY <1>3, ProjectionTyped DEF LockSound
  <2>2. LockTyped(lock) /\ LockExplained(lock)
    BY <1>3 DEF LockSound
  <2> QED
    BY <1>7, <2>1, <2>2, WrittenWhole
<1> HIDE DEF new
<1>9. /\ DOMAIN proc' = Processes /\ DOMAIN proc'[p] = {"pc", "read", "new", "step"}
      /\ proc'[p].pc = "write" /\ proc'[p].read = NoContract /\ proc'[p].new = new
      /\ proc'[p].step = 1
  BY <1>1, Begun
<1>10. \A q \in Processes : q = p
  BY DEF Serialised
<1>11. \A name \in Names : files[name] = NoFile
  BY <1>1 DEF NoContract, Contract, Names
<1>12. Owned(p) = {} /\ SettledInv
  BY <1>1 DEF Inv, PhaseInv, Idle
<1>13. FilesInv' /\ BackupsInv' /\ SettledInv' /\ faults' \in 0..MaxFaults
  BY <1>1, <1>12, StillSettled
<1>14. ProcInv'
  <2>1. "write" \in Phases /\ "write" # "rollback" /\ 1 \in 0..4
    BY DEF Phases
  <2>2. IsContract(NoContract) /\ IsContract(new)
    BY <1>8 DEF WholeContract, IsContract, NoContract, Contract, Names
  <2> QED
    BY <1>9, <1>10, <1>13, <2>1, <2>2 DEF ProcInv
<1>15. CreatingInv(p)'
  <2>1. \A i \in 1..3 : files'[BootstrapOrder[i]] = NoFile /\ ~(i < 1)
    BY <1>1, <1>11 DEF BootstrapOrder, Names
  <2> QED
    BY <1>8, <1>9, <2>1 DEF CreatingInv
<1>16. ChangingInv(p)' /\ TransactionInv(p)'
  BY <1>9 DEF ChangingInv, TransactionInv
<1>17. Owned(p)' = {}
  BY <1>1, <1>12 DEF Owned
<1>18. Inv'
  BY <1>10, <1>13, <1>14, <1>15, <1>16, <1>17 DEF Inv, PhaseInv
<1> QED
  BY <1>1, <1>18, UntouchedCarried DEF Kept
\* Without a lock there are no backups, and nothing to settle.
LEMMA NoLockYet ==
  ASSUME Inv, files["lock"] = NoFile, UNCHANGED backups
  PROVE  backups = {} /\ BackupsInv'
BY DEF Inv, BackupsInv

\* bootstrap writes a file.
LEMMA WriteNewKeeps ==
  ASSUME Inv, Serialised, NEW p \in Processes, WriteNew(p)
  PROVE  Kept
<1> DEFINE new == proc[p].new
           step == proc[p].step
           name == BootstrapOrder[step]
<1>1. /\ proc[p].pc = "fill" /\ step \in 1..3 /\ WholeContract(new)
      /\ \A i \in 1..3 : files[BootstrapOrder[i]] =
           IF i < step THEN new[BootstrapOrder[i]] ELSE NoFile
  BY DEF WriteNew, Inv, PhaseInv, CreatingInv
<1>2. BootstrapOrder[1] = "env" /\ BootstrapOrder[2] = "intent" /\ BootstrapOrder[3] = "lock"
  BY DEF BootstrapOrder
<1>3. files[name] = NoFile /\ name \in Names
  BY <1>1, <1>2 DEF Names
<1>4. /\ files' = [files EXCEPT ![name] = new[name]]
      /\ IF step < 3 THEN Goto(p, "write", step + 1) ELSE End(p)
      /\ UNCHANGED <<backups, faults>>
  BY DEF WriteNew
<1>5. \A q \in Processes : q = p
  BY DEF Serialised
<1>6. files["lock"] = NoFile
  BY <1>1, <1>2
<1>7. backups = {} /\ BackupsInv'
  BY <1>4, <1>6, NoLockYet
<1>8. IsContract(files) /\ faults \in 0..MaxFaults
  BY DEF Inv, FilesInv, ProcInv
<1>9. /\ IsContract(files') /\ files'[name] = new[name]
      /\ \A other \in Names : other # name => files'[other] = files[other]
  BY <1>3, <1>4, <1>8 DEF IsContract
<1>10. /\ new["intent"] # NoFile /\ new["lock"] # NoFile /\ new["env"] # NoFile
       /\ LockSound(new["lock"]) /\ EnvTyped(new["env"]) /\ Coherent(new) /\ IsContract(new)
  BY <1>1, WholeFiles
<1>11. LockCarried
  BY <1>6 DEF LockCarried
<1>12. \A b \in backups' : b.owner # p
  BY <1>4, <1>7
<1> HIDE DEF new
<1>13. files'["env"] \in {NoFile, new["env"]}
  BY <1>1, <1>2, <1>3, <1>9 DEF Names
<1>14. CASE step < 3
  <2>1. step \in {1, 2} /\ step + 1 \in 1..3
    BY <1>1, <1>14
  <2>2. Goto(p, "write", step + 1)
    BY <1>4, <1>14
  <2> DEFINE next == step + 1
  <2> HIDE DEF next
  <2>3. /\ DOMAIN proc' = Processes /\ DOMAIN proc'[p] = {"pc", "read", "new", "step"}
        /\ proc'[p].pc = "write" /\ proc'[p].step = next
        /\ proc'[p].read = proc[p].read /\ proc'[p].new = new
    BY <2>2, Gone DEF new, next
  <2>4. files'["lock"] = NoFile
    BY <2>1, <1>2, <1>6, <1>9 DEF Names
  <2>5. FilesInv'
    BY <1>9, <1>10, <1>13, <2>4 DEF FilesInv
  <2>6. ProcInv'
    <3>1. "write" \in Phases /\ "write" # "rollback" /\ next \in 0..4
      BY <2>1 DEF Phases, next
    <3>2. IsContract(proc[p].read)
      BY DEF Inv, ProcInv
    <3> QED
      BY <1>4, <1>5, <1>8, <1>10, <2>3, <3>1, <3>2 DEF ProcInv
  <2>7. CreatingInv(p)'
    <3>1. \A i \in 1..3 : files'[BootstrapOrder[i]] =
            IF i < next THEN new[BootstrapOrder[i]] ELSE NoFile
      BY <1>1, <1>2, <1>9, <2>1 DEF next, Names
    <3>2. next \in 1..3
      BY <2>1 DEF next
    <3> QED
      BY <1>1, <2>3, <3>1, <3>2 DEF CreatingInv
  <2>8. ChangingInv(p)' /\ TransactionInv(p)' /\ Owned(p)' = {} /\ SettledInv'
    BY <1>12, <2>3, <2>4 DEF ChangingInv, TransactionInv, Owned, SettledInv
  <2>9. Inv'
    BY <1>5, <1>7, <2>5, <2>6, <2>7, <2>8 DEF Inv, PhaseInv
  <2> QED
    BY <1>11, <2>9 DEF Kept
<1>15. CASE step = 3
  <2>1. /\ files'["lock"] = new["lock"] /\ files'["intent"] = new["intent"]
        /\ files'["env"] = new["env"]
    BY <1>1, <1>2, <1>9, <1>15 DEF Names
  <2>2. files' = new
    BY <1>9, <1>10, <2>1, SameContract
  <2>3. FilesInv'
    BY <1>10, <2>2 DEF FilesInv
  <2>4. SettledInv'
    BY <1>10, <2>2 DEF SettledInv
  <2>5. End(p) /\ faults' \in 0..MaxFaults
    BY <1>4, <1>8, <1>15
  <2>6. Inv'
    BY <1>7, <1>12, <2>3, <2>4, <2>5, EndKeeps
  <2> QED
    BY <1>11, <2>6 DEF Kept
<1> QED
  BY <1>1, <1>14, <1>15

\* bootstrap opens the next file.
LEMMA CreateNewKeeps ==
  ASSUME Inv, TornInv, Serialised, NEW p \in Processes, CreateNew(p)
  PROVE  Kept
<1> DEFINE step == proc[p].step
           name == BootstrapOrder[step]
<1>1. /\ proc[p].pc = "write" /\ step \in 1..3 /\ WholeContract(proc[p].new)
      /\ \A i \in 1..3 : files[BootstrapOrder[i]] =
           IF i < step THEN proc[p].new[BootstrapOrder[i]] ELSE NoFile
  BY DEF CreateNew, Inv, PhaseInv, CreatingInv
<1>2. ~Exists(name)
  BY <1>1 DEF TornInv, Exists
<1>3. Goto(p, "fill", step) /\ UNCHANGED <<files, backups, faults>>
  BY <1>2 DEF CreateNew
<1>4. /\ DOMAIN proc' = Processes /\ DOMAIN proc'[p] = {"pc", "read", "new", "step"}
      /\ proc'[p].pc = "fill" /\ proc'[p].step = step
      /\ proc'[p].read = proc[p].read /\ proc'[p].new = proc[p].new
  BY <1>3, Gone
<1>5. \A q \in Processes : q = p
  BY DEF Serialised
<1>6. Owned(p) = {} /\ SettledInv
  BY <1>1 DEF Inv, PhaseInv
<1>7. FilesInv' /\ BackupsInv' /\ SettledInv' /\ faults' \in 0..MaxFaults
  BY <1>3, <1>6, StillSettled
<1>8. ProcInv'
  <2>1. "fill" \in Phases /\ "fill" # "rollback" /\ step \in 0..4
    BY <1>1 DEF Phases
  <2>2. IsContract(proc[p].read) /\ IsContract(proc[p].new)
    BY DEF Inv, ProcInv
  <2> QED
    BY <1>4, <1>5, <1>7, <2>1, <2>2 DEF ProcInv
<1>9. CreatingInv(p)'
  BY <1>1, <1>3, <1>4 DEF CreatingInv
<1>10. ChangingInv(p)' /\ TransactionInv(p)'
  BY <1>4 DEF ChangingInv, TransactionInv
<1>11. Owned(p)' = {}
  BY <1>3, <1>6 DEF Owned
<1>12. Inv'
  BY <1>5, <1>7, <1>8, <1>9, <1>10, <1>11 DEF Inv, PhaseInv
<1> QED
  BY <1>3, <1>12, UntouchedCarried DEF Kept

\* adopt, before it links.
LEMMA StartAdoptKeeps ==
  ASSUME Inv, Serialised, NEW p \in Processes, NEW e \in Engines, NEW features \in SUBSET Dlcs,
         StartAdopt(p, e, features)
  PROVE  Kept
<1> DEFINE selected == AdoptedDlcs(files["env"], features)
           requirement == [d \in selected |-> {Catalog[e][d].version}]
           lock == NewLock(e, selected, requirement, "adopted-v2")
           new == Contract(NewIntent(lock), lock, NoFile)
<1>1. /\ proc[p] = Idle /\ files["env"] # NoFile /\ files["intent"] = NoFile
      /\ files["lock"] = NoFile
      /\ \A d \in selected : Catalog[e][d] # Missing
      /\ PairVerified(e, NewIntent(lock), lock)
      /\ Begin(p, "linkIntent", NoContract, new)
      /\ UNCHANGED <<files, backups, faults>>
  BY DEF StartAdopt, Exists
<1>2. EnvTyped(files["env"]) /\ IsContract(files)
  BY <1>1 DEF Inv, FilesInv
<1>3. selected \in SUBSET Dlcs /\ files["env"].ids \in {Missing, selected}
  BY <1>2, DlcAssumption DEF AdoptedDlcs, EnvTyped
<1> HIDE DEF selected
<1>4. requirement \in [selected -> SUBSET Versions]
  <2>1. ASSUME NEW d \in selected
        PROVE  Catalog[e][d].version \in Versions
    <3>1. Catalog[e][d] \in Manifests
      BY <1>1, <1>3 DEF Manifests
    <3> QED
      BY <3>1 DEF Versions
  <2> QED
    BY <2>1
<1> HIDE DEF requirement
<1>5. LockSound(lock) /\ EnabledDlcs(lock) = selected
  BY <1>1, <1>3, <1>4, NewLockSound
<1> HIDE DEF lock
<1> DEFINE whole == Contract(NewIntent(lock), lock, files["env"])
<1>6. WholeContract(whole)
  BY <1>1, <1>2, <1>3, <1>5, WrittenWhole DEF LockSound
<1>7. [new EXCEPT !["env"] = files["env"]] = whole /\ IsContract(new)
  BY DEF Contract, IsContract, Names
<1> HIDE DEF new, whole
<1>8. /\ DOMAIN proc' = Processes /\ DOMAIN proc'[p] = {"pc", "read", "new", "step"}
      /\ proc'[p].pc = "linkIntent" /\ proc'[p].read = NoContract /\ proc'[p].new = new
      /\ proc'[p].step = 1
  BY <1>1, Begun
<1>9. \A q \in Processes : q = p
  BY DEF Serialised
<1>10. Owned(p) = {} /\ SettledInv
  BY <1>1 DEF Inv, PhaseInv, Idle
<1>11. FilesInv' /\ BackupsInv' /\ SettledInv' /\ faults' \in 0..MaxFaults
  BY <1>1, <1>10, StillSettled
<1>12. ProcInv'
  <2>1. "linkIntent" \in Phases /\ "linkIntent" # "rollback" /\ 1 \in 0..4
    BY DEF Phases
  <2>2. IsContract(NoContract)
    BY DEF IsContract, NoContract, Contract, Names
  <2> QED
    BY <1>7, <1>8, <1>9, <1>11, <2>1, <2>2 DEF ProcInv
<1>13. CreatingInv(p)'
  BY <1>1, <1>6, <1>7, <1>8 DEF CreatingInv
<1>14. ChangingInv(p)' /\ TransactionInv(p)'
  BY <1>8 DEF ChangingInv, TransactionInv
<1>15. Owned(p)' = {}
  BY <1>1, <1>10 DEF Owned
<1>16. Inv'
  BY <1>9, <1>11, <1>12, <1>13, <1>14, <1>15 DEF Inv, PhaseInv
<1> QED
  BY <1>1, <1>16, UntouchedCarried DEF Kept
\* adopt links the intent.
LEMMA LinkIntentKeeps ==
  ASSUME Inv, TornInv, Serialised, NEW p \in Processes, LinkIntent(p)
  PROVE  Kept
<1> DEFINE new == proc[p].new
<1>1. /\ proc[p].pc = "linkIntent" /\ files["intent"] = NoFile /\ files["lock"] = NoFile
      /\ files["env"] # NoFile /\ WholeContract([new EXCEPT !["env"] = files["env"]])
  BY DEF LinkIntent, Inv, PhaseInv, CreatingInv
<1>2. /\ files' = [files EXCEPT !["intent"] = new["intent"]]
      /\ Goto(p, "linkLock", 2)
      /\ UNCHANGED <<backups, faults>>
  BY <1>1 DEF LinkIntent, TornInv, Exists
<1>3. IsContract(files) /\ EnvTyped(files["env"]) /\ faults \in 0..MaxFaults
  BY <1>1 DEF Inv, FilesInv, ProcInv
<1>4. /\ IsContract(files') /\ files'["intent"] = new["intent"]
      /\ files'["lock"] = NoFile /\ files'["env"] = files["env"]
  BY <1>1, <1>2, <1>3 DEF IsContract, Names
<1> HIDE DEF new
<1>5. backups = {} /\ BackupsInv'
  BY <1>1, <1>2, NoLockYet
<1>6. /\ DOMAIN proc' = Processes /\ DOMAIN proc'[p] = {"pc", "read", "new", "step"}
      /\ proc'[p].pc = "linkLock" /\ proc'[p].step = 2
      /\ proc'[p].read = proc[p].read /\ proc'[p].new = new
  BY <1>2, Gone DEF new
<1>7. \A q \in Processes : q = p
  BY DEF Serialised
<1>8. FilesInv'
  BY <1>3, <1>4 DEF FilesInv
<1>9. ProcInv'
  <2>1. "linkLock" \in Phases /\ "linkLock" # "rollback" /\ 2 \in 0..4
    BY DEF Phases
  <2>2. IsContract(proc[p].read) /\ IsContract(new)
    BY DEF Inv, ProcInv, new
  <2> QED
    BY <1>2, <1>3, <1>6, <1>7, <2>1, <2>2 DEF ProcInv
<1>10. CreatingInv(p)'
  BY <1>1, <1>4, <1>6 DEF CreatingInv
<1>11. ChangingInv(p)' /\ TransactionInv(p)' /\ Owned(p)' = {} /\ SettledInv'
  BY <1>2, <1>4, <1>5, <1>6 DEF ChangingInv, TransactionInv, Owned, SettledInv
<1>12. Inv'
  BY <1>5, <1>7, <1>8, <1>9, <1>10, <1>11 DEF Inv, PhaseInv
<1> QED
  BY <1>1, <1>12 DEF Kept, LockCarried

\* adopt links the lock, or takes the intent back.
LEMMA LinkLockKeeps ==
  ASSUME Inv, TornInv, Serialised, NEW p \in Processes, LinkLock(p)
  PROVE  Kept
<1> DEFINE new == proc[p].new
           whole == [new EXCEPT !["env"] = files["env"]]
<1>1. /\ proc[p].pc = "linkLock" /\ files["intent"] = new["intent"] /\ files["lock"] = NoFile
      /\ files["env"] # NoFile /\ WholeContract(whole)
  BY DEF LinkLock, Inv, PhaseInv, CreatingInv
<1>2. End(p) /\ UNCHANGED backups
  BY DEF LinkLock
<1>3. \/ files' = [files EXCEPT !["lock"] = new["lock"]] /\ UNCHANGED faults
      \/ files' = [files EXCEPT !["intent"] = NoFile] /\ Fault
  BY <1>1 DEF LinkLock, TornInv, Exists
<1>4. IsContract(files) /\ EnvTyped(files["env"]) /\ faults \in 0..MaxFaults
  BY <1>1 DEF Inv, FilesInv, ProcInv
<1>5. backups = {} /\ \A b \in backups' : b.owner # p
  BY <1>1, <1>2, NoLockYet
<1>6. IsContract(new)
  BY DEF Inv, ProcInv
<1>7. /\ whole["intent"] = new["intent"] /\ whole["lock"] = new["lock"]
      /\ whole["env"] = files["env"]
  BY <1>6 DEF IsContract, Names
<1> HIDE DEF new, whole
<1>8. faults' \in 0..MaxFaults
  BY <1>3, <1>4, DlcAssumption DEF Fault
<1>9. BackupsInv'
  BY <1>2, <1>5 DEF BackupsInv
<1>10. CASE files' = [files EXCEPT !["lock"] = new["lock"]]
  <2>1. /\ IsContract(files') /\ files'["intent"] = whole["intent"]
        /\ files'["lock"] = whole["lock"] /\ files'["env"] = whole["env"]
    BY <1>1, <1>4, <1>7, <1>10 DEF IsContract, Names
  <2>2. /\ whole["intent"] # NoFile /\ whole["env"] # NoFile
        /\ LockSound(whole["lock"]) /\ EnvTyped(whole["env"]) /\ Coherent(whole)
        /\ IsContract(whole)
    BY <1>1, WholeFiles
  <2>3. files' = whole
    BY <2>1, <2>2, SameContract
  <2>4. FilesInv' /\ SettledInv'
    BY <2>2, <2>3 DEF FilesInv, SettledInv
  <2>5. Inv'
    BY <1>2, <1>5, <1>8, <1>9, <2>4, EndKeeps
  <2> QED
    BY <1>1, <2>5 DEF Kept, LockCarried
<1>11. CASE files' = [files EXCEPT !["intent"] = NoFile]
  <2>1. IsContract(files') /\ files'["lock"] = NoFile /\ files'["env"] = files["env"]
    BY <1>1, <1>4, <1>11 DEF IsContract, Names
  <2>2. FilesInv' /\ SettledInv'
    BY <1>4, <2>1 DEF FilesInv, SettledInv
  <2>3. Inv'
    BY <1>2, <1>5, <1>8, <1>9, <2>2, EndKeeps
  <2> QED
    BY <1>1, <2>3 DEF Kept, LockCarried
<1> QED
  BY <1>3, <1>10, <1>11

\* A command reads the intent.
LEMMA StartCommandKeeps ==
  ASSUME Inv, Serialised, NEW p \in Processes, StartCommand(p)
  PROVE  Kept
<1> DEFINE read == Contract(files["intent"], NoFile, NoFile)
<1>1. /\ proc[p] = Idle /\ Begin(p, "readLock", read, NoContract)
      /\ UNCHANGED <<files, backups, faults>>
  BY DEF StartCommand
<1>2. read["intent"] = files["intent"] /\ IsContract(read) /\ IsContract(NoContract)
  BY DEF Contract, IsContract, Names, NoContract
<1> HIDE DEF read
<1>3. /\ DOMAIN proc' = Processes /\ DOMAIN proc'[p] = {"pc", "read", "new", "step"}
      /\ proc'[p].pc = "readLock" /\ proc'[p].read = read /\ proc'[p].new = NoContract
      /\ proc'[p].step = 1
  BY <1>1, Begun
<1>4. \A q \in Processes : q = p
  BY DEF Serialised
<1>5. Owned(p) = {} /\ SettledInv
  BY <1>1 DEF Inv, PhaseInv, Idle
<1>6. FilesInv' /\ BackupsInv' /\ SettledInv' /\ faults' \in 0..MaxFaults
  BY <1>1, <1>5, StillSettled
<1>7. ProcInv'
  <2>1. "readLock" \in Phases /\ "readLock" # "rollback" /\ 1 \in 0..4
    BY DEF Phases
  <2> QED
    BY <1>2, <1>3, <1>4, <1>6, <2>1 DEF ProcInv
<1>8. CreatingInv(p)' /\ TransactionInv(p)'
  BY <1>3 DEF CreatingInv, TransactionInv
<1>9. ChangingInv(p)'
  BY <1>1, <1>2, <1>3 DEF ChangingInv
<1>10. Owned(p)' = {}
  BY <1>1, <1>5 DEF Owned
<1>11. Inv'
  BY <1>4, <1>6, <1>7, <1>8, <1>9, <1>10 DEF Inv, PhaseInv
<1> QED
  BY <1>1, <1>11, UntouchedCarried DEF Kept

\* A command that ends where it has not touched anything.
LEMMA QuietEndKeeps ==
  ASSUME Inv, Serialised, NEW p \in Processes, End(p), UNCHANGED <<files, backups, faults>>,
         proc[p].pc \notin {"prepare", "commit", "rollback"}
  PROVE  Kept
<1>1. Owned(p) = {} /\ SettledInv
  BY DEF Inv, PhaseInv
<1>2. FilesInv' /\ BackupsInv' /\ SettledInv' /\ faults' \in 0..MaxFaults
  BY <1>1, StillSettled
<1>3. \A b \in backups' : b.owner # p
  BY <1>1 DEF Owned
<1>4. Inv'
  BY <1>2, <1>3, EndKeeps
<1> QED
  BY <1>4, UntouchedCarried DEF Kept

\* ... then the lock.
LEMMA ReadLockKeeps ==
  ASSUME Inv, Serialised, NEW p \in Processes, ReadLock(p)
  PROVE  Kept
<1>1. proc[p].pc = "readLock" /\ UNCHANGED <<files, backups, faults>>
  BY DEF ReadLock
<1>2. CASE files["lock"] = NoFile
  BY <1>1, <1>2, QuietEndKeeps DEF ReadLock
<1>3. CASE files["lock"] # NoFile
  <2> DEFINE read == proc[p].read
             got == [read EXCEPT !["lock"] = files["lock"]]
  <2>1. proc' = [proc EXCEPT ![p].read["lock"] = files["lock"], ![p].pc = "readEnv"]
    BY <1>3 DEF ReadLock
  <2>2. /\ DOMAIN proc = Processes /\ DOMAIN proc[p] = {"pc", "read", "new", "step"}
        /\ IsContract(read) /\ IsContract(proc[p].new) /\ proc[p].step \in 0..4
    BY <1>1 DEF Inv, ProcInv
  <2>3. /\ DOMAIN proc' = Processes /\ DOMAIN proc'[p] = {"pc", "read", "new", "step"}
        /\ proc'[p].pc = "readEnv" /\ proc'[p].read = got /\ proc'[p].new = proc[p].new
        /\ proc'[p].step = proc[p].step
    BY <2>1, <2>2
  <2>4. got["lock"] = files["lock"] /\ got["intent"] = read["intent"] /\ IsContract(got)
    BY <2>2 DEF IsContract, Names
  <2>5. read["intent"] = files["intent"] /\ Owned(p) = {} /\ SettledInv
    BY <1>1 DEF Inv, PhaseInv, ChangingInv
  <2> HIDE DEF read, got
  <2>6. \A q \in Processes : q = p
    BY DEF Serialised
  <2>7. FilesInv' /\ BackupsInv' /\ SettledInv' /\ faults' \in 0..MaxFaults
    BY <1>1, <2>5, StillSettled
  <2>8. ProcInv'
    <3>1. "readEnv" \in Phases /\ "readEnv" # "rollback"
      BY DEF Phases
    <3> QED
      BY <2>2, <2>3, <2>4, <2>6, <2>7, <3>1 DEF ProcInv
  <2>9. CreatingInv(p)' /\ TransactionInv(p)'
    BY <2>3 DEF CreatingInv, TransactionInv
  <2>10. ChangingInv(p)'
    BY <1>1, <1>3, <2>3, <2>4, <2>5 DEF ChangingInv
  <2>11. Owned(p)' = {}
    BY <1>1, <2>5 DEF Owned
  <2>12. Inv'
    BY <2>6, <2>7, <2>8, <2>9, <2>10, <2>11 DEF Inv, PhaseInv
  <2> QED
    BY <1>1, <2>12, UntouchedCarried DEF Kept
<1> QED
  BY <1>2, <1>3
\* What a process has read once it has read the environment: the files.
LEMMA ReadFiles ==
  ASSUME Inv, NEW p \in Processes, proc[p].pc = "readEnv"
  PROVE  /\ [proc[p].read EXCEPT !["env"] = files["env"]] = files
         /\ proc[p].read["intent"] = files["intent"] /\ proc[p].read["lock"] = files["lock"]
         /\ files["lock"] # NoFile /\ LockSound(files["lock"]) /\ EnvTyped(files["env"])
         /\ IsContract(files) /\ Owned(p) = {} /\ SettledInv
<1> DEFINE read == proc[p].read
           got == [read EXCEPT !["env"] = files["env"]]
<1>1. /\ read["intent"] = files["intent"] /\ read["lock"] = files["lock"]
      /\ files["lock"] # NoFile /\ Owned(p) = {} /\ SettledInv
  BY DEF Inv, PhaseInv, ChangingInv
<1>2. LockSound(files["lock"]) /\ EnvTyped(files["env"]) /\ IsContract(files)
  BY <1>1 DEF Inv, FilesInv
<1>3. IsContract(read)
  BY DEF Inv, ProcInv
<1>4. /\ got["env"] = files["env"] /\ got["lock"] = read["lock"]
      /\ got["intent"] = read["intent"] /\ IsContract(got)
  BY <1>3 DEF IsContract, Names
<1> HIDE DEF read, got
<1>5. got = files
  BY <1>1, <1>2, <1>4, SameContract
<1> QED
  BY <1>1, <1>2, <1>5 DEF read, got

\* ... and the environment; the command computes the new contract.
LEMMA ReadEnvKeeps ==
  ASSUME Inv, Serialised, NEW p \in Processes, NEW e \in Engines, NEW c \in Commands,
         ReadEnv(p, e, c)
  PROVE  Kept
<1>1. proc[p].pc = "readEnv" /\ UNCHANGED <<files, backups, faults>>
  BY DEF ReadEnv
<1>2. /\ [proc[p].read EXCEPT !["env"] = files["env"]] = files
      /\ files["lock"] # NoFile /\ LockSound(files["lock"]) /\ EnvTyped(files["env"])
      /\ IsContract(files) /\ Owned(p) = {} /\ SettledInv
  BY <1>1, ReadFiles
<1> DEFINE outcomes == {o \in Outcome(e, c, files["intent"], files["lock"]) :
                          /\ DependenciesValid(o.lock)
                          /\ PairVerified(e, o.intent, o.lock)
                          /\ Len(o.lock.history) <= MaxHistory}
           New(o) == Contract(o.intent, o.lock, Projection(o.lock))
<1>3. \/ End(p)
      \/ /\ LoadAccepted(e, files)
         /\ \E o \in outcomes : Begin(p, "prepare", files, New(o))
  BY <1>1, <1>2 DEF ReadEnv
<1>4. CASE End(p)
  BY <1>1, <1>4, QuietEndKeeps
<1>5. CASE LoadAccepted(e, files) /\ \E o \in outcomes : Begin(p, "prepare", files, New(o))
  <2>1. PICK o \in outcomes : Begin(p, "prepare", files, New(o))
    BY <1>5
  <2>2. PairVerified(e, files["intent"], files["lock"]) /\ files["env"] = Projection(files["lock"])
    BY <1>5 DEF LoadAccepted
  <2>3. LockTyped(files["lock"])
    BY <1>2 DEF LockSound
  <2>4. WholeContract(files)
    <3>1. files["env"].ids = EnabledDlcs(files["lock"])
      BY <2>2, <2>3, ProjectionTyped
    <3>2. Coherent(files)
      BY <1>2, <2>2, <2>3, <3>1, Present DEF Coherent
    <3> QED
      BY <1>2, <3>2 DEF WholeContract
  <2>5. Follows(files["lock"], o.lock) /\ PairVerified(e, o.intent, o.lock)
    BY <1>2, <2>2, OutcomeFollows
  <2>6. WholeContract(New(o)) /\ New(o)["lock"] = o.lock
    <3>1. LockTyped(o.lock) /\ LockExplained(o.lock)
      BY <2>5 DEF Follows
    <3>2. EnvTyped(Projection(o.lock)) /\ Projection(o.lock).ids = EnabledDlcs(o.lock)
      BY <3>1, ProjectionTyped
    <3>3. WholeContract(New(o))
      BY <2>5, <3>1, <3>2, WrittenWhole
    <3> QED
      BY <3>3 DEF Contract
  <2> DEFINE new == New(o)
  <2> HIDE DEF New, outcomes
  <2>7. Carried(files["lock"], new["lock"])
    BY <2>5, <2>6 DEF Follows
  <2> HIDE DEF new
  <2>8. /\ DOMAIN proc' = Processes /\ DOMAIN proc'[p] = {"pc", "read", "new", "step"}
        /\ proc'[p].pc = "prepare" /\ proc'[p].read = files /\ proc'[p].new = new
        /\ proc'[p].step = 1
    BY <2>1, Begun DEF new
  <2>9. \A q \in Processes : q = p
    BY DEF Serialised
  <2>10. FilesInv' /\ BackupsInv' /\ faults' \in 0..MaxFaults
    BY <1>1, StillSettled
  <2>11. WholeContract(new)
    BY <2>6 DEF new
  <2>12. ProcInv'
    <3>1. "prepare" \in Phases /\ "prepare" # "rollback" /\ 1 \in 0..4
      BY DEF Phases
    <3>2. IsContract(new)
      BY <2>11 DEF WholeContract
    <3> QED
      BY <1>2, <2>8, <2>9, <2>10, <3>1, <3>2 DEF ProcInv
  <2>13. Owned(p)' = {}
    BY <1>1, <1>2 DEF Owned
  <2>14. TransactionInv(p)'
    BY <1>1, <2>4, <2>7, <2>8, <2>11, <2>13 DEF TransactionInv
  <2>15. CreatingInv(p)' /\ ChangingInv(p)'
    BY <2>8 DEF CreatingInv, ChangingInv
  <2>16. Inv'
    BY <2>8, <2>9, <2>10, <2>12, <2>14, <2>15 DEF Inv, PhaseInv
  <2> QED
    BY <1>1, <2>16, UntouchedCarried DEF Kept
<1> QED
  BY <1>3, <1>4, <1>5

\* record_engine_upgrade verifies the pair it read.
LEMMA VerifyRecordKeeps ==
  ASSUME Inv, Serialised, NEW p \in Processes, NEW e \in Engines, VerifyRecord(p, e)
  PROVE  Kept
<1>1. proc[p].pc = "readEnv" /\ UNCHANGED <<files, backups, faults>>
  BY DEF VerifyRecord
<1>2. /\ proc[p].read["intent"] = files["intent"] /\ proc[p].read["lock"] = files["lock"]
      /\ files["lock"] # NoFile /\ LockSound(files["lock"])
      /\ IsContract(files) /\ Owned(p) = {} /\ SettledInv
  BY <1>1, ReadFiles
<1> DEFINE lock == [files["lock"] EXCEPT !.engine = e, !.source = "release"]
           new == Contract(NoFile, lock, NoFile)
<1>3. \/ End(p)
      \/ /\ PairVerified(e, files["intent"], lock)
         /\ Begin(p, "replaceLock", NoContract, new)
  <2> DEFINE outcomes == RecordEngineUpgrade(e, files["intent"], files["lock"])
  <2>1. \/ End(p)
        \/ \E o \in outcomes :
             Begin(p, "replaceLock", NoContract, Contract(NoFile, o.lock, NoFile))
    BY <1>1, <1>2 DEF VerifyRecord
  <2>2. \A o \in outcomes : o.lock = lock /\ PairVerified(e, files["intent"], lock)
    BY DEF RecordEngineUpgrade, When, Pair
  <2> HIDE DEF outcomes, lock
  <2> QED
    BY <2>1, <2>2
<1>4. CASE End(p)
  BY <1>1, <1>4, QuietEndKeeps
<1>5. CASE PairVerified(e, files["intent"], lock) /\ Begin(p, "replaceLock", NoContract, new)
  <2>1. /\ DOMAIN lock = {"engine", "source", "dlcs", "retained", "history"}
        /\ lock.engine = e /\ lock.dlcs = files["lock"].dlcs
        /\ lock.retained = files["lock"].retained /\ lock.history = files["lock"].history
    BY <1>2 DEF LockSound, LockTyped
  <2> HIDE DEF lock
  <2>2. LockSound(lock)
    BY <1>2, <2>1 DEF LockSound, LockTyped, LockExplained
  <2>3. new["lock"] = lock /\ IsContract(new) /\ IsContract(NoContract)
    BY DEF Contract, IsContract, Names, NoContract
  <2> HIDE DEF new
  <2>4. /\ DOMAIN proc' = Processes /\ DOMAIN proc'[p] = {"pc", "read", "new", "step"}
        /\ proc'[p].pc = "replaceLock" /\ proc'[p].read = NoContract /\ proc'[p].new = new
        /\ proc'[p].step = 1
    BY <1>5, Begun
  <2>5. \A q \in Processes : q = p
    BY DEF Serialised
  <2>6. FilesInv' /\ BackupsInv' /\ SettledInv' /\ faults' \in 0..MaxFaults
    BY <1>1, <1>2, StillSettled
  <2>7. ProcInv'
    <3>1. "replaceLock" \in Phases /\ "replaceLock" # "rollback" /\ 1 \in 0..4
      BY DEF Phases
    <3> QED
      BY <2>3, <2>4, <2>5, <2>6, <3>1 DEF ProcInv
  <2>8. ChangingInv(p)'
    BY <1>1, <1>2, <1>5, <2>1, <2>2, <2>3, <2>4 DEF ChangingInv
  <2>9. CreatingInv(p)' /\ TransactionInv(p)'
    BY <2>4 DEF CreatingInv, TransactionInv
  <2>10. Owned(p)' = {}
    BY <1>1, <1>2 DEF Owned
  <2>11. Inv'
    BY <2>5, <2>6, <2>7, <2>8, <2>9, <2>10 DEF Inv, PhaseInv
  <2> QED
    BY <1>1, <2>11, UntouchedCarried DEF Kept
<1> QED
  BY <1>3, <1>4, <1>5
\* The contracts that files f and backups B make possible.
ChoicesOf(f, B) ==
  {contract \in [Names -> {f[name] : name \in Names} \cup {b.bytes : b \in B}] :
     \A name \in Names :
       \/ contract[name] = f[name]
       \/ \E b \in B : b.file = name /\ b.bytes = contract[name]}

\* A choice is a contract each of whose files is there or backed up.
LEMMA IsChoice ==
  ASSUME NEW f, NEW B, NEW c
  PROVE  c \in ChoicesOf(f, B) <=>
           /\ IsContract(c)
           /\ \A name \in Names : \/ c[name] = f[name]
                                  \/ \E b \in B : b.file = name /\ b.bytes = c[name]
<1>1. ASSUME IsContract(c),
             \A name \in Names : \/ c[name] = f[name]
                                 \/ \E b \in B : b.file = name /\ b.bytes = c[name]
      PROVE  c \in ChoicesOf(f, B)
  <2>1. \A name \in Names : c[name] \in {f[n] : n \in Names} \cup {b.bytes : b \in B}
    BY <1>1
  <2>2. c \in [Names -> {f[n] : n \in Names} \cup {b.bytes : b \in B}]
    BY <1>1, <2>1 DEF IsContract
  <2> QED
    BY <1>1, <2>2 DEF ChoicesOf
<1>2. ASSUME c \in ChoicesOf(f, B)
      PROVE  /\ IsContract(c)
             /\ \A name \in Names : \/ c[name] = f[name]
                                    \/ \E b \in B : b.file = name /\ b.bytes = c[name]
  BY <1>2 DEF ChoicesOf, IsContract
<1> QED
  BY <1>1, <1>2

\* atomic_replace_regular_file.
LEMMA ReplaceLockKeeps ==
  ASSUME Inv, Serialised, NEW p \in Processes, ReplaceLock(p)
  PROVE  Kept
<1> DEFINE new == proc[p].new["lock"]
           old == files["lock"]
<1>1. /\ proc[p].pc = "replaceLock" /\ files' = [files EXCEPT !["lock"] = new]
      /\ End(p) /\ UNCHANGED <<backups, faults>>
  BY DEF ReplaceLock
<1>2. /\ old # NoFile /\ LockSound(new) /\ new.dlcs = old.dlcs /\ new.retained = old.retained
      /\ Owned(p) = {} /\ SettledInv
      /\ \E e \in Engines : PairVerified(e, files["intent"], new)
  BY <1>1 DEF Inv, PhaseInv, ChangingInv
<1>3. PICK e \in Engines : PairVerified(e, files["intent"], new)
  BY <1>2
<1>4. /\ IsContract(files) /\ LockSound(old) /\ EnvTyped(files["env"])
      /\ files["intent"] # NoFile /\ files["env"] # NoFile /\ BackupsInv
      /\ faults \in 0..MaxFaults
  BY <1>2 DEF Inv, FilesInv, ProcInv
<1> HIDE DEF new, old
<1>5. /\ IsContract(files') /\ files'["lock"] = new
      /\ files'["intent"] = files["intent"] /\ files'["env"] = files["env"]
  BY <1>1, <1>4 DEF IsContract, Names
<1>6. new # NoFile
  BY <1>2, Present DEF LockSound
<1>7. FilesInv'
  BY <1>2, <1>4, <1>5 DEF FilesInv
<1>8. BackupsInv'
  BY <1>1, <1>4, <1>5, <1>6 DEF BackupsInv
<1>9. EnabledDlcs(new) = EnabledDlcs(old)
  BY <1>2 DEF EnabledDlcs
<1>10. SettledInv'
  <2>1. CASE Coherent(files)
    <3>1. files["env"].ids \in {Missing, EnabledDlcs(new)}
      BY <1>9, <2>1 DEF Coherent, old
    <3>2. Coherent(files')
      BY <1>3, <1>4, <1>5, <1>6, <3>1 DEF Coherent
    <3> QED
      BY <3>2 DEF SettledInv
  <2>2. CASE ~Coherent(files)
    <3>1. /\ backups # {}
          /\ \E contract \in Choices : Coherent(contract)
          /\ \A b \in backups : b.file = "lock" => Carried(old, b.bytes)
      BY <1>2, <2>2 DEF SettledInv, old
    <3>2. PICK c \in Choices : Coherent(c)
      BY <3>1
    <3>3. c \in ChoicesOf(files, backups)
      BY DEF Choices, ChoicesOf
    <3>4. /\ IsContract(c)
          /\ \A name \in Names : \/ c[name] = files[name]
                                 \/ \E b \in backups : b.file = name /\ b.bytes = c[name]
      BY <3>3, IsChoice
    <3>5. \E contract \in ChoicesOf(files', backups') : Coherent(contract)
      <4>1. CASE c["lock"] = old
        <5> DEFINE d == [c EXCEPT !["lock"] = new]
        <5>1. /\ IsContract(d) /\ d["lock"] = new /\ d["intent"] = c["intent"]
              /\ d["env"] = c["env"]
          BY <3>4 DEF IsContract, Names
        <5> HIDE DEF d
        <5>2. c["intent"] = files["intent"]
          <6>1. c["intent"] = [x \in DOMAIN old.dlcs |->
                  [version |-> old.dlcs[x].requested, enabled |-> old.dlcs[x].enabled]]
            BY <3>2, <4>1 DEF Coherent, PairVerified
          <6>2. files["intent"] = [x \in DOMAIN new.dlcs |->
                  [version |-> new.dlcs[x].requested, enabled |-> new.dlcs[x].enabled]]
            BY <1>3 DEF PairVerified
          <6> QED
            BY <1>2, <6>1, <6>2
        <5>3. c["env"].ids \in {Missing, EnabledDlcs(new)} /\ c["env"] # NoFile
          BY <1>9, <3>2, <4>1 DEF Coherent
        <5>4. Coherent(d)
          BY <1>3, <1>4, <1>6, <5>1, <5>2, <5>3 DEF Coherent
        <5>5. \A name \in Names : \/ d[name] = files'[name]
                                  \/ \E b \in backups' : b.file = name /\ b.bytes = d[name]
          BY <1>1, <1>5, <3>4, <5>1 DEF Names
        <5>6. d \in ChoicesOf(files', backups')
          BY <5>1, <5>5, IsChoice
        <5> QED
          BY <5>4, <5>6
      <4>2. CASE c["lock"] # old
        <5>1. \A name \in Names : \/ c[name] = files'[name]
                                  \/ \E b \in backups' : b.file = name /\ b.bytes = c[name]
          BY <1>1, <1>5, <3>4, <4>2 DEF Names, old
        <5>2. c \in ChoicesOf(files', backups')
          BY <3>4, <5>1, IsChoice
        <5> QED
          BY <3>2, <5>2
      <4> QED
        BY <4>1, <4>2
    <3>6. \A b \in backups' : b.file = "lock" => Carried(files'["lock"], b.bytes)
      BY <1>1, <1>2, <1>5, <3>1 DEF Carried
    <3>7. Choices' = ChoicesOf(files', backups')
      BY DEF Choices, ChoicesOf
    <3> QED
      BY <1>1, <3>1, <3>5, <3>6, <3>7 DEF SettledInv
  <2> QED
    BY <2>1, <2>2
<1>11. \A b \in backups' : b.owner # p
  BY <1>1, <1>2 DEF Owned
<1>12. Inv'
  BY <1>1, <1>4, <1>7, <1>8, <1>10, <1>11, EndKeeps
<1>13. Carried(old, new)
  BY <1>2, <1>4, CarriedSame
<1> QED
  BY <1>5, <1>12, <1>13 DEF Kept, LockCarried, old
\* Where the files stand in a transaction: each is what was read, or what is
\* written with a backup of what was read beside it.
LEMMA InTransaction ==
  ASSUME Inv, NEW p \in Processes, proc[p].pc \in {"prepare", "commit", "rollback"}
  PROVE  LET read == proc[p].read
             new == proc[p].new
         IN  /\ WholeContract(read) /\ WholeContract(new) /\ Carried(read["lock"], new["lock"])
             /\ \A b \in Owned(p) : \E name \in Names : b = Backup(p, name)
             /\ \A name \in Names :
                  \/ files[name] = read[name]
                  \/ files[name] = new[name] /\ Backup(p, name) \in backups
             /\ files["lock"] # NoFile
<1> DEFINE read == proc[p].read
           new == proc[p].new
<1>1. /\ WholeContract(read) /\ WholeContract(new) /\ Carried(read["lock"], new["lock"])
      /\ \A b \in Owned(p) : \E name \in Names : b = Backup(p, name)
  BY DEF Inv, PhaseInv, TransactionInv
<1>2. /\ ReplaceOrder[1] = "intent" /\ ReplaceOrder[2] = "lock" /\ ReplaceOrder[3] = "env"
      /\ 1 \in 1..3 /\ 2 \in 1..3 /\ 3 \in 1..3
  BY DEF ReplaceOrder
<1> DEFINE Stands(name) == \/ files[name] = read[name]
                           \/ files[name] = new[name] /\ Backup(p, name) \in backups
<1>3. \A i \in 1..3 : Stands(ReplaceOrder[i])
  <2>1. CASE proc[p].pc = "prepare"
    BY <2>1 DEF Inv, PhaseInv, TransactionInv
  <2>2. CASE proc[p].pc = "commit"
    <3>1. \A i \in 1..3 : ReplaceOrder[i] \in Names
      BY DEF ReplaceOrder, Names
    <3>2. \A name \in Names : Backup(p, name) \in backups
      BY <2>2 DEF Inv, PhaseInv, TransactionInv
    <3>3. \A i \in 1..3 : files[ReplaceOrder[i]] \in {read[ReplaceOrder[i]], new[ReplaceOrder[i]]}
      BY <2>2 DEF Inv, PhaseInv, TransactionInv
    <3> HIDE DEF read, new
    <3> QED
      BY <3>1, <3>2, <3>3
  <2>3. CASE proc[p].pc = "rollback"
    BY <2>3 DEF Inv, PhaseInv, TransactionInv
  <2> QED
    BY <2>1, <2>2, <2>3
<1> HIDE DEF read, new
<1>4. \A name \in Names : Stands(name)
  <2>1. Stands("intent") /\ Stands("lock") /\ Stands("env")
    <3> HIDE DEF Stands
    <3> QED
      BY <1>2, <1>3
  <2> HIDE DEF Stands
  <2> QED
    BY <2>1 DEF Names
<1>5. files["lock"] # NoFile
  BY <1>1, <1>4, WholeFiles DEF Names
<1> QED
  BY <1>1, <1>4, <1>5 DEF read, new

\* The backups that process p writes.
LEMMA BackupTyped ==
  ASSUME Inv, NEW p \in Processes, proc[p].pc \in {"prepare", "commit", "rollback"},
         NEW name \in Names
  PROVE  /\ DOMAIN Backup(p, name) = {"owner", "file", "bytes"}
         /\ Backup(p, name).owner = p /\ Backup(p, name).file = name
         /\ Backup(p, name).bytes = proc[p].read[name]
         /\ name = "lock" => LockSound(proc[p].read[name])
         /\ name = "env" => EnvTyped(proc[p].read[name])
         /\ p # Missing
<1>1. WholeContract(proc[p].read)
  BY InTransaction
<1>2. p # Missing
  BY DlcAssumption
<1> QED
  BY <1>1, <1>2 DEF Backup, WholeContract

\* transactional_replace stages a file and backs it up.
LEMMA PrepareFileKeeps ==
  ASSUME Inv, Serialised, NEW p \in Processes, PrepareFile(p)
  PROVE  Kept
<1> DEFINE read == proc[p].read
           new == proc[p].new
           step == proc[p].step
           name == ReplaceOrder[step]
<1>1. /\ proc[p].pc = "prepare" /\ step \in 1..3 /\ files = read
      /\ \A i \in 1..3 : i < step => Backup(p, ReplaceOrder[i]) \in backups
  BY DEF PrepareFile, Inv, PhaseInv, TransactionInv
<1>2. /\ WholeContract(read) /\ WholeContract(new) /\ Carried(read["lock"], new["lock"])
      /\ \A b \in Owned(p) : \E n \in Names : b = Backup(p, n)
      /\ files["lock"] # NoFile
  BY <1>1, InTransaction
<1>3. /\ backups' = backups \cup {Backup(p, name)}
      /\ IF step < 3 THEN Goto(p, "prepare", step + 1) ELSE Goto(p, "commit", 1)
      /\ UNCHANGED <<files, faults>>
  BY <1>1 DEF PrepareFile
<1>4. ReplaceOrder[1] = "intent" /\ ReplaceOrder[2] = "lock" /\ ReplaceOrder[3] = "env"
  BY DEF ReplaceOrder
<1>5. name \in Names
  BY <1>1, <1>4 DEF Names
<1>6. \A q \in Processes : q = p
  BY DEF Serialised
<1>7. BackupsInv'
  <2>1. BackupsInv
    BY DEF Inv
  <2>2. /\ DOMAIN Backup(p, name) = {"owner", "file", "bytes"}
        /\ Backup(p, name).owner = p /\ Backup(p, name).file = name
        /\ Backup(p, name).bytes = read[name]
        /\ name = "lock" => LockSound(read[name])
        /\ name = "env" => EnvTyped(read[name])
        /\ p # Missing
    BY <1>1, <1>5, BackupTyped
  <2> HIDE DEF name, read
  <2> QED
    BY <1>2, <1>3, <1>5, <2>1, <2>2 DEF BackupsInv
<1>8. FilesInv' /\ LockCarried
  BY <1>3, UntouchedCarried
<1>9. PICK pc, next : /\ Goto(p, pc, next)
                      /\ \/ pc = "prepare" /\ next = step + 1 /\ step < 3
                         \/ pc = "commit" /\ next = 1 /\ step = 3
  <2>1. CASE step < 3
    BY <1>3, <2>1
  <2>2. CASE step = 3
    BY <1>3, <2>2
  <2> QED
    BY <1>1, <2>1, <2>2
<1>10. /\ DOMAIN proc' = Processes /\ DOMAIN proc'[p] = {"pc", "read", "new", "step"}
       /\ proc'[p].pc = pc /\ proc'[p].step = next
       /\ proc'[p].read = read /\ proc'[p].new = new
  BY <1>9, Gone
<1>11. next \in 1..3 /\ pc \in {"prepare", "commit"}
  BY <1>1, <1>9
<1>12. ProcInv'
  <2>1. pc \in Phases /\ pc # "rollback" /\ next \in 0..4
    BY <1>11 DEF Phases
  <2>2. IsContract(read) /\ IsContract(new) /\ faults \in 0..MaxFaults
    BY DEF Inv, ProcInv
  <2> HIDE DEF read, new
  <2> QED
    BY <1>3, <1>6, <1>10, <2>1, <2>2 DEF ProcInv
<1>13. \A n : Backup(p, n)' = Backup(p, n)
  BY <1>10 DEF Backup
<1>14. \A b \in Owned(p)' : \E n \in Names : b = Backup(p, n)'
  <2>1. \A b \in Owned(p)' : b \in Owned(p) \/ b = Backup(p, name)
    BY <1>3 DEF Owned
  <2> QED
    BY <1>2, <1>5, <1>13, <2>1
<1>15. \A i \in 1..3 : i <= step => Backup(p, ReplaceOrder[i]) \in backups'
  <2>1. \A i \in 1..3 : i <= step => i < step \/ i = step
    BY <1>1
  <2> QED
    BY <1>1, <1>3, <2>1
<1>16. TransactionInv(p)'
  <2> HIDE DEF read, new
  <2>1. CASE pc = "prepare"
    <3>1. \A i \in 1..3 : i < next => Backup(p, ReplaceOrder[i])' \in backups'
      BY <1>1, <1>9, <1>13, <1>15, <2>1
    <3> QED
      BY <1>1, <1>2, <1>3, <1>10, <1>11, <1>14, <2>1, <3>1 DEF TransactionInv
  <2>2. CASE pc = "commit"
    <3>1. \A n \in Names : Backup(p, n)' \in backups'
      <4>1. /\ Backup(p, "intent") \in backups' /\ Backup(p, "lock") \in backups'
            /\ Backup(p, "env") \in backups'
        BY <1>4, <1>9, <1>15, <2>2
      <4> QED
        BY <1>13, <4>1 DEF Names
    <3>2. \A i \in 1..3 : files'[ReplaceOrder[i]] = read[ReplaceOrder[i]] /\ ~(i < 1)
      BY <1>1, <1>3
    <3>3. next = 1 /\ 1 \in 1..4
      BY <1>9, <2>2
    <3> QED
      BY <1>2, <1>10, <1>14, <2>2, <3>1, <3>2, <3>3 DEF TransactionInv
  <2> QED
    BY <1>11, <2>1, <2>2
<1>17. CreatingInv(p)' /\ ChangingInv(p)'
  BY <1>10, <1>11 DEF CreatingInv, ChangingInv
<1>18. Inv'
  BY <1>6, <1>7, <1>8, <1>10, <1>11, <1>12, <1>16, <1>17 DEF Inv, PhaseInv
<1> QED
  BY <1>8, <1>18 DEF Kept
\* What a transaction that goes on keeps of its backups.
LEMMA StillBacked ==
  ASSUME Inv, NEW p \in Processes, proc[p].pc \in {"prepare", "commit", "rollback"},
         proc'[p].read = proc[p].read, backups' \subseteq backups
  PROVE  /\ \A n : Backup(p, n)' = Backup(p, n)
         /\ \A b \in Owned(p)' : \E n \in Names : b = Backup(p, n)'
<1>1. \A n : Backup(p, n)' = Backup(p, n)
  BY DEF Backup
<1>2. \A b \in Owned(p)' : b \in Owned(p)
  BY DEF Owned
<1>3. \A b \in Owned(p) : \E n \in Names : b = Backup(p, n)
  BY InTransaction
<1> QED
  BY <1>1, <1>2, <1>3

\* Fewer backups, the same number of faults or more.
LEMMA FewerBackups ==
  ASSUME Inv, backups' \subseteq backups, files'["lock"] # NoFile,
         faults' = faults \/ Fault
  PROVE  BackupsInv' /\ faults' \in 0..MaxFaults
<1>1. BackupsInv /\ faults \in 0..MaxFaults
  BY DEF Inv, ProcInv
<1>2. faults' \in 0..MaxFaults /\ (faults' = 0 => faults = 0)
  BY <1>1, DlcAssumption DEF Fault
<1> QED
  BY <1>1, <1>2 DEF BackupsInv

\* One file of the contract replaced by another whole contract's.
LEMMA FileReplaced ==
  ASSUME Inv, NEW p \in Processes, proc[p].pc \in {"prepare", "commit", "rollback"},
         NEW c, WholeContract(c), NEW name \in Names, files' = [files EXCEPT ![name] = c[name]]
  PROVE  /\ FilesInv' /\ files'["lock"] # NoFile /\ files'[name] = c[name]
         /\ \A n \in Names : n # name => files'[n] = files[n]
<1>1. /\ FilesInv /\ files["lock"] # NoFile
  BY InTransaction DEF Inv
<1>2. /\ IsContract(files) /\ LockSound(files["lock"]) /\ EnvTyped(files["env"])
      /\ files["intent"] # NoFile /\ files["env"] # NoFile
  BY <1>1 DEF FilesInv
<1>3. /\ IsContract(files') /\ files'[name] = c[name]
      /\ \A n \in Names : n # name => files'[n] = files[n]
  BY <1>2 DEF IsContract
<1>4. /\ LockSound(c["lock"]) /\ EnvTyped(c["env"])
      /\ c["intent"] # NoFile /\ c["env"] # NoFile /\ c["lock"] # NoFile
  BY WholeFiles
<1>5. /\ LockSound(files'["lock"]) /\ EnvTyped(files'["env"]) /\ files'["intent"] # NoFile
      /\ files'["env"] # NoFile /\ files'["lock"] # NoFile
  BY <1>1, <1>2, <1>3, <1>4 DEF Names
<1> QED
  BY <1>3, <1>5 DEF FilesInv

\* One rename of the commit.
LEMMA RenameFileKeeps ==
  ASSUME Inv, Serialised, NEW p \in Processes, RenameFile(p)
  PROVE  Kept
<1> DEFINE read == proc[p].read
           new == proc[p].new
           step == proc[p].step
           name == ReplaceOrder[step]
<1>1. /\ proc[p].pc = "commit" /\ step \in 1..3
      /\ \A i \in 1..3 : files[ReplaceOrder[i]] =
           IF i < step THEN new[ReplaceOrder[i]] ELSE read[ReplaceOrder[i]]
      /\ \A n \in Names : Backup(p, n) \in backups
  BY DEF RenameFile, Inv, PhaseInv, TransactionInv
<1>2. /\ files' = [files EXCEPT ![name] = new[name]] /\ Goto(p, "commit", step + 1)
      /\ UNCHANGED <<backups, faults>>
  BY DEF RenameFile
<1>3. WholeContract(read) /\ WholeContract(new) /\ Carried(read["lock"], new["lock"])
  BY <1>1, InTransaction
<1>4. ReplaceOrder[1] = "intent" /\ ReplaceOrder[2] = "lock" /\ ReplaceOrder[3] = "env"
  BY DEF ReplaceOrder
<1>5. name \in Names
  BY <1>1, <1>4 DEF Names
<1> DEFINE next == step + 1
<1>6. next \in 2..4 /\ \A i \in 1..3 : i < next <=> i < step \/ i = step
  BY <1>1
<1> HIDE DEF next
<1>7. /\ DOMAIN proc' = Processes /\ DOMAIN proc'[p] = {"pc", "read", "new", "step"}
      /\ proc'[p].pc = "commit" /\ proc'[p].step = next
      /\ proc'[p].read = read /\ proc'[p].new = new
  BY <1>2, Gone DEF next
<1>8. \A q \in Processes : q = p
  BY DEF Serialised
<1>9. /\ FilesInv' /\ files'["lock"] # NoFile /\ files'[name] = new[name]
      /\ \A n \in Names : n # name => files'[n] = files[n]
  <2>1. /\ proc[p].pc \in {"prepare", "commit", "rollback"}
        /\ files' = [files EXCEPT ![name] = new[name]]
    BY <1>1, <1>2
  <2> HIDE DEF name, new
  <2> QED
    BY <1>3, <1>5, <2>1, FileReplaced
<1>10. BackupsInv' /\ faults' \in 0..MaxFaults
  BY <1>2, <1>9, FewerBackups
<1>11. /\ \A n : Backup(p, n)' = Backup(p, n)
       /\ \A b \in Owned(p)' : \E n \in Names : b = Backup(p, n)'
  BY <1>1, <1>2, <1>7, StillBacked
<1>12. \A i \in 1..3 : files'[ReplaceOrder[i]] =
         IF i < next THEN new[ReplaceOrder[i]] ELSE read[ReplaceOrder[i]]
  <2> SUFFICES ASSUME NEW i \in 1..3
               PROVE  files'[ReplaceOrder[i]] =
                        IF i < next THEN new[ReplaceOrder[i]] ELSE read[ReplaceOrder[i]]
    OBVIOUS
  <2>1. CASE i = step
    BY <1>6, <1>9, <2>1
  <2>2. CASE i # step
    <3>1. ReplaceOrder[i] # name /\ ReplaceOrder[i] \in Names
      BY <1>1, <1>4, <2>2 DEF Names
    <3>2. files'[ReplaceOrder[i]] = files[ReplaceOrder[i]]
      BY <1>9, <3>1
    <3>3. i < next <=> i < step
      BY <1>6, <2>2
    <3> HIDE DEF read, new, step
    <3> QED
      BY <1>1, <3>2, <3>3
  <2> QED
    BY <2>1, <2>2
<1>13. ProcInv'
  <2>1. "commit" \in Phases /\ "commit" # "rollback" /\ next \in 0..4
    BY <1>6 DEF Phases
  <2>2. IsContract(read) /\ IsContract(new)
    BY <1>3 DEF WholeContract
  <2> HIDE DEF read, new
  <2> QED
    BY <1>7, <1>8, <1>10, <2>1, <2>2 DEF ProcInv
<1>14. LockCarried
  <2>1. files["lock"] \in {read["lock"], new["lock"]} /\ LockSound(files["lock"])
    <3>1. files["lock"] # NoFile
      BY <1>1, InTransaction
    <3>2. LockSound(files["lock"])
      BY <3>1 DEF Inv, FilesInv
    <3>3. files[ReplaceOrder[2]] \in {read[ReplaceOrder[2]], new[ReplaceOrder[2]]}
      BY <1>1
    <3> QED
      BY <1>4, <3>2, <3>3
  <2>2. CASE name = "lock"
    <3>1. files'["lock"] = new["lock"]
      BY <1>9, <2>2
    <3>2. step = 2
      BY <1>1, <1>4, <2>2
    <3>3. files[ReplaceOrder[2]] = read[ReplaceOrder[2]]
      BY <1>1, <3>2
    <3>4. files["lock"] = read["lock"]
      BY <1>4, <3>3
    <3> QED
      BY <1>3, <3>1, <3>4 DEF LockCarried
  <2>3. CASE name # "lock"
    <3>1. files'["lock"] = files["lock"]
      BY <1>9, <2>3 DEF Names
    <3> QED
      BY <2>1, <3>1, CarriedSame DEF LockCarried
  <2> QED
    BY <2>2, <2>3
<1>15. TransactionInv(p)'
  <2>1. next \in 1..4
    BY <1>6
  <2>2. \A n \in Names : Backup(p, n)' \in backups'
    BY <1>1, <1>2, <1>11
  <2> HIDE DEF read, new, step, name
  <2> QED
    BY <1>3, <1>7, <1>11, <1>12, <2>1, <2>2 DEF TransactionInv
<1>16. CreatingInv(p)' /\ ChangingInv(p)'
  BY <1>7 DEF CreatingInv, ChangingInv
<1>17. Inv'
  BY <1>7, <1>8, <1>9, <1>10, <1>13, <1>15, <1>16 DEF Inv, PhaseInv
<1> QED
  BY <1>14, <1>17 DEF Kept

\* A transaction that ends with whole files and removes its backups.
LEMMA CleanEndKeeps ==
  ASSUME Inv, Serialised, NEW p \in Processes, End(p), UNCHANGED files, faults' = faults \/ Fault,
         backups' = backups \ Owned(p), files["lock"] # NoFile, Coherent(files)
  PROVE  Kept
<1>1. FilesInv' /\ LockCarried
  BY UntouchedCarried
<1>2. BackupsInv' /\ faults' \in 0..MaxFaults
  BY FewerBackups
<1>3. \A b \in backups' : b.owner # p
  BY DEF Owned
<1>4. SettledInv'
  BY DEF SettledInv
<1>5. Inv'
  BY <1>1, <1>2, <1>3, <1>4, EndKeeps
<1> QED
  BY <1>1, <1>5 DEF Kept

\* The commit is done.
LEMMA FinishCommitKeeps ==
  ASSUME Inv, Serialised, NEW p \in Processes, FinishCommit(p)
  PROVE  Kept
<1> DEFINE new == proc[p].new
<1>1. /\ proc[p].pc = "commit" /\ proc[p].step = 4 /\ backups' = backups \ Owned(p)
      /\ End(p) /\ UNCHANGED <<files, faults>>
  BY DEF FinishCommit
<1>2. \A i \in 1..3 : files[ReplaceOrder[i]] = new[ReplaceOrder[i]]
  BY <1>1 DEF Inv, PhaseInv, TransactionInv
<1>3. /\ WholeContract(new) /\ files["lock"] # NoFile /\ IsContract(files)
  BY <1>1, InTransaction DEF Inv, FilesInv
<1>4. ReplaceOrder[1] = "intent" /\ ReplaceOrder[2] = "lock" /\ ReplaceOrder[3] = "env"
  BY DEF ReplaceOrder
<1> HIDE DEF new
<1>5. files["intent"] = new["intent"] /\ files["lock"] = new["lock"] /\ files["env"] = new["env"]
  BY <1>2, <1>4
<1>6. files = new
  BY <1>3, <1>5, SameContract DEF WholeContract
<1> QED
  BY <1>1, <1>3, <1>6, CleanEndKeeps DEF WholeContract
\* A rename or a sync of the commit fails.
LEMMA CommitFailsKeeps ==
  ASSUME Inv, Serialised, NEW p \in Processes, CommitFails(p)
  PROVE  Kept
<1> DEFINE read == proc[p].read
           new == proc[p].new
           step == proc[p].step
           next == step - 1
<1>1. /\ proc[p].pc = "commit" /\ step \in 1..4 /\ Fault /\ Goto(p, "rollback", next)
      /\ UNCHANGED <<files, backups>>
      /\ \A i \in 1..3 : files[ReplaceOrder[i]] =
           IF i < step THEN new[ReplaceOrder[i]] ELSE read[ReplaceOrder[i]]
      /\ \A n \in Names : Backup(p, n) \in backups
  BY DEF CommitFails, Inv, PhaseInv, TransactionInv
<1>2. /\ WholeContract(read) /\ WholeContract(new) /\ Carried(read["lock"], new["lock"])
      /\ files["lock"] # NoFile
  BY <1>1, InTransaction
<1>3. next \in 0..3 /\ \A i \in 1..3 : i < step => i <= next
  BY <1>1
<1>4. \A i \in 1..3 : ReplaceOrder[i] \in Names
  BY DEF ReplaceOrder, Names
<1>5. /\ DOMAIN proc' = Processes /\ DOMAIN proc'[p] = {"pc", "read", "new", "step"}
      /\ proc'[p].pc = "rollback" /\ proc'[p].step = next
      /\ proc'[p].read = read /\ proc'[p].new = new
  <2> HIDE DEF next
  <2> QED
    BY <1>1, Gone
<1>6. \A q \in Processes : q = p
  BY DEF Serialised
<1>7. FilesInv' /\ LockCarried
  BY <1>1, UntouchedCarried
<1>8. BackupsInv' /\ faults' \in 0..MaxFaults
  BY <1>1, <1>2, FewerBackups
<1>9. /\ \A n : Backup(p, n)' = Backup(p, n)
      /\ \A b \in Owned(p)' : \E n \in Names : b = Backup(p, n)'
  BY <1>1, <1>5, StillBacked
<1> HIDE DEF read, new, step, next
<1>10. ProcInv'
  <2>1. "rollback" \in Phases
    BY DEF Phases
  <2>2. IsContract(read) /\ IsContract(new)
    BY <1>2 DEF WholeContract
  <2> QED
    BY <1>3, <1>5, <1>6, <1>8, <2>1, <2>2 DEF ProcInv
<1>11. \A i \in 1..3 :
         \/ files'[ReplaceOrder[i]] = read[ReplaceOrder[i]]
         \/ /\ i <= next
            /\ files'[ReplaceOrder[i]] = new[ReplaceOrder[i]]
            /\ Backup(p, ReplaceOrder[i])' \in backups'
  <2> SUFFICES ASSUME NEW i \in 1..3
               PROVE  \/ files'[ReplaceOrder[i]] = read[ReplaceOrder[i]]
                      \/ /\ i <= next
                         /\ files'[ReplaceOrder[i]] = new[ReplaceOrder[i]]
                         /\ Backup(p, ReplaceOrder[i])' \in backups'
    OBVIOUS
  <2>1. Backup(p, ReplaceOrder[i])' \in backups'
    BY <1>1, <1>4, <1>9
  <2>2. files'[ReplaceOrder[i]] = IF i < step THEN new[ReplaceOrder[i]] ELSE read[ReplaceOrder[i]]
    BY <1>1
  <2> QED
    BY <1>3, <2>1, <2>2
<1>12. TransactionInv(p)'
  BY <1>2, <1>5, <1>9, <1>11 DEF TransactionInv
<1>13. CreatingInv(p)' /\ ChangingInv(p)'
  BY <1>5 DEF CreatingInv, ChangingInv
<1>14. Inv'
  BY <1>5, <1>6, <1>7, <1>8, <1>10, <1>12, <1>13 DEF Inv, PhaseInv
<1> QED
  BY <1>7, <1>14 DEF Kept

\* rollback_transaction renames one backup to its file.
LEMMA RollbackFileKeeps ==
  ASSUME Inv, Serialised, NEW p \in Processes, RollbackFile(p)
  PROVE  Kept
<1> DEFINE read == proc[p].read
           new == proc[p].new
           step == proc[p].step
           pending == {i \in 1..step : Backup(p, ReplaceOrder[i]) \in backups}
           first == CHOOSE i \in pending : \A j \in pending : i <= j
           name == ReplaceOrder[first]
<1>1. /\ proc[p].pc = "rollback" /\ pending # {}
      /\ files' = [files EXCEPT ![name] = read[name]]
      /\ backups' = backups \ {Backup(p, name)}
      /\ UNCHANGED <<proc, faults>>
  BY DEF RollbackFile
<1>2. step \in 0..3
  BY <1>1 DEF Inv, ProcInv
<1>3. \A i \in 1..3 :
        \/ files[ReplaceOrder[i]] = read[ReplaceOrder[i]]
        \/ /\ i <= step
           /\ files[ReplaceOrder[i]] = new[ReplaceOrder[i]]
           /\ Backup(p, ReplaceOrder[i]) \in backups
  BY <1>1 DEF Inv, PhaseInv, TransactionInv
<1>4. first \in pending
  <2>1. pending \subseteq Nat
    BY <1>2
  <2>2. \E i \in pending : \A j \in pending : i <= j
    <3> HIDE DEF pending
    <3> QED
      BY <1>1, <2>1, LeastNat
  <2> QED
    BY <2>2
<1>5. first \in 1..3
  BY <1>2, <1>4
<1> HIDE DEF first
<1>6. /\ ReplaceOrder[1] = "intent" /\ ReplaceOrder[2] = "lock" /\ ReplaceOrder[3] = "env"
  BY DEF ReplaceOrder
<1>7. name \in Names /\ \A i \in 1..3 : i # first => ReplaceOrder[i] \in Names \ {name}
  BY <1>5, <1>6 DEF Names
<1>8. /\ WholeContract(read) /\ WholeContract(new) /\ Carried(read["lock"], new["lock"])
      /\ files["lock"] # NoFile
      /\ files["lock"] \in {read["lock"], new["lock"]}
  BY <1>1, InTransaction DEF Names
<1>9. /\ FilesInv' /\ files'["lock"] # NoFile /\ files'[name] = read[name]
      /\ \A n \in Names : n # name => files'[n] = files[n]
  <2>1. /\ proc[p].pc \in {"prepare", "commit", "rollback"}
        /\ files' = [files EXCEPT ![name] = read[name]]
    BY <1>1
  <2> HIDE DEF name, read
  <2> QED
    BY <1>7, <1>8, <2>1, FileReplaced
<1>10. BackupsInv' /\ faults' \in 0..MaxFaults
  BY <1>1, <1>9, FewerBackups
<1>11. /\ \A n : Backup(p, n)' = Backup(p, n)
       /\ \A b \in Owned(p)' : \E n \in Names : b = Backup(p, n)'
  BY <1>1, StillBacked
<1>12. \A n \in Names \ {name} : Backup(p, n) # Backup(p, name)
  <2>1. \A n : Backup(p, n).file = n
    BY DEF Backup
  <2> QED
    BY <2>1
<1> HIDE DEF read, new, step, name, pending
<1>13. \A i \in 1..3 :
        \/ files'[ReplaceOrder[i]] = read[ReplaceOrder[i]]
        \/ /\ i <= step
           /\ files'[ReplaceOrder[i]] = new[ReplaceOrder[i]]
           /\ Backup(p, ReplaceOrder[i])' \in backups'
  <2> SUFFICES ASSUME NEW i \in 1..3
               PROVE  \/ files'[ReplaceOrder[i]] = read[ReplaceOrder[i]]
                      \/ /\ i <= step
                         /\ files'[ReplaceOrder[i]] = new[ReplaceOrder[i]]
                         /\ Backup(p, ReplaceOrder[i])' \in backups'
    OBVIOUS
  <2>1. CASE i = first
    BY <1>9, <2>1 DEF name
  <2>2. CASE i # first
    <3>1. ReplaceOrder[i] \in Names \ {name}
      BY <1>7, <2>2
    <3>2. files'[ReplaceOrder[i]] = files[ReplaceOrder[i]]
      BY <1>9, <3>1
    <3>3. Backup(p, ReplaceOrder[i]) \in backups => Backup(p, ReplaceOrder[i])' \in backups'
      BY <1>1, <1>11, <1>12, <3>1
    <3> QED
      BY <1>3, <3>2, <3>3
  <2> QED
    BY <2>1, <2>2
<1>14. ProcInv'
  BY <1>1 DEF Inv, ProcInv
<1>15. TransactionInv(p)'
  <2>1. /\ proc'[p].pc = "rollback" /\ proc'[p].read = read /\ proc'[p].new = new
        /\ proc'[p].step = step
    BY <1>1 DEF read, new, step
  <2> QED
    BY <1>8, <1>11, <1>13, <2>1 DEF TransactionInv
<1>16. CreatingInv(p)' /\ ChangingInv(p)'
  BY <1>1 DEF CreatingInv, ChangingInv
<1>17. LockCarried
  <2>1. CASE name = "lock"
    <3>1. files'["lock"] = read["lock"]
      BY <1>9, <2>1
    <3>2. LockSound(read["lock"])
      BY <1>8 DEF WholeContract
    <3>3. Carried(read["lock"], read["lock"]) /\ Carried(new["lock"], read["lock"])
      BY <1>8, <3>2, CarriedSame, CarriedBack
    <3> QED
      BY <1>8, <3>1, <3>3 DEF LockCarried
  <2>2. CASE name # "lock"
    <3>1. files'["lock"] = files["lock"]
      BY <1>9, <2>2 DEF Names
    <3>2. LockSound(files["lock"])
      BY <1>8 DEF Inv, FilesInv
    <3> QED
      BY <3>1, <3>2, CarriedSame DEF LockCarried
  <2> QED
    BY <2>1, <2>2
<1>18. \A q \in Processes : q = p
  BY DEF Serialised
<1>19. Inv'
  BY <1>1, <1>9, <1>10, <1>14, <1>15, <1>16, <1>18 DEF Inv, PhaseInv
<1> QED
  BY <1>17, <1>19 DEF Kept
\* A process that fails and leaves its backups: those of a transaction complete
\* the files to what was read.
LEMMA AbandonKeeps ==
  ASSUME Inv, Serialised, NEW p \in Processes, End(p), UNCHANGED files, Fault,
         backups' = Abandoned(p)
  PROVE  Kept
<1>1. FilesInv' /\ LockCarried
  BY UntouchedCarried
<1>2. p # Missing /\ \A q \in Processes : q = p
  BY DlcAssumption DEF Serialised
<1>3. faults' \in 0..MaxFaults /\ faults' # 0
  BY DlcAssumption DEF Inv, ProcInv, Fault
<1>4. CASE Owned(p) = {}
  <2>1. backups' = backups
    BY <1>4 DEF Abandoned
  <2>2. BackupsInv'
    BY <1>3, <2>1 DEF Inv, BackupsInv
  <2>3. \A b \in backups' : b.owner # p
    BY <1>4, <2>1 DEF Owned
  <2>4. SettledInv'
    <3>1. CASE proc[p].pc \notin {"prepare", "commit", "rollback"}
      <4>1. SettledInv
        BY <3>1 DEF Inv, PhaseInv
      <4> QED
        BY <2>1, <4>1 DEF SettledInv, Choices
    <3>2. CASE proc[p].pc \in {"prepare", "commit", "rollback"}
      <4>1. \A name \in Names : Backup(p, name) \notin backups
        BY <1>4, <3>2, BackupTyped DEF Owned
      <4>2. /\ \A name \in Names : files[name] = proc[p].read[name]
            /\ WholeContract(proc[p].read)
        BY <3>2, <4>1, InTransaction
      <4>3. files = proc[p].read
        <5>1. IsContract(files)
          BY DEF Inv, FilesInv
        <5> QED
          BY <4>2, <5>1, SameContract DEF WholeContract, Names
      <4>4. Coherent(files')
        BY <4>2, <4>3 DEF WholeContract
      <4> QED
        BY <4>4 DEF SettledInv
    <3> QED
      BY <3>1, <3>2
  <2>5. Inv'
    BY <1>1, <1>3, <2>2, <2>3, <2>4, EndKeeps
  <2> QED
    BY <1>1, <2>5 DEF Kept
<1>5. CASE Owned(p) # {}
  <2> DEFINE read == proc[p].read
             left(b) == [b EXCEPT !.owner = Missing]
  <2>1. proc[p].pc \in {"prepare", "commit", "rollback"}
    BY <1>5 DEF Inv, PhaseInv
  <2>2. /\ WholeContract(read) /\ Carried(read["lock"], proc[p].new["lock"])
        /\ \A b \in Owned(p) : \E name \in Names : b = Backup(p, name)
        /\ \A name \in Names :
             \/ files[name] = read[name]
             \/ files[name] = proc[p].new[name] /\ Backup(p, name) \in backups
        /\ files["lock"] # NoFile
    BY <2>1, InTransaction
  <2>3. backups' = {left(b) : b \in Owned(p)}
    BY <1>2, <1>5 DEF Abandoned
  <2>4. ASSUME NEW name \in Names
        PROVE  /\ DOMAIN left(Backup(p, name)) = {"owner", "file", "bytes"}
               /\ left(Backup(p, name)).owner = Missing
               /\ left(Backup(p, name)).file = name
               /\ left(Backup(p, name)).bytes = read[name]
               /\ Backup(p, name) \in backups => left(Backup(p, name)) \in backups'
    <3>1. Backup(p, name) \in backups => Backup(p, name) \in Owned(p)
      BY <2>1, BackupTyped DEF Owned
    <3>2. Backup(p, name) \in backups => left(Backup(p, name)) \in backups'
      <4> HIDE DEF left
      <4> QED
        BY <2>3, <3>1
    <3> QED
      BY <3>2 DEF Backup
  <2>5. \A b \in backups' : \E name \in Names : b = left(Backup(p, name))
    <3> HIDE DEF left
    <3> QED
      BY <2>2, <2>3
  <2> HIDE DEF left, read
  <2>6. \A b \in backups' :
          /\ DOMAIN b = {"owner", "file", "bytes"} /\ b.owner = Missing /\ b.file \in Names
          /\ b.bytes = read[b.file]
    BY <2>4, <2>5
  <2>7. BackupsInv'
    <3>1. LockSound(read["lock"]) /\ EnvTyped(read["env"])
      BY <2>2 DEF WholeContract
    <3>2. \A b \in backups' : /\ b.file = "lock" => LockSound(b.bytes)
                              /\ b.file = "env" => EnvTyped(b.bytes)
      BY <2>6, <3>1
    <3> QED
      BY <1>3, <2>2, <2>6, <3>2 DEF BackupsInv
  <2>8. SettledInv'
    <3>1. \A name \in Names : \/ read[name] = files'[name]
                              \/ \E b \in backups' : b.file = name /\ b.bytes = read[name]
      BY <2>2, <2>4
    <3>2. read \in ChoicesOf(files', backups')
      BY <2>2, <3>1, IsChoice DEF WholeContract
    <3>3. Choices' = ChoicesOf(files', backups')
      BY DEF Choices, ChoicesOf
    <3>4. Coherent(read) /\ LockSound(read["lock"])
      BY <2>2 DEF WholeContract
    <3>5. Carried(files["lock"], read["lock"])
      BY <2>2, <3>4, CarriedSame, CarriedBack DEF Names
    <3>6. backups' # {}
      BY <1>5, <2>3
    <3> QED
      BY <2>6, <3>2, <3>3, <3>4, <3>5, <3>6 DEF SettledInv
  <2>9. Inv'
    BY <1>1, <1>2, <1>3, <2>6, <2>7, <2>8, EndKeeps
  <2> QED
    BY <1>1, <2>9 DEF Kept
<1> QED
  BY <1>4, <1>5

\* bootstrap dies, or the disk is full, inside a file.
LEMMA WriteCutShortKeeps ==
  ASSUME Inv, Serialised, NEW p \in Processes, WriteCutShort(p)
  PROVE  Kept
<1> DEFINE env == proc[p].new["env"]
<1>1. /\ proc[p].pc = "fill" /\ proc[p].step \in 1..3 /\ WholeContract(proc[p].new)
      /\ \A i \in 1..3 : files[BootstrapOrder[i]] =
           IF i < proc[p].step THEN proc[p].new[BootstrapOrder[i]] ELSE NoFile
  BY DEF WriteCutShort, Inv, PhaseInv, CreatingInv
<1>2. Fault /\ End(p) /\ UNCHANGED backups
  BY DEF WriteCutShort
<1>3. CASE UNCHANGED files
  <2>1. Owned(p) = {}
    BY <1>1 DEF Inv, PhaseInv
  <2>2. backups' = Abandoned(p)
    BY <1>2, <2>1 DEF Abandoned
  <2> QED
    BY <1>2, <1>3, <2>2, AbandonKeeps
<1>4. ASSUME NEW cut \in Shorter(env), files' = [files EXCEPT !["env"] = cut]
      PROVE  Kept
  <2>1. files["lock"] = NoFile
    BY <1>1 DEF BootstrapOrder
  <2>2. IsContract(files) /\ faults \in 0..MaxFaults
    BY DEF Inv, FilesInv, ProcInv
  <2>3. /\ IsContract(files') /\ files'["env"] = cut
        /\ files'["lock"] = NoFile
    BY <1>4, <2>1, <2>2 DEF IsContract, Names
  <2>4. EnvTyped(cut)
    BY <1>4 DEF Shorter, EnvTyped
  <2>5. FilesInv' /\ SettledInv'
    BY <2>3, <2>4 DEF FilesInv, SettledInv
  <2>6. backups = {} /\ BackupsInv'
    BY <1>2, <2>1, NoLockYet
  <2>7. faults' \in 0..MaxFaults
    BY <1>2, <2>2, DlcAssumption DEF Fault
  <2>8. Inv'
    BY <1>2, <2>5, <2>6, <2>7, EndKeeps
  <2> QED
    BY <2>1, <2>8 DEF Kept, LockCarried
<1> QED
  BY <1>3, <1>4 DEF WriteCutShort

\* The rollback is done: every file is what was read.
LEMMA FinishRollbackKeeps ==
  ASSUME Inv, Serialised, NEW p \in Processes, FinishRollback(p)
  PROVE  Kept
<1> DEFINE read == proc[p].read
           step == proc[p].step
           restored == {ReplaceOrder[i] : i \in 1..step}
<1>1. /\ proc[p].pc = "rollback" /\ \A name \in restored : Backup(p, name) \notin backups
      /\ backups' = IF \A name \in restored : files[name] = read[name]
                    THEN backups \ Owned(p) ELSE Abandoned(p)
      /\ End(p) /\ UNCHANGED <<files, faults>>
  BY DEF FinishRollback
<1>2. step \in 0..3
  BY <1>1 DEF Inv, ProcInv
<1>3. \A i \in 1..3 :
        \/ files[ReplaceOrder[i]] = read[ReplaceOrder[i]]
        \/ i <= step /\ Backup(p, ReplaceOrder[i]) \in backups
  BY <1>1 DEF Inv, PhaseInv, TransactionInv
<1>4. WholeContract(read) /\ files["lock"] # NoFile /\ IsContract(files)
  BY <1>1, InTransaction DEF Inv, FilesInv
<1>5. \A i \in 1..3 : i <= step => ReplaceOrder[i] \in restored
  BY <1>2
<1>6. \A i \in 1..3 : files[ReplaceOrder[i]] = read[ReplaceOrder[i]]
  <2> HIDE DEF restored, read, step
  <2> QED
    BY <1>1, <1>3, <1>5
<1>7. ReplaceOrder[1] = "intent" /\ ReplaceOrder[2] = "lock" /\ ReplaceOrder[3] = "env"
  BY DEF ReplaceOrder
<1>8. files["intent"] = read["intent"] /\ files["lock"] = read["lock"] /\ files["env"] = read["env"]
  <2> HIDE DEF read
  <2> QED
    BY <1>6, <1>7
<1> HIDE DEF read
<1>9. files = read
  BY <1>4, <1>8, SameContract DEF WholeContract
<1>10. backups' = backups \ Owned(p)
  BY <1>1, <1>9
<1> QED
  BY <1>1, <1>4, <1>9, <1>10, CleanEndKeeps DEF WholeContract

\* A command that fails before its first rename.
LEMMA CommandFailsKeeps ==
  ASSUME Inv, Serialised, NEW p \in Processes, CommandFails(p)
  PROVE  Kept
<1>1. /\ proc[p].pc \in {"write", "linkIntent", "readLock", "readEnv", "prepare", "replaceLock"}
      /\ Fault /\ backups' = backups \ Owned(p) /\ End(p) /\ UNCHANGED files
  BY DEF CommandFails
<1>2. CASE proc[p].pc = "prepare"
  <2>1. files = proc[p].read
    BY <1>2 DEF Inv, PhaseInv, TransactionInv
  <2>2. WholeContract(proc[p].read) /\ files["lock"] # NoFile
    BY <1>2, InTransaction
  <2> QED
    BY <1>1, <2>1, <2>2, CleanEndKeeps DEF WholeContract
<1>3. CASE proc[p].pc # "prepare"
  <2>1. Owned(p) = {}
    BY <1>1, <1>3 DEF Inv, PhaseInv
  <2>2. backups' = Abandoned(p)
    BY <1>1, <2>1 DEF Abandoned
  <2> QED
    BY <1>1, <2>2, AbandonKeeps
<1> QED
  BY <1>2, <1>3
\* What the operator does by hand between two commands, which leaves no backup.
LEMMA ByHandKeeps ==
  ASSUME Inv, Serialised, \A p \in Processes : proc[p] = Idle, UNCHANGED <<proc, faults>>,
         backups' = {}, FilesInv', files'["lock"] # NoFile => Coherent(files')
  PROVE  Inv'
<1>1. BackupsInv' /\ SettledInv'
  BY DEF BackupsInv, SettledInv
<1>2. ProcInv'
  BY DEF Inv, ProcInv
<1>3. ASSUME NEW p \in Processes
      PROVE  PhaseInv(p)'
  <2>1. proc'[p].pc = "idle"
    BY DEF Idle
  <2>2. Owned(p)' = {}
    BY DEF Owned
  <2>3. CreatingInv(p)' /\ ChangingInv(p)' /\ TransactionInv(p)'
    BY <2>1 DEF CreatingInv, ChangingInv, TransactionInv
  <2> QED
    BY <1>1, <2>2, <2>3 DEF PhaseInv
<1> QED
  BY <1>1, <1>2, <1>3 DEF Inv

\* Between commands the deployment is settled.
LEMMA IdleSettled ==
  ASSUME Inv, Serialised, \A p \in Processes : proc[p] = Idle
  PROVE  SettledInv /\ \A p \in Processes : Owned(p) = {}
<1>1. \A p \in Processes : proc[p].pc = "idle"
  BY DEF Idle
<1> QED
  BY <1>1 DEF Inv, PhaseInv, Serialised

\* The operator sets the digest of the lock in the environment.
LEMMA SetDigestKeeps ==
  ASSUME Inv, Serialised, SetDigest
  PROVE  Kept
<1> DEFINE lock == files["lock"]
<1>1. /\ \A p \in Processes : proc[p] = Idle
      /\ backups = {} /\ lock # NoFile
      /\ files' = [files EXCEPT !["env"] = Projection(lock)]
      /\ UNCHANGED <<backups, proc, faults>>
  BY DEF SetDigest
<1>2. SettledInv
  BY <1>1, IdleSettled
<1>3. Coherent(files)
  BY <1>1, <1>2 DEF SettledInv
<1>4. IsContract(files) /\ LockSound(lock) /\ LockTyped(lock) /\ files["intent"] # NoFile
  BY <1>1 DEF Inv, FilesInv, LockSound
<1>5. /\ IsContract(files') /\ files'["env"] = Projection(lock)
      /\ files'["intent"] = files["intent"] /\ files'["lock"] = lock
  BY <1>1, <1>4 DEF IsContract, Names
<1>6. EnvTyped(Projection(lock)) /\ Projection(lock).ids = EnabledDlcs(lock)
  BY <1>4, ProjectionTyped
<1>7. Projection(lock) # NoFile
  BY <1>6, Present
<1> HIDE DEF lock
<1>8. FilesInv'
  BY <1>4, <1>5, <1>6, <1>7 DEF FilesInv
<1>9. Coherent(files')
  <2>1. PICK e \in Engines : PairVerified(e, files["intent"], lock)
    BY <1>3 DEF Coherent, lock
  <2> QED
    BY <1>1, <1>4, <1>5, <1>6, <1>7, <2>1 DEF Coherent
<1>10. Inv'
  BY <1>1, <1>8, <1>9, ByHandKeeps
<1>11. LockCarried
  BY <1>4, <1>5, CarriedSame DEF LockCarried, lock
<1> QED
  BY <1>10, <1>11 DEF Kept

\* The operator recovers with the backups, or deletes them.
LEMMA RestoreBackupsKeeps ==
  ASSUME Inv, Serialised, RestoreBackups
  PROVE  Kept
<1>1. /\ \A p \in Processes : proc[p] = Idle
      /\ backups # {} /\ backups' = {}
      /\ files' \in IF Coherent(files) THEN {files} ELSE {c \in Choices : Coherent(c)}
      /\ UNCHANGED <<proc, faults>>
  BY DEF RestoreBackups
<1>2. SettledInv
  BY <1>1, IdleSettled
<1>3. /\ files["lock"] # NoFile /\ LockSound(files["lock"]) /\ IsContract(files)
      /\ EnvTyped(files["env"])
  BY <1>1 DEF Inv, BackupsInv, FilesInv
<1>4. CASE Coherent(files)
  <2>1. UNCHANGED files
    BY <1>1, <1>4
  <2>2. FilesInv' /\ LockCarried
    BY <2>1, UntouchedCarried
  <2>3. Inv'
    BY <1>1, <1>4, <2>1, <2>2, ByHandKeeps
  <2> QED
    BY <2>2, <2>3 DEF Kept
<1>5. CASE ~Coherent(files)
  <2>1. files' \in Choices /\ Coherent(files')
    BY <1>1, <1>5
  <2>2. files' \in ChoicesOf(files, backups)
    BY <2>1 DEF Choices, ChoicesOf
  <2>3. /\ IsContract(files')
        /\ \A name \in Names : \/ files'[name] = files[name]
                               \/ \E b \in backups : b.file = name /\ b.bytes = files'[name]
    BY <2>2, IsChoice
  <2>4. \A b \in backups : /\ b.file = "lock" => LockSound(b.bytes)
                           /\ b.file = "env" => EnvTyped(b.bytes)
    BY DEF Inv, BackupsInv
  <2>5. \A b \in backups : b.file = "lock" => Carried(files["lock"], b.bytes)
    BY <1>2, <1>3, <1>5 DEF SettledInv
  <2>6. LockSound(files'["lock"]) /\ EnvTyped(files'["env"])
    BY <1>3, <2>3, <2>4 DEF Names
  <2>7. files'["intent"] # NoFile /\ files'["lock"] # NoFile /\ files'["env"] # NoFile
    BY <2>1 DEF Coherent
  <2>8. FilesInv'
    BY <2>3, <2>6, <2>7 DEF FilesInv
  <2>9. Inv'
    BY <1>1, <2>1, <2>8, ByHandKeeps
  <2>10. LockCarried
    BY <1>3, <2>3, <2>5, CarriedSame DEF LockCarried, Names
  <2> QED
    BY <2>9, <2>10 DEF Kept
<1> QED
  BY <1>4, <1>5

\* The operator clears a directory that has no lock.
LEMMA ClearDirectoryKeeps ==
  ASSUME Inv, Serialised, ClearDirectory
  PROVE  Kept
<1>1. /\ \A p \in Processes : proc[p] = Idle
      /\ files["lock"] = NoFile /\ files' = NoContract /\ backups' = {}
      /\ UNCHANGED <<proc, faults>>
  BY DEF ClearDirectory
<1>2. IsContract(files') /\ files'["lock"] = NoFile /\ files'["env"] = NoFile
  BY <1>1 DEF IsContract, NoContract, Contract, Names
<1>3. FilesInv'
  BY <1>2 DEF FilesInv
<1>4. Inv'
  BY <1>1, <1>2, <1>3, ByHandKeeps
<1> QED
  BY <1>1, <1>4 DEF Kept, LockCarried

---------------------------------------------------------------------------
(* Files that were not written to their end. *)

\* Where a process is after it ended, began or went on.
LEMMA Whereabouts ==
  ASSUME Inv, NEW p \in Processes
  PROVE  /\ End(p) => proc'[p].pc = "idle"
         /\ \A pc, read, new : Begin(p, pc, read, new) => proc'[p].pc = pc
         /\ \A pc, step : Goto(p, pc, step) => proc'[p].pc = pc /\ proc'[p].step = step
<1>1. DOMAIN proc = Processes /\ DOMAIN proc[p] = {"pc", "read", "new", "step"}
  BY DEF Inv, ProcInv
<1>2. End(p) => proc'[p].pc = "idle"
  BY <1>1 DEF End, Idle
<1>3. \A pc, read, new : Begin(p, pc, read, new) => proc'[p].pc = pc
  BY <1>1 DEF Begin
<1>4. ASSUME NEW pc, NEW step, Goto(p, pc, step)
      PROVE  proc'[p].pc = pc /\ proc'[p].step = step
  <2>1. proc' = [proc EXCEPT ![p] = [proc[p] EXCEPT !.pc = pc, !.step = step]]
    BY <1>4 DEF Goto
  <2>2. proc'[p] = [proc[p] EXCEPT !.pc = pc, !.step = step]
    BY <1>1, <2>1
  <2> QED
    BY <1>1, <2>2
<1> QED
  BY <1>2, <1>3, <1>4

\* A step that tears no file and leaves none torn.
LEMMA NoneTorn ==
  ASSUME Serialised, NEW p \in Processes, torn' = {}, proc'[p].pc # "fill"
  PROVE  TornInv'
BY DEF TornInv, Serialised

\* A step elsewhere.
LEMMA TornLeft ==
  ASSUME TornInv, Serialised, NEW p \in Processes, UNCHANGED <<files, torn>>,
         proc[p].pc # "fill",
         proc'[p].pc \notin {"write", "fill", "linkIntent", "linkLock"}
  PROVE  TornInv'
<1>1. \A q \in Processes : q = p
  BY DEF Serialised
<1> QED
  BY <1>1 DEF TornInv

\* Beside a lock nothing is torn.
LEMMA NoneBesideLock ==
  ASSUME TornInv, Serialised, NEW p \in Processes, files["lock"] # NoFile, UNCHANGED torn,
         proc'[p].pc # "fill"
  PROVE  TornInv'
<1>1. torn = {}
  BY DEF TornInv
<1> QED
  BY <1>1, NoneTorn

\* bootstrap and adopt, which create the files.
LEMMA CreatingTears ==
  ASSUME Inv, TornInv, Serialised, NEW p \in Processes,
         \/ \E e \in Engines, selected \in SUBSET Dlcs, r \in Requirements :
              StartBootstrap(p, e, selected, r)
         \/ \E e \in Engines, features \in SUBSET Dlcs : StartAdopt(p, e, features)
         \/ CreateNew(p) \/ WriteNew(p) \/ WriteCutShort(p) \/ LinkIntent(p) \/ LinkLock(p)
  PROVE  TornInv'
<1> DEFINE step == proc[p].step
<1>1. \A q \in Processes : q = p
  BY DEF Serialised
<1>2. BootstrapOrder[1] = "env" /\ BootstrapOrder[2] = "intent" /\ BootstrapOrder[3] = "lock"
  BY DEF BootstrapOrder
<1>3. ASSUME NEW e \in Engines, NEW selected \in SUBSET Dlcs, NEW r \in Requirements,
             StartBootstrap(p, e, selected, r)
      PROVE  TornInv'
  <2>1. torn' = {} /\ proc'[p].pc = "write"
    BY <1>3, Whereabouts DEF StartBootstrap
  <2> QED
    BY <2>1, NoneTorn
<1>4. ASSUME NEW e \in Engines, NEW features \in SUBSET Dlcs, StartAdopt(p, e, features)
      PROVE  TornInv'
  <2>1. /\ proc[p] = Idle /\ "intent" \notin torn /\ "lock" \notin torn /\ UNCHANGED torn
        /\ proc'[p].pc = "linkIntent"
    BY <1>4, Whereabouts DEF StartAdopt, Exists
  <2>2. proc[p].pc # "fill"
    BY <2>1 DEF Idle
  <2>3. torn = {}
    BY <2>1, <2>2 DEF TornInv, Names
  <2> QED
    BY <2>1, <2>3, NoneTorn
<1>5. CASE CreateNew(p)
  <2> DEFINE name == BootstrapOrder[step]
  <2>1. /\ step \in 1..3 /\ torn = {}
        /\ \A i \in 1..3 : ~(i < step) => files[BootstrapOrder[i]] = NoFile
    BY <1>5 DEF CreateNew, Inv, PhaseInv, CreatingInv, TornInv
  <2>2. files[name] = NoFile /\ name \in Names /\ files["lock"] = NoFile
    BY <1>2, <2>1 DEF Names
  <2>3. torn' = {name} /\ Goto(p, "fill", step) /\ UNCHANGED files
    BY <1>5, <2>1, <2>2 DEF CreateNew, Exists
  <2>4. proc'[p].pc = "fill" /\ proc'[p].step = step
    BY <2>3, Whereabouts
  <2> QED
    BY <1>1, <2>2, <2>3, <2>4 DEF TornInv
<1>6. CASE WriteNew(p)
  <2>1. torn = {BootstrapOrder[step]} /\ torn' = torn \ {BootstrapOrder[step]}
    BY <1>6 DEF WriteNew, TornInv
  <2>2. IF step < 3 THEN Goto(p, "write", step + 1) ELSE End(p)
    BY <1>6 DEF WriteNew
  <2>3. proc'[p].pc \in {"write", "idle"}
    BY <2>2, Whereabouts
  <2> QED
    BY <2>1, <2>3, NoneTorn
<1>7. CASE WriteCutShort(p)
  <2> DEFINE name == BootstrapOrder[step]
  <2>1. torn = {name} /\ End(p)
    BY <1>7 DEF WriteCutShort, TornInv
  <2>2. proc'[p].pc = "idle"
    BY <2>1, Whereabouts
  <2>3. CASE name = "env" /\ torn' = torn \ {"env"}
    BY <2>1, <2>2, <2>3, NoneTorn
  <2>4. CASE name # "env" /\ UNCHANGED <<files, torn>>
    BY <1>1, <2>1, <2>2, <2>4 DEF TornInv
  <2> QED
    BY <1>7, <2>3, <2>4 DEF WriteCutShort
<1>8. CASE LinkIntent(p)
  <2>1. torn = {} /\ UNCHANGED torn
    BY <1>8 DEF LinkIntent, TornInv
  <2>2. proc'[p].pc \in {"linkLock", "idle"}
    BY <1>8, Whereabouts DEF LinkIntent
  <2> QED
    BY <2>1, <2>2, NoneTorn
<1>9. CASE LinkLock(p)
  <2>1. torn = {} /\ UNCHANGED torn
    BY <1>9 DEF LinkLock, TornInv
  <2>2. proc'[p].pc = "idle"
    BY <1>9, Whereabouts DEF LinkLock
  <2> QED
    BY <2>1, <2>2, NoneTorn
<1> QED
  BY <1>3, <1>4, <1>5, <1>6, <1>7, <1>8, <1>9

\* The commands that change a contract read it first, and tear nothing.
LEMMA ChangingTearsNone ==
  ASSUME Inv, TornInv, Serialised, NEW p \in Processes,
         \/ \E e \in Engines, c \in Commands : ReadEnv(p, e, c)
         \/ \E e \in Engines : VerifyRecord(p, e)
         \/ StartCommand(p) \/ ReadLock(p) \/ PrepareFile(p) \/ RenameFile(p)
         \/ FinishCommit(p) \/ CommitFails(p) \/ RollbackFile(p) \/ FinishRollback(p)
         \/ RollbackFails(p) \/ ReplaceLock(p) \/ CommandFails(p) \/ Crash(p)
  PROVE  TornInv'
<1> DEFINE Elsewhere ==
      /\ UNCHANGED <<files, torn>> /\ proc[p].pc # "fill"
      /\ proc'[p].pc \in {"idle", "readLock", "readEnv", "prepare", "commit", "rollback",
                          "replaceLock"}
<1>0. Elsewhere => TornInv'
  BY TornLeft
<1> HIDE DEF Elsewhere
<1>1. ASSUME NEW e \in Engines, NEW c \in Commands, ReadEnv(p, e, c)
      PROVE  TornInv'
  <2>1. proc'[p].pc \in {"idle", "prepare"}
    BY <1>1, Whereabouts DEF ReadEnv
  <2>2. Elsewhere
    BY <1>1, <2>1 DEF ReadEnv, Elsewhere
  <2> QED
    BY <1>0, <2>2
<1>2. ASSUME NEW e \in Engines, VerifyRecord(p, e)
      PROVE  TornInv'
  <2>1. proc'[p].pc \in {"idle", "replaceLock"}
    BY <1>2, Whereabouts DEF VerifyRecord
  <2>2. Elsewhere
    BY <1>2, <2>1 DEF VerifyRecord, Elsewhere
  <2> QED
    BY <1>0, <2>2
<1>3. CASE StartCommand(p)
  <2>1. proc'[p].pc = "readLock" /\ proc[p].pc # "fill"
    BY <1>3, Whereabouts DEF StartCommand, Idle
  <2>2. Elsewhere
    BY <1>3, <2>1 DEF StartCommand, Elsewhere
  <2> QED
    BY <1>0, <2>2
<1>4. CASE ReadLock(p)
  <2>1. DOMAIN proc = Processes /\ DOMAIN proc[p] = {"pc", "read", "new", "step"}
    BY DEF Inv, ProcInv
  <2>2. \/ End(p)
        \/ proc' = [proc EXCEPT ![p] = [proc[p] EXCEPT !.read["lock"] = files["lock"],
                                                      !.pc = "readEnv"]]
    BY <1>4 DEF ReadLock
  <2>3. proc'[p].pc \in {"idle", "readEnv"}
    BY <2>1, <2>2, Whereabouts
  <2>4. Elsewhere
    BY <1>4, <2>3 DEF ReadLock, Elsewhere
  <2> QED
    BY <1>0, <2>4
<1>5. CASE PrepareFile(p)
  <2>1. proc'[p].pc \in {"idle", "prepare", "commit"}
    BY <1>5, Whereabouts DEF PrepareFile
  <2>2. Elsewhere
    BY <1>5, <2>1 DEF PrepareFile, Elsewhere
  <2> QED
    BY <1>0, <2>2
<1>6. CASE CommitFails(p)
  <2>1. proc'[p].pc = "rollback"
    BY <1>6, Whereabouts DEF CommitFails
  <2>2. Elsewhere
    BY <1>6, <2>1 DEF CommitFails, Elsewhere
  <2> QED
    BY <1>0, <2>2
<1>7. CASE FinishCommit(p) \/ FinishRollback(p) \/ RollbackFails(p) \/ CommandFails(p) \/ Crash(p)
  <2>1. End(p)
    BY <1>7 DEF FinishCommit, FinishRollback, RollbackFails, CommandFails, Crash
  <2>2. proc[p].pc # "fill" /\ UNCHANGED <<files, torn>>
    BY <1>7 DEF FinishCommit, FinishRollback, RollbackFails, CommandFails, Crash
  <2>3. Elsewhere
    BY <2>1, <2>2, Whereabouts DEF Elsewhere
  <2> QED
    BY <1>0, <2>3
<1>8. CASE RenameFile(p)
  <2>1. proc[p].pc = "commit" /\ proc'[p].pc = "commit" /\ UNCHANGED torn
    BY <1>8, Whereabouts DEF RenameFile
  <2>2. files["lock"] # NoFile
    BY <2>1, InTransaction
  <2> QED
    BY <2>1, <2>2, NoneBesideLock
<1>9. CASE RollbackFile(p)
  <2>1. proc[p].pc = "rollback" /\ UNCHANGED <<torn, proc>>
    BY <1>9 DEF RollbackFile
  <2>2. files["lock"] # NoFile
    BY <2>1, InTransaction
  <2> QED
    BY <2>1, <2>2, NoneBesideLock
<1>10. CASE ReplaceLock(p)
  <2>1. proc[p].pc = "replaceLock" /\ proc'[p].pc = "idle" /\ UNCHANGED torn
    BY <1>10, Whereabouts DEF ReplaceLock
  <2>2. files["lock"] # NoFile
    BY <2>1 DEF Inv, PhaseInv, ChangingInv
  <2> QED
    BY <2>1, <2>2, NoneBesideLock
<1> QED
  BY <1>1, <1>2, <1>3, <1>4, <1>5, <1>6, <1>7, <1>8, <1>9, <1>10

\* Every step of the command line and of the operator.
LEMMA TornKept ==
  ASSUME Inv, TornInv, Serialised, [Next]_vars
  PROVE  TornInv'
<1>0. PICK p \in Processes : TRUE
  BY DEF Serialised
<1>1. CASE SetDigest \/ RestoreBackups \/ ClearDirectory
  <2>1. proc[p] = Idle /\ UNCHANGED proc
    BY <1>1 DEF SetDigest, RestoreBackups, ClearDirectory
  <2>2. proc'[p].pc # "fill"
    BY <2>1 DEF Idle
  <2>3. CASE torn' = {}
    BY <2>2, <2>3, NoneTorn
  <2>4. CASE files["lock"] # NoFile /\ UNCHANGED torn
    BY <2>2, <2>4, NoneBesideLock
  <2>5. backups # {} => files["lock"] # NoFile
    BY DEF Inv, BackupsInv
  <2> QED
    BY <1>1, <2>3, <2>4, <2>5 DEF SetDigest, RestoreBackups, ClearDirectory
<1>2. ASSUME NEW q \in Processes, Steps(q)
      PROVE  TornInv'
  BY <1>2, CreatingTears, ChangingTearsNone DEF Steps
<1>3. CASE UNCHANGED vars
  <2>1. UNCHANGED <<files, torn, proc>>
    BY <1>3 DEF vars
  <2> QED
    BY <2>1 DEF TornInv
<1> QED
  BY <1>1, <1>2, <1>3 DEF Next

---------------------------------------------------------------------------
(* The theorems. *)

\* Before the first command there is no lock.
LEMMA InitKeeps ==
  ASSUME Init
  PROVE  Inv
<1>1. PICK e \in {NoFile} \cup [ids : {Missing} \cup SUBSET Dlcs, digest : {Missing}] :
        files = Contract(NoFile, NoFile, e)
  BY DEF Init
<1>2. /\ backups = {} /\ faults = 0 /\ proc = [p \in Processes |-> Idle]
  BY DEF Init
<1>3. /\ IsContract(files) /\ files["lock"] = NoFile /\ files["env"] = e
      /\ IsContract(NoContract)
  BY <1>1 DEF IsContract, Contract, NoContract, Names
<1>4. e # NoFile => EnvTyped(e)
  BY <1>1 DEF EnvTyped
<1>5. FilesInv
  BY <1>3, <1>4 DEF FilesInv
<1>6. BackupsInv /\ SettledInv
  BY <1>2, <1>3 DEF BackupsInv, SettledInv
<1>7. /\ DOMAIN Idle = {"pc", "read", "new", "step"} /\ Idle.pc = "idle" /\ Idle.step = 0
      /\ Idle.read = NoContract /\ Idle.new = NoContract
  BY DEF Idle
<1>8. ProcInv
  <2>1. "idle" \in Phases /\ "idle" # "rollback" /\ 0 \in 0..4 /\ 0 \in 0..MaxFaults
    BY DlcAssumption DEF Phases
  <2> QED
    BY <1>2, <1>3, <1>7, <2>1 DEF ProcInv
<1>9. ASSUME NEW p \in Processes
      PROVE  PhaseInv(p)
  <2>1. proc[p].pc = "idle"
    BY <1>2, <1>7
  <2>2. Owned(p) = {}
    BY <1>2 DEF Owned
  <2> QED
    BY <1>6, <2>1, <2>2 DEF PhaseInv, CreatingInv, ChangingInv, TransactionInv
<1> QED
  BY <1>5, <1>6, <1>8, <1>9 DEF Inv

\* Every step of the command line and of the operator.
LEMMA NextKeeps ==
  ASSUME Inv, TornInv, Serialised, [Next]_vars
  PROVE  Kept
<1>1. CASE SetDigest
  BY <1>1, SetDigestKeeps
<1>2. CASE RestoreBackups \/ ClearDirectory
  BY <1>2, RestoreBackupsKeeps, ClearDirectoryKeeps
<1>3. ASSUME NEW p \in Processes, Steps(p)
      PROVE  Kept
  <2>1. ASSUME NEW e \in Engines, NEW selected \in SUBSET Dlcs, NEW r \in Requirements,
               StartBootstrap(p, e, selected, r)
        PROVE  Kept
    BY <2>1, StartBootstrapKeeps
  <2>2. ASSUME NEW e \in Engines, NEW features \in SUBSET Dlcs, StartAdopt(p, e, features)
        PROVE  Kept
    BY <2>2, StartAdoptKeeps
  <2>3. ASSUME NEW e \in Engines, NEW c \in Commands, ReadEnv(p, e, c)
        PROVE  Kept
    BY <2>3, ReadEnvKeeps
  <2>4. ASSUME NEW e \in Engines, VerifyRecord(p, e)
        PROVE  Kept
    BY <2>4, VerifyRecordKeeps
  <2>5. CASE CreateNew(p) \/ WriteNew(p) \/ WriteCutShort(p) \/ LinkIntent(p) \/ LinkLock(p)
    BY <2>5, CreateNewKeeps, WriteNewKeeps, WriteCutShortKeeps, LinkIntentKeeps, LinkLockKeeps
  <2>6. CASE StartCommand(p) \/ ReadLock(p)
    BY <2>6, StartCommandKeeps, ReadLockKeeps
  <2>7. CASE PrepareFile(p) \/ RenameFile(p) \/ FinishCommit(p) \/ CommitFails(p)
    BY <2>7, PrepareFileKeeps, RenameFileKeeps, FinishCommitKeeps, CommitFailsKeeps
  <2>8. CASE RollbackFile(p) \/ FinishRollback(p) \/ ReplaceLock(p) \/ CommandFails(p)
    BY <2>8, RollbackFileKeeps, FinishRollbackKeeps, ReplaceLockKeeps, CommandFailsKeeps
  <2>9. CASE RollbackFails(p) \/ Crash(p)
    BY <2>9, AbandonKeeps DEF RollbackFails, Crash
  <2> QED
    BY <1>3, <2>1, <2>2, <2>3, <2>4, <2>5, <2>6, <2>7, <2>8, <2>9 DEF Steps
<1>4. CASE UNCHANGED vars
  <2>1. UNCHANGED <<files, backups, proc, faults>>
    BY <1>4 DEF vars
  <2>2. LockCarried
    BY <2>1, UntouchedCarried
  <2>3. Inv'
    BY <2>1 DEF Inv, FilesInv, BackupsInv, ProcInv, PhaseInv, SettledInv, CreatingInv,
                ChangingInv, TransactionInv, Owned, Choices, Backup
  <2> QED
    BY <2>2, <2>3 DEF Kept
<1> QED
  BY <1>1, <1>2, <1>3, <1>4 DEF Next
\* A verified contract can be put together whatever a process is doing.
LEMMA InvRecoverable ==
  ASSUME Inv, TornInv, Serialised
  PROVE  Recoverable
<1>0. torn # {} => files["lock"] = NoFile
  BY DEF TornInv
<1> SUFFICES ASSUME files["lock"] # NoFile
             PROVE  \E contract \in ChoicesOf(files, backups) : Coherent(contract)
  BY <1>0 DEF Recoverable, Choices, ChoicesOf
<1>1. PICK p \in Processes : TRUE
  BY DEF Serialised
<1>2. CASE proc[p].pc \in {"prepare", "commit", "rollback"}
  <2> DEFINE read == proc[p].read
  <2>1. /\ WholeContract(read)
        /\ \A name \in Names : files[name] = read[name] \/ Backup(p, name) \in backups
    BY <1>2, InTransaction
  <2>2. \A name \in Names : Backup(p, name).file = name /\ Backup(p, name).bytes = read[name]
    BY <1>2, BackupTyped
  <2> HIDE DEF read
  <2>3. \A name \in Names : \/ read[name] = files[name]
                            \/ \E b \in backups : b.file = name /\ b.bytes = read[name]
    BY <2>1, <2>2
  <2>4. read \in ChoicesOf(files, backups)
    BY <2>1, <2>3, IsChoice DEF WholeContract
  <2> QED
    BY <2>1, <2>4 DEF WholeContract
<1>3. CASE proc[p].pc \notin {"prepare", "commit", "rollback"}
  <2>1. SettledInv
    BY <1>3 DEF Inv, PhaseInv
  <2>2. IsContract(files)
    BY DEF Inv, FilesInv
  <2>3. files \in ChoicesOf(files, backups)
    BY <2>2, IsChoice
  <2> QED
    BY <2>1, <2>3 DEF SettledInv, Choices, ChoicesOf
<1> QED
  BY <1>2, <1>3

\* The history, the state records and the three files agree.
LEMMA InvLockFaithful ==
  ASSUME Inv, Serialised
  PROVE  LockFaithful
<1>1. files["lock"] # NoFile => LockExplained(files["lock"])
  BY DEF Inv, FilesInv, LockSound
<1>2. HistoryExplainsLock /\ StateNeverDropped
  BY <1>1 DEF HistoryExplainsLock, StateNeverDropped, LockExplained
<1>3. ASSUME faults = 0, \A p \in Processes : proc[p] = Idle, files["lock"] # NoFile
      PROVE  Coherent(files)
  <2>1. SettledInv /\ \A p \in Processes : Owned(p) = {}
    BY <1>3, IdleSettled
  <2>2. \A b \in backups : b.owner \in Processes
    BY <1>3 DEF Inv, BackupsInv
  <2>3. backups = {}
    BY <2>1, <2>2 DEF Owned
  <2> QED
    BY <1>3, <2>1, <2>3 DEF SettledInv
<1> QED
  BY <1>2, <1>3 DEF LockFaithful, UpdatedTogether

\* The files and the backups are of their types.
LEMMA InvTyped ==
  ASSUME Inv, TornInv
  PROVE  TypeOK
<1>1. files["lock"] # NoFile => LockTyped(files["lock"])
  BY DEF Inv, FilesInv, LockSound
<1>2. files["env"] # NoFile => EnvTyped(files["env"])
  BY DEF Inv, FilesInv
<1>3. \A b \in backups : /\ b.owner \in Processes \cup {Missing} /\ b.file \in Names
                         /\ b.file = "lock" => LockTyped(b.bytes)
                         /\ b.file = "env" => EnvTyped(b.bytes)
  BY DEF Inv, BackupsInv, LockSound
<1>4. /\ \A p \in Processes : proc[p].step \in IF proc[p].pc = "rollback" THEN 0..3 ELSE 0..4
      /\ faults \in 0..MaxFaults
  BY DEF Inv, ProcInv
<1>5. torn \subseteq Names
  BY DEF TornInv
<1> QED
  BY <1>1, <1>2, <1>3, <1>4, <1>5 DEF TypeOK

\* The inductive invariant: at every point of every command where the three
\* files stand, which of them are backed up or torn, and what the lock promises.
THEOREM ContractInv ==
  ASSUME Serialised
  PROVE  Spec => [](Inv /\ TornInv)
<1>1. Init => Inv /\ TornInv
  <2>1. Init => TornInv
    BY DEF Init, TornInv, Idle
  <2> QED
    BY <2>1, InitKeeps
<1>2. Inv /\ TornInv /\ [Next]_vars => Inv' /\ TornInv'
  BY NextKeeps, TornKept DEF Kept
<1> QED
  BY <1>1, <1>2, PTL DEF Spec

\* The files, the backups and the processes of a deployment are always of their
\* declared types.
THEOREM ContractTyped ==
  ASSUME Serialised
  PROVE  Spec => []TypeOK
<1>1. Inv /\ TornInv => TypeOK
  BY InvTyped
<1> QED
  BY <1>1, ContractInv, PTL

\* transactional_replace and its rollback, for any catalogue and any number of
\* commands, I/O errors and crashes: once the lock was written to its end, a
\* contract that some engine verifies can be put together from the files and
\* the backups beside them; a file that bootstrap was cut short in is never
\* beside a lock.
THEOREM ContractRecoverable ==
  ASSUME Serialised
  PROVE  Spec => []Recoverable
<1>1. Inv /\ TornInv => Recoverable
  BY InvRecoverable
<1> QED
  BY <1>1, ContractInv, PTL

\* The commands of dlc_lifecycle.rs, for any catalogue and any sequence of them:
\* the history of the lock says what is installed, at which version and whether
\* enabled, no state record is lost, and between commands that did not fail the
\* three files agree.
THEOREM ContractFaithful ==
  ASSUME Serialised
  PROVE  Spec => []LockFaithful
<1>1. Inv => LockFaithful
  BY InvLockFaithful
<1> QED
  BY <1>1, ContractInv, PTL

\* The state version of a DLC survives its removal and its return, through
\* rollbacks and recoveries by hand, whichever engine brings it back.
THEOREM ContractStateCarried ==
  ASSUME Serialised
  PROVE  Spec => StateCarried
<1> DEFINE Carries ==
      \A d \in Dlcs :
       LET old == files["lock"]
           new == files'["lock"]
       IN  old # NoFile /\ new # NoFile =>
             /\ d \in DOMAIN old.retained /\ d \in DOMAIN new.dlcs =>
                  new.dlcs[d].state = old.retained[d].state
             /\ d \in DOMAIN old.dlcs /\ d \in DOMAIN new.retained =>
                  new.retained[d].state = old.dlcs[d].state
<1>1. Inv /\ TornInv /\ [Next]_vars => [Carries]_vars
  <2>1. LockCarried => Carries
    BY DEF LockCarried, Carried
  <2> QED
    BY <2>1, NextKeeps DEF Kept
<1>2. Spec => [][Carries]_vars
  <2> HIDE DEF Carries
  <2> QED
    BY <1>1, ContractInv, PTL DEF Spec
<1> QED
  BY <1>2 DEF StateCarried
=============================================================================
