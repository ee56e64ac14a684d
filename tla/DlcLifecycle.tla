---------------------------- MODULE DlcLifecycle ----------------------------
(***************************************************************************)
(* The installation contract of a deployment: the operator's intent, the   *)
(* exact lock and the environment that projects it, and the command line   *)
(* that writes the three files: bootstrap, adopt, the add-on (DLC)         *)
(* commands and the engine upgrade record.  Every command reads the files, *)
(* computes new ones and replaces them one rename at a time; an I/O error  *)
(* rolls back, a crash does not.                                           *)
(*                                                                         *)
(* A version requirement is the set of versions it matches, a manifest     *)
(* stands for its own digest, and a lock for its own.  The executors of    *)
(* state migrations do not exist yet, so the list of applied migrations is *)
(* empty throughout and left out.                                          *)
(***************************************************************************)
EXTENDS Integers, Sequences, FiniteSets

CONSTANTS
  DlcOrder,         \* the official DLCs, sorted by id
  Engines,          \* engine versions, one command line binary each
  Catalog,          \* per engine and DLC: the manifest compiled in, or Missing
  Requirements,     \* the version requirements an operator may ask for
  RuntimeRequired,  \* DLCs the runtime configuration needs enabled
  Processes,        \* command line processes that may run at the same time
  MaxHistory,       \* bound: DLC history records
  MaxFaults,        \* bound: crashes and I/O errors
  Missing           \* no manifest, no version, no value

Dlcs == {DlcOrder[i] : i \in 1..Len(DlcOrder)}
Manifests == {Catalog[e][d] : e \in Engines, d \in Dlcs} \ {Missing}
Versions == {manifest.version : manifest \in Manifests}

ASSUME DlcAssumption ==
  /\ Engines \subseteq Nat
  /\ RuntimeRequired \subseteq Dlcs
  /\ Requirements \subseteq SUBSET Versions
  /\ Versions \subseteq Nat
  /\ \A manifest \in Manifests : manifest.state \in Nat \cup {Missing}
  /\ DlcOrder \in Seq(Dlcs)
  /\ "absent" \notin Dlcs
  /\ Missing \notin Processes
  /\ MaxHistory \in Nat /\ MaxFaults \in Nat

VARIABLES
  files,    \* the three contract files, by name, as they can be read
  torn,     \* the files that were created and not written to the end
  backups,  \* .backup files beside them: who wrote them, for which file, its bytes
  proc,     \* per process: the command it runs and how far it is
  faults    \* crashes and I/O errors so far

vars == <<files, torn, backups, proc, faults>>

Names == {"intent", "lock", "env"}
\* What is read where there is no file: the bytes of no contract file.
NoFile == [absent |-> TRUE]
\* Mutant: the lock is written before the intent.
BootstrapLockFirst == <<"env", "lock", "intent">>

\* bootstrap: the order in which the files are created.
BootstrapOrder == <<"env", "intent", "lock">>
ReplaceOrder == <<"intent", "lock", "env">>
Contract(i, l, e) == [intent |-> i, lock |-> l, env |-> e]
NoContract == Contract(NoFile, NoFile, NoFile)

Idle == [pc |-> "idle", read |-> NoContract, new |-> NoContract, step |-> 0]

(***************************************************************************)
(* The contract types of the plugin API and their validation.              *)
(***************************************************************************)
Restrict(f, S) == [x \in DOMAIN f \cap S |-> f[x]]
Update(f, x, y) == [z \in DOMAIN f \cup {x} |-> IF z = x THEN y ELSE f[z]]

\* InstalledDlc::validate: what the record itself promises.
InstalledDlcValid(dlc, engine) ==
  /\ dlc.version \in dlc.requested
  /\ engine \in dlc.manifest.core
  /\ dlc.state # 0

\* DlcHistoryRecord::validate.
HistoryRecordValid(record) ==
  CASE record.action = "installed" -> record.from = Missing /\ record.to # Missing
    [] record.action = "upgraded"  -> /\ record.from # Missing /\ record.to # Missing
                                      /\ record.to > record.from
    [] record.action = "removed"   -> record.from # Missing /\ record.to = Missing
    [] OTHER                       -> record.from # Missing /\ record.from = record.to

\* InstallationLock::validate.
LockValid(lock) ==
  /\ \A d \in DOMAIN lock.dlcs : InstalledDlcValid(lock.dlcs[d], lock.engine)
  /\ DOMAIN lock.dlcs \cap DOMAIN lock.retained = {}
  /\ \A d \in DOMAIN lock.retained : lock.retained[d].state # 0
  /\ \A i \in 1..Len(lock.history) : HistoryRecordValid(lock.history[i])

\* verify_bundled_official_manifest_bytes: every record is the manifest that
\* is compiled into this command line.
BundledManifests(engine, lock) ==
  \A d \in DOMAIN lock.dlcs :
    /\ Catalog[engine][d] # Missing
    /\ lock.dlcs[d].manifest = Catalog[engine][d]
    /\ lock.dlcs[d].version = Catalog[engine][d].version

\* verify_intent_lock_pair.
PairVerified(engine, intent, lock) ==
  /\ LockValid(lock)
  /\ BundledManifests(engine, lock)
  /\ intent = [d \in DOMAIN lock.dlcs |->
                 [version |-> lock.dlcs[d].requested, enabled |-> lock.dlcs[d].enabled]]

EnabledDlcs(lock) == {d \in DOMAIN lock.dlcs : lock.dlcs[d].enabled}

\* Mutant: disabled DLCs stay in the environment.
ProjectionInstalled(lock) == [ids |-> DOMAIN lock.dlcs, digest |-> lock]

\* enabled_composition, and the environment persist and bootstrap render.
Projection(lock) == [ids |-> EnabledDlcs(lock), digest |-> lock]

\* validate_enabled_dependencies.
DependenciesValid(lock) ==
  \A d \in EnabledDlcs(lock) :
    \A needed \in DOMAIN lock.dlcs[d].manifest.requires :
      /\ needed \in EnabledDlcs(lock)
      /\ lock.dlcs[needed].version \in lock.dlcs[d].manifest.requires[needed]

\* ensure_no_enabled_dependents.
NoEnabledDependents(lock, target) ==
  \A d \in EnabledDlcs(lock) \ {target} :
    target \notin DOMAIN lock.dlcs[d].manifest.requires

\* push_history: the sequence number is the position.
HistoryRecord(action, d, from, to, engine) ==
  [action |-> action, dlc |-> d, from |-> from, to |-> to, engine |-> engine]
PushHistory(history, action, d, from, to, engine) ==
  Append(history, HistoryRecord(action, d, from, to, engine))

\* A loop over the DLCs in the order of their ids that pushes the records of
\* those that have one.
PushEach(history, records) ==
  LET pushed[n \in 0..Len(DlcOrder)] ==
        IF n = 0 THEN history
        ELSE IF DlcOrder[n] \in DOMAIN records
             THEN Append(pushed[n - 1], records[DlcOrder[n]])
             ELSE pushed[n - 1]
  IN  pushed[Len(DlcOrder)]

(***************************************************************************)
(* What each command makes of the intent and the lock it loaded: the set   *)
(* of its outcomes, empty when it refuses or finds nothing to do.          *)
(***************************************************************************)
When(condition, outcome) == IF condition THEN {outcome} ELSE {}
Pair(i, l) == [intent |-> i, lock |-> l]

\* resolve_official: the requested range and the engine both accept the
\* manifest.
Resolves(engine, d, requirement) ==
  /\ Catalog[engine][d] # Missing
  /\ Catalog[engine][d].version \in requirement
  /\ engine \in Catalog[engine][d].core

Resolved(engine, d, requirement, enabled) ==
  [requested |-> requirement, version |-> Catalog[engine][d].version,
   manifest |-> Catalog[engine][d], enabled |-> enabled,
   state |-> Catalog[engine][d].state]

\* Mutant: the state of the removed DLC stays behind in the lock.
AddFresh(engine, intent, lock, d, requirement) ==
  LET new == Resolved(engine, d, requirement, TRUE)
  IN  When(lock.engine = engine /\ d \notin DOMAIN intent /\ Resolves(engine, d, requirement),
        Pair(Update(intent, d, [version |-> requirement, enabled |-> TRUE]),
             [lock EXCEPT !.dlcs = Update(@, d, new),
                          !.retained = Restrict(@, Dlcs \ {d}),
                          !.history = PushHistory(@, "installed", d, Missing, new.version, engine)]))

\* run, Add: a removed DLC comes back with the state it left.
Add(engine, intent, lock, d, requirement) ==
  LET fresh == Resolved(engine, d, requirement, TRUE)
      new == IF d \in DOMAIN lock.retained
             THEN [fresh EXCEPT !.state = lock.retained[d].state]
             ELSE fresh
  IN  When(lock.engine = engine /\ d \notin DOMAIN intent /\ Resolves(engine, d, requirement),
        Pair(Update(intent, d, [version |-> requirement, enabled |-> TRUE]),
             [lock EXCEPT !.dlcs = Update(@, d, new),
                          !.retained = Restrict(@, Dlcs \ {d}),
                          !.history = PushHistory(@, "installed", d, Missing, new.version, engine)]))

\* Mutant: the history is not written.
SetEnabledSilently(engine, intent, lock, d, enabled) ==
  When(/\ lock.engine = engine
       /\ enabled \/ (d \notin RuntimeRequired /\ NoEnabledDependents(lock, d))
       /\ d \in DOMAIN intent
       /\ lock.dlcs[d].enabled # enabled,
    Pair([intent EXCEPT ![d].enabled = enabled], [lock EXCEPT !.dlcs[d].enabled = enabled]))

\* set_enabled.
SetEnabled(engine, intent, lock, d, enabled) ==
  LET version == lock.dlcs[d].version
  IN  When(/\ lock.engine = engine
           /\ enabled \/ (d \notin RuntimeRequired /\ NoEnabledDependents(lock, d))
           /\ d \in DOMAIN intent
           /\ lock.dlcs[d].enabled # enabled,
        Pair([intent EXCEPT ![d].enabled = enabled],
             [lock EXCEPT !.dlcs[d].enabled = enabled,
                          !.history = PushHistory(@, IF enabled THEN "enabled" ELSE "disabled",
                                                  d, version, version, engine)]))

\* carry_state and ensure_immutable_release: the record a DLC is re-resolved
\* to, the switch carried over and the state version not.
Reresolved(engine, old, d, requirement) ==
  Resolved(engine, d, requirement, old.enabled)
MayReplace(old, new) ==
  /\ old.version = new.version => old.manifest = new.manifest
  /\ new.version >= old.version

\* The history records of the DLCs whose version rises, in the order of ids.
PushUpgrades(lock, dlcs, engine) ==
  LET raised == {d \in DOMAIN dlcs : dlcs[d].version > lock.dlcs[d].version}
  IN  PushEach(lock.history,
        [d \in raised |->
           HistoryRecord("upgraded", d, lock.dlcs[d].version, dlcs[d].version, engine)])

\* upgrade of one DLC, with a new requirement or its own, or of every DLC.
Upgrade(engine, intent, lock, targets, requirement) ==
  LET wanted == [d \in DOMAIN intent |->
                   IF requirement = Missing THEN intent[d].version ELSE requirement]
      dlcs == [d \in DOMAIN lock.dlcs |->
                 IF d \in targets THEN Reresolved(engine, lock.dlcs[d], d, wanted[d])
                                  ELSE lock.dlcs[d]]
  IN  When(/\ lock.engine = engine
           /\ targets # {} /\ targets \subseteq DOMAIN intent
           /\ \A d \in targets : /\ Resolves(engine, d, wanted[d])
                                 /\ MayReplace(lock.dlcs[d], dlcs[d])
           /\ dlcs # lock.dlcs,
        Pair([d \in DOMAIN intent |->
                IF d \in targets THEN [intent[d] EXCEPT !.version = wanted[d]] ELSE intent[d]],
             [lock EXCEPT !.dlcs = dlcs, !.history = PushUpgrades(lock, dlcs, engine)]))

\* reconcile, run from the command line of the candidate engine.
Reconcile(engine, intent, lock) ==
  LET dlcs == [d \in DOMAIN lock.dlcs |->
                 Reresolved(engine, lock.dlcs[d], d, intent[d].version)]
  IN  When(/\ engine > lock.engine
           /\ \A d \in DOMAIN intent : /\ Resolves(engine, d, intent[d].version)
                                       /\ MayReplace(lock.dlcs[d], dlcs[d]),
        Pair(intent, [lock EXCEPT !.engine = engine, !.source = "release", !.dlcs = dlcs,
                                  !.history = PushUpgrades(lock, dlcs, engine)]))

\* Mutant: the state record is dropped with the DLC.
RemoveForgets(engine, intent, lock, d) ==
  When(/\ lock.engine = engine
       /\ d \notin RuntimeRequired /\ NoEnabledDependents(lock, d)
       /\ d \in DOMAIN lock.dlcs,
    Pair(Restrict(intent, Dlcs \ {d}),
         [lock EXCEPT !.dlcs = Restrict(@, Dlcs \ {d}),
                      !.history = PushHistory(@, "removed", d, lock.dlcs[d].version,
                                              Missing, engine)]))

\* remove: out of the composition, its state retained.
Remove(engine, intent, lock, d) ==
  When(/\ lock.engine = engine
       /\ d \notin RuntimeRequired /\ NoEnabledDependents(lock, d)
       /\ d \in DOMAIN lock.dlcs,
    Pair(Restrict(intent, Dlcs \ {d}),
         [lock EXCEPT !.dlcs = Restrict(@, Dlcs \ {d}),
                      !.retained = Update(@, d, [version |-> lock.dlcs[d].version,
                                                 state |-> lock.dlcs[d].state]),
                      !.history = PushHistory(@, "removed", d, lock.dlcs[d].version,
                                              Missing, engine)]))

Commands ==
       [op : {"add"}, dlc : Dlcs, requirement : Requirements]
  \cup [op : {"enable", "disable", "remove", "upgrade"}, dlc : Dlcs]
  \cup [op : {"require"}, dlc : Dlcs, requirement : Requirements]
  \cup [op : {"upgradeAll", "reconcile"}]

\* run: the command, applied to the deployment it loaded.
Outcome(engine, command, intent, lock) ==
  CASE command.op = "add" -> Add(engine, intent, lock, command.dlc, command.requirement)
    [] command.op = "enable" -> SetEnabled(engine, intent, lock, command.dlc, TRUE)
    [] command.op = "disable" -> SetEnabled(engine, intent, lock, command.dlc, FALSE)
    [] command.op = "remove" -> Remove(engine, intent, lock, command.dlc)
    [] command.op = "upgrade" -> Upgrade(engine, intent, lock, {command.dlc}, Missing)
    [] command.op = "require" ->
         Upgrade(engine, intent, lock, {command.dlc}, command.requirement)
    [] command.op = "upgradeAll" -> Upgrade(engine, intent, lock, DOMAIN intent, Missing)
    [] OTHER -> Reconcile(engine, intent, lock)

\* InstallationLock::record_engine_upgrade and the tuple its caller sets.
RecordEngineUpgrade(engine, intent, lock) ==
  LET new == [lock EXCEPT !.engine = engine, !.source = "release"]
  IN  When(engine > lock.engine /\ PairVerified(engine, intent, new), Pair(intent, new))

\* The lock bootstrap and adopt write for a selection of DLCs.
NewLock(engine, selected, requirement, source) ==
  [engine |-> engine, source |-> source,
   dlcs |-> [d \in selected |-> Resolved(engine, d, requirement[d], TRUE)],
   retained |-> [d \in {} |-> Missing],
   history |-> PushEach(<<>>,
     [d \in selected |->
        HistoryRecord("installed", d, Missing, Catalog[engine][d].version, engine)])]

NewIntent(lock) == [d \in DOMAIN lock.dlcs |->
                      [version |-> lock.dlcs[d].requested, enabled |-> TRUE]]

(***************************************************************************)
(* The processes.                                                          *)
(***************************************************************************)
Begin(p, pc, read, new) ==
  proc' = [proc EXCEPT ![p] = [pc |-> pc, read |-> read, new |-> new, step |-> 1]]
Goto(p, pc, step) == proc' = [proc EXCEPT ![p].pc = pc, ![p].step = step]
End(p) == proc' = [proc EXCEPT ![p] = Idle]

Exists(name) == files[name] # NoFile \/ name \in torn

Owned(p) == {b \in backups : b.owner = p}
\* The backups a process leaves behind: nobody removes them but the operator.
\* The operator recovers with those of the last command that left any: its
\* nonce, a time-ordered UUID, is in their names.
Abandoned(p) ==
  IF Owned(p) = {} THEN backups
  ELSE {b \in backups : b.owner \in Processes \ {p}}
         \cup {[b EXCEPT !.owner = Missing] : b \in Owned(p)}
Fault == faults < MaxFaults /\ faults' = faults + 1

\* bootstrap: everything is checked and computed, the files are then created.
StartBootstrap(p, engine, selected, requirement) ==
  LET lock == NewLock(engine, selected, [d \in selected |-> requirement], "source-checkout")
  IN  /\ proc[p] = Idle
      /\ files = NoContract /\ torn = {}
      /\ RuntimeRequired \subseteq selected
      /\ \A d \in selected : Catalog[engine][d] # Missing
      /\ LockValid(lock)
      /\ Begin(p, "write", NoContract,
               Contract(NewIntent(lock), lock, Projection(lock)))
      /\ UNCHANGED <<files, torn, backups, faults>>

\* write_new_with_permissions: open refuses a file that exists ...
CreateNew(p) ==
  LET name == BootstrapOrder[proc[p].step]
  IN  /\ proc[p].pc = "write"
      /\ \/ /\ ~Exists(name)
            /\ torn' = torn \cup {name}
            /\ Goto(p, "fill", proc[p].step)
         \/ /\ Exists(name)
            /\ End(p)
            /\ UNCHANGED torn
      /\ UNCHANGED <<files, backups, faults>>

\* ... write_all and sync_all bring the bytes there.
WriteNew(p) ==
  LET name == BootstrapOrder[proc[p].step]
  IN  /\ proc[p].pc = "fill"
      /\ files' = [files EXCEPT ![name] = proc[p].new[name]]
      /\ torn' = torn \ {name}
      /\ IF proc[p].step < 3 THEN Goto(p, "write", proc[p].step + 1) ELSE End(p)
      /\ UNCHANGED <<backups, faults>>

\* What the beginning of an environment says.
Shorter(env) ==
  [ids : {Missing} \cup SUBSET (Dlcs \cap env.ids), digest : {Missing, env.digest}]

\* The disk is full or the process dies in between.  An environment is lines, of
\* which the first can be read; nothing can be made of the others.
WriteCutShort(p) ==
  LET name == BootstrapOrder[proc[p].step]
  IN  /\ proc[p].pc = "fill"
      /\ Fault
      /\ \/ /\ name = "env"
            /\ files' \in {[files EXCEPT !["env"] = env] : env \in Shorter(proc[p].new["env"])}
            /\ torn' = torn \ {"env"}
         \/ name # "env" /\ UNCHANGED <<files, torn>>
      /\ End(p)
      /\ UNCHANGED backups

\* bootstrap overwrites nothing, so the operator clears what one that did not
\* finish has left.
ClearDirectory ==
  /\ \A p \in Processes : proc[p] = Idle
  /\ Exists("intent") /\ files["lock"] = NoFile
  /\ files' = NoContract
  /\ torn' = {} /\ backups' = {}
  /\ UNCHANGED <<proc, faults>>

\* infer_adopted_dlcs: the ids the environment names, which must hold what the
\* configuration requires, or the configured features and what it requires.
AdoptedDlcs(env, features) ==
  IF env.ids # Missing THEN env.ids ELSE features \cup RuntimeRequired

\* adopt_installation up to the staged pair.
StartAdopt(p, engine, features) ==
  LET selected == AdoptedDlcs(files["env"], features)
      lock == NewLock(engine, selected,
                [d \in selected |-> {Catalog[engine][d].version}], "adopted-v2")
  IN  /\ proc[p] = Idle
      /\ files["env"] # NoFile
      /\ ~Exists("intent") /\ ~Exists("lock")
      /\ RuntimeRequired \subseteq selected
      /\ \A d \in selected : Catalog[engine][d] # Missing
      /\ PairVerified(engine, NewIntent(lock), lock)
      /\ Begin(p, "linkIntent", NoContract,
               Contract(NewIntent(lock), lock, NoFile))
      /\ UNCHANGED <<files, torn, backups, faults>>

\* write_contract_pair_new: the intent is linked unless it exists ...
LinkIntent(p) ==
  /\ proc[p].pc = "linkIntent"
  /\ \/ /\ ~Exists("intent")
        /\ files' = [files EXCEPT !["intent"] = proc[p].new["intent"]]
        /\ Goto(p, "linkLock", 2)
     \/ /\ Exists("intent")
        /\ End(p)
        /\ UNCHANGED files
  /\ UNCHANGED <<torn, backups, faults>>

\* ... and then the lock; when that exists or the link fails, the intent is
\* removed again.
LinkLock(p) ==
  /\ proc[p].pc = "linkLock"
  /\ End(p)
  /\ \/ /\ ~Exists("lock")
        /\ files' = [files EXCEPT !["lock"] = proc[p].new["lock"]]
        /\ UNCHANGED faults
     \/ /\ Exists("lock")
        /\ files' = [files EXCEPT !["intent"] = NoFile]
        /\ UNCHANGED faults
     \/ /\ Fault
        /\ files' = [files EXCEPT !["intent"] = NoFile]
  /\ UNCHANGED <<torn, backups>>

\* load_deployment and read_installation_pair read the intent first; which
\* command it is matters once everything is read.
StartCommand(p) ==
  /\ proc[p] = Idle
  /\ files["intent"] # NoFile
  /\ Begin(p, "readLock", Contract(files["intent"], NoFile, NoFile), NoContract)
  /\ UNCHANGED <<files, torn, backups, faults>>

\* ... then the lock ...
ReadLock(p) ==
  /\ proc[p].pc = "readLock"
  /\ IF files["lock"] = NoFile
     THEN End(p)
     ELSE proc' = [proc EXCEPT ![p].read["lock"] = files["lock"], ![p].pc = "readEnv"]
  /\ UNCHANGED <<files, torn, backups, faults>>

\* What load_deployment demands of the three files.
LoadAccepted(engine, contract) ==
  /\ contract.lock # NoFile /\ contract.env # NoFile
  /\ PairVerified(engine, contract.intent, contract.lock)
  /\ contract.env = Projection(contract.lock)

\* ... and the environment; the command computes the new contract, which
\* persist checks before it touches a file.
ReadEnv(p, engine, command) ==
  LET contract == [proc[p].read EXCEPT !["env"] = files["env"]]
      outcomes == {o \in Outcome(engine, command, contract.intent, contract.lock) :
                     /\ DependenciesValid(o.lock)
                     /\ PairVerified(engine, o.intent, o.lock)
                     /\ Len(o.lock.history) <= MaxHistory}
  IN  /\ proc[p].pc = "readEnv"
      /\ IF LoadAccepted(engine, contract)
         THEN \/ \E o \in outcomes :
                   Begin(p, "prepare", contract, Contract(o.intent, o.lock, Projection(o.lock)))
              \/ outcomes = {} /\ End(p)
         ELSE End(p)
      /\ UNCHANGED <<files, torn, backups, faults>>

Backup(p, name) == [owner |-> p, file |-> name, bytes |-> proc[p].read[name]]

\* Mutant: no backup is written.
PrepareWithoutBackup(p) ==
  LET name == ReplaceOrder[proc[p].step]
  IN  /\ proc[p].pc = "prepare"
      /\ files[name] = proc[p].read[name]
      /\ IF proc[p].step < 3 THEN Goto(p, "prepare", proc[p].step + 1) ELSE Goto(p, "commit", 1)
      /\ UNCHANGED <<files, torn, backups, faults>>

\* transactional_replace: a file that is still what was read is staged and
\* backed up; otherwise the transaction ends before anything changed.
PrepareFile(p) ==
  LET name == ReplaceOrder[proc[p].step]
  IN  /\ proc[p].pc = "prepare"
      /\ \/ /\ files[name] = proc[p].read[name]
            /\ backups' = backups \cup {Backup(p, name)}
            /\ IF proc[p].step < 3 THEN Goto(p, "prepare", proc[p].step + 1)
                                   ELSE Goto(p, "commit", 1)
         \/ /\ files[name] # proc[p].read[name]
            /\ backups' = backups \ Owned(p)
            /\ End(p)
      /\ UNCHANGED <<files, torn, faults>>

\* One rename each, in order.
RenameFile(p) ==
  LET name == ReplaceOrder[proc[p].step]
  IN  /\ proc[p].pc = "commit" /\ proc[p].step <= 3
      /\ files' = [files EXCEPT ![name] = proc[p].new[name]]
      /\ Goto(p, "commit", proc[p].step + 1)
      /\ UNCHANGED <<torn, backups, faults>>

\* cleanup_transaction_files after the directories are synced.
FinishCommit(p) ==
  /\ proc[p].pc = "commit" /\ proc[p].step = 4
  /\ backups' = backups \ Owned(p)
  /\ End(p)
  /\ UNCHANGED <<files, torn, faults>>

\* A rename or a sync fails: the renamed files are to be restored, in order.
CommitFails(p) ==
  /\ proc[p].pc = "commit"
  /\ Fault
  /\ Goto(p, "rollback", proc[p].step - 1)
  /\ UNCHANGED <<files, torn, backups>>

\* rollback_transaction: each backup is renamed to its file.
RollbackFile(p) ==
  LET pending == {i \in 1..proc[p].step : Backup(p, ReplaceOrder[i]) \in backups}
      i == CHOOSE i \in pending : \A j \in pending : i <= j
  IN  /\ proc[p].pc = "rollback" /\ pending # {}
      /\ files' = [files EXCEPT ![ReplaceOrder[i]] = proc[p].read[ReplaceOrder[i]]]
      /\ backups' = backups \ {Backup(p, ReplaceOrder[i])}
      /\ UNCHANGED <<torn, proc, faults>>

\* The restored files are compared with the originals; only then the rest is
\* cleaned up.
FinishRollback(p) ==
  LET restored == {ReplaceOrder[i] : i \in 1..proc[p].step}
  IN  /\ proc[p].pc = "rollback"
      /\ \A name \in restored : Backup(p, name) \notin backups
      /\ backups' = IF \A name \in restored : files[name] = proc[p].read[name]
                    THEN backups \ Owned(p) ELSE Abandoned(p)
      /\ End(p)
      /\ UNCHANGED <<files, torn, faults>>

\* Restoring fails too: what is left of the backups stays.
RollbackFails(p) ==
  /\ proc[p].pc = "rollback" /\ proc[p].step > 0
  /\ Fault
  /\ backups' = Abandoned(p)
  /\ End(p)
  /\ UNCHANGED <<files, torn>>

\* record_engine_upgrade: read, verified, and the lock alone replaced.
VerifyRecord(p, engine) ==
  LET contract == proc[p].read
      outcomes == RecordEngineUpgrade(engine, contract.intent, contract.lock)
  IN  /\ proc[p].pc = "readEnv"
      /\ IF PairVerified(engine, contract.intent, contract.lock) /\ outcomes # {}
         THEN \E o \in outcomes :
                Begin(p, "replaceLock", NoContract, Contract(NoFile, o.lock, NoFile))
         ELSE End(p)
      /\ UNCHANGED <<files, torn, backups, faults>>

\* atomic_replace_regular_file.
ReplaceLock(p) ==
  /\ proc[p].pc = "replaceLock"
  /\ files' = [files EXCEPT !["lock"] = proc[p].new["lock"]]
  /\ End(p)
  /\ UNCHANGED <<torn, backups, faults>>

\* An I/O error before the first rename ends a command; bootstrap leaves what
\* it wrote, a transaction removes its backups.
CommandFails(p) ==
  /\ proc[p].pc \in {"write", "linkIntent", "readLock", "readEnv", "prepare", "replaceLock"}
  /\ Fault
  /\ backups' = backups \ Owned(p)
  /\ End(p)
  /\ UNCHANGED <<files, torn>>

Crash(p) ==
  /\ proc[p] # Idle /\ proc[p].pc # "fill"
  /\ Fault
  /\ backups' = Abandoned(p)
  /\ End(p)
  /\ UNCHANGED <<files, torn>>

\* The operator sets OSB_INSTALL_LOCK_DIGEST and its siblings, as adopt asks.
SetDigest ==
  /\ \A p \in Processes : proc[p] = Idle
  /\ backups = {}
  /\ files["lock"] # NoFile /\ files["env"] # NoFile
  /\ files["env"] # Projection(files["lock"])
  /\ files' = [files EXCEPT !["env"] = Projection(files["lock"])]
  /\ UNCHANGED <<torn, backups, proc, faults>>

\* The contracts that can be put together from the files and the backups
\* beside them.
Choices ==
  {contract \in [Names -> {files[name] : name \in Names} \cup {b.bytes : b \in backups}] :
     \A name \in Names :
       \/ contract[name] = files[name]
       \/ \E b \in backups : b.file = name /\ b.bytes = contract[name]}

\* A contract the command line of some engine verifies, with an environment
\* that composes the same modules.
Coherent(contract) ==
  /\ contract.intent # NoFile /\ contract.lock # NoFile /\ contract.env # NoFile
  /\ \E e \in Engines : PairVerified(e, contract.intent, contract.lock)
  /\ contract.env.ids \in {Missing, EnabledDlcs(contract.lock)}

\* The operator recovers by hand with the .backup files a command left, or
\* deletes them when the files are good as they are.
RestoreBackups ==
  /\ \A p \in Processes : proc[p] = Idle
  /\ backups # {}
  /\ files' \in IF Coherent(files) THEN {files} ELSE {c \in Choices : Coherent(c)}
  /\ backups' = {}
  /\ UNCHANGED <<torn, proc, faults>>

-----------------------------------------------------------------------------
\* An empty directory, or a deployment from before the contract: its
\* environment may name the modules.
Init ==
  /\ files \in {Contract(NoFile, NoFile, e) :
                 e \in {NoFile} \cup [ids : {Missing} \cup SUBSET Dlcs, digest : {Missing}]}
  /\ torn = {}
  /\ backups = {}
  /\ proc = [p \in Processes |-> Idle]
  /\ faults = 0

Steps(p) ==
  \/ \E e \in Engines :
       \/ \E selected \in SUBSET Dlcs, r \in Requirements : StartBootstrap(p, e, selected, r)
       \/ \E features \in SUBSET Dlcs : StartAdopt(p, e, features)
       \/ \E c \in Commands : ReadEnv(p, e, c)
       \/ VerifyRecord(p, e)
  \/ CreateNew(p) \/ WriteNew(p) \/ WriteCutShort(p) \/ LinkIntent(p) \/ LinkLock(p)
  \/ StartCommand(p) \/ ReadLock(p) \/ PrepareFile(p) \/ RenameFile(p) \/ FinishCommit(p)
  \/ CommitFails(p) \/ RollbackFile(p) \/ FinishRollback(p) \/ RollbackFails(p)
  \/ ReplaceLock(p) \/ CommandFails(p) \/ Crash(p)

Next == SetDigest \/ RestoreBackups \/ ClearDirectory \/ \E p \in Processes : Steps(p)

Spec == Init /\ [][Next]_vars

-----------------------------------------------------------------------------
LockRecords == [requested : SUBSET Versions, version : Versions, manifest : Manifests,
                enabled : BOOLEAN, state : Nat \cup {Missing}]
RetainedRecords == [version : Versions, state : Nat \cup {Missing}]
HistoryRecords ==
  [action : {"installed", "enabled", "disabled", "upgraded", "removed"}, dlc : Dlcs,
   from : Versions \cup {Missing}, to : Versions \cup {Missing}, engine : Engines]

\* The types of InstallationLock and of the environment.
LockTyped(lock) ==
  /\ DOMAIN lock = {"engine", "source", "dlcs", "retained", "history"}
  /\ lock.engine \in Engines
  /\ DOMAIN lock.dlcs \cup DOMAIN lock.retained \subseteq Dlcs
  /\ \A d \in DOMAIN lock.dlcs : lock.dlcs[d] \in LockRecords
  /\ \A d \in DOMAIN lock.retained : lock.retained[d] \in RetainedRecords
  /\ lock.history \in Seq(HistoryRecords)
EnvTyped(env) ==
  /\ DOMAIN env = {"ids", "digest"}
  /\ env.ids # Missing => env.ids \subseteq Dlcs

\* The files and the backups hold contracts of the declared types and every
\* process is at one of its steps.
TypeOK ==
  /\ files["lock"] # NoFile => LockTyped(files["lock"])
  /\ files["env"] # NoFile => EnvTyped(files["env"])
  /\ torn \subseteq Names
  /\ \A b \in backups :
       /\ b.owner \in Processes \cup {Missing}
       /\ b.file \in Names
       /\ b.file = "lock" => LockTyped(b.bytes)
       /\ b.file = "env" => EnvTyped(b.bytes)
  /\ \A p \in Processes :
       proc[p].step \in IF proc[p].pc = "rollback" THEN 0..3 ELSE 0..4
  /\ faults \in 0..MaxFaults

\* Once a lock was written to its end, whatever step fails and wherever the
\* process dies, a verified contract can be put together from the files and the
\* backups beside them: the rollback and the retained .backup files of
\* transactional_replace never lose it.  Before that there is none to lose:
\* bootstrap writes the first files in place, and cut short it leaves one torn,
\* but never beside a lock.
Recoverable ==
  /\ files["intent"] # NoFile /\ files["lock"] # NoFile =>
       \E contract \in Choices : Coherent(contract)
  /\ torn # {} => files["lock"] = NoFile

Latest(i, S) == i \in S /\ \A j \in S : j <= i

\* The last record of a DLC says whether it is installed and at which version,
\* the last that is not of an upgrade whether it is enabled.
Explained(history, dlcs, d) ==
  LET own == {i \in 1..Len(history) : history[i].dlc = d}
      switches == {i \in own : history[i].action # "upgraded"}
  IN  /\ d \in DOMAIN dlcs <=> \E i \in own : Latest(i, own) /\ history[i].action # "removed"
      /\ d \in DOMAIN dlcs =>
           /\ \E i \in own : Latest(i, own) /\ history[i].to = dlcs[d].version
           /\ \E i \in switches :
                /\ Latest(i, switches)
                /\ dlcs[d].enabled <=> history[i].action # "disabled"

\* The history says which DLCs are installed, at which version and whether
\* enabled, through removals, returns, upgrades and rolled-back commands.
HistoryExplainsLock ==
  files["lock"] # NoFile =>
    \A d \in Dlcs : Explained(files["lock"].history, files["lock"].dlcs, d)

\* "Remove ... while retaining its database state": a DLC that was ever
\* installed keeps its state record, active or retained.
StateNeverDropped ==
  files["lock"] # NoFile =>
    \A i \in 1..Len(files["lock"].history) :
      files["lock"].history[i].dlc
        \in DOMAIN files["lock"].dlcs \cup DOMAIN files["lock"].retained

\* The state version survives removal and return, whichever command line and
\* catalogue bring the DLC back.
StateCarried ==
  [][\A d \in Dlcs :
       LET old == files["lock"]
           new == files'["lock"]
       IN  old # NoFile /\ new # NoFile =>
             /\ d \in DOMAIN old.retained /\ d \in DOMAIN new.dlcs =>
                  new.dlcs[d].state = old.retained[d].state
             /\ d \in DOMAIN old.dlcs /\ d \in DOMAIN new.retained =>
                  new.retained[d].state = old.dlcs[d].state]_vars

\* "re-resolve every requested DLC": a candidate engine whose catalogue
\* satisfies every request of a sound deployment, with no version going back,
\* can reconcile it.
CandidateReconciles ==
  \A e \in Engines :
    /\ files["intent"] # NoFile /\ files["lock"] # NoFile
    /\ LoadAccepted(files["lock"].engine, files)
    /\ e > files["lock"].engine
    /\ \A d \in DOMAIN files["intent"] :
         /\ Resolves(e, d, files["intent"][d].version)
         /\ MayReplace(files["lock"].dlcs[d],
                       Reresolved(e, files["lock"].dlcs[d], d, files["intent"][d].version))
    => LoadAccepted(e, files)

\* As long as commands are serialised and nothing fails, whatever sequence of
\* them has run, the intent, the lock and the environment agree between two
\* commands (persist and transactional_replace, dlc_lifecycle.rs).
UpdatedTogether ==
  /\ faults = 0
  /\ \A p \in Processes : proc[p] = Idle
  /\ files["intent"] # NoFile /\ files["lock"] # NoFile
  => Coherent(files)

\* The lock explains itself through any sequence of commands: its history says
\* what is installed, no state record is lost, and between commands that did
\* not fail it agrees with the intent and the environment.
LockFaithful == HistoryExplainsLock /\ StateNeverDropped /\ UpdatedTogether
=============================================================================
