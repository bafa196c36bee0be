--------------------------- MODULE HardhatDeploy ---------------------------
(***************************************************************************)
(* A run of `npx hardhat deploy`: the steps of the deployment scripts are  *)
(* executed one after the other against the contracts on the chain and the *)
(* records of the deployments/<network> folder.  Every step awaits an      *)
(* answer of the network, so that anything else may happen in between: the *)
(* call fails or the process is killed, which ends the run; an             *)
(* administrator changes a setting.  Between two runs the operator may     *)
(* delete records.  The next run starts over with the records it finds.    *)
(*                                                                         *)
(* The plugin hardhat-deploy is external.  What the scripts are is left to *)
(* the constants; DeployScripts defines those of the repository.           *)
(***************************************************************************)
EXTENDS Integers, Sequences

CONSTANTS
    Networks,
    Commands,               \* tags that runs are started with
    Program,                \* command -> the steps of the scripts it selects, in order
    NamedAccounts,          \* network -> name -> address, or Zero
    Environments,           \* what the operator's environment may hold
    ServiceAccount(_, _),   \* the account that signs, on a network and in an environment
    Accepts(_, _, _),       \* does a contract with these fields accept a value of a field?
    Names,                  \* names of the records
    Labels,                 \* names of the named accounts
    None,                   \* no name
    Fields,                 \* what the scripts read and set in the contracts
    Values,                 \* the values of the fields, addresses included
    Zero,                   \* the zero address, percentage or mask
    Preset,                 \* network -> record of a contract that no script deploys -> address
    AdminChanges,           \* changes <<name, field, value>> that administrators make
    Discards,               \* sets of records that the operator deletes together
    MaxGeneration,          \* bound: contracts deployed under one name
    MaxDisturbances         \* bound: faults, changes and deletions in a behaviour

Address == Names \X (0 .. MaxGeneration)
\* What a variable of a script holds after a swallowed error
Undefined == <<"undefined", 0>>

\* A value a script needs: a recorded address, its own account, a named account (or else
\* a recorded address), a literal.
Required == [from : {"record"}, name : Names] \cup [from : {"account"}]
            \cup [from : {"named"}, label : Labels, name : Names \cup {None}]
            \cup [from : {"literal"}, value : Values]

\* A function on some of the fields
OnFields(fields, S) == DOMAIN fields \subseteq Fields /\ fields \in [DOMAIN fields -> S]

IsStep(s) ==
    \/ s \in [do : {"get"}, name : Names, label : Labels \cup {None}]
    \/ s.do = "deploy" /\ s.name \in Names /\ OnFields(s.fields, Required)
    \/ s \in [do : {"read"}, name : Names, field : Fields]
    \/ s \in [do : {"inspect"}, name : Names, fields : Seq(Fields)]
    \/ /\ s \in [do : {"set"}, field : Fields, required : Required, when : {"!==", "!eq", "0"}]
       /\ s.when = "0" => s.required.from = "literal" /\ s.required.value # Zero

ASSUME HardhatAssumption ==
    /\ \A c \in Commands : \A i \in DOMAIN Program[c] : IsStep(Program[c][i])
    /\ Zero \in Values \ Address
    /\ Address \subseteq Values
    /\ Undefined \notin Values
    /\ NamedAccounts \in [Networks -> [Labels -> Values]]
    /\ \A n \in Networks, e \in Environments : ServiceAccount(n, e) \in Values
    /\ Preset \in [Networks -> [Names -> Address \cup {Zero}]]
    /\ \A n \in Networks, name \in Names : Preset[n][name] \in {<<name, 0>>, Zero}
    /\ AdminChanges \subseteq Names \X Fields \X Values
    /\ Discards \subseteq SUBSET Names
    /\ None \notin Names \cup Labels
    /\ MaxGeneration \in Nat

VARIABLES
    network,
    records,      \* deployments/<network>: name -> address, or Zero
    chain,        \* address -> contract, for the contracts there are
    unsaved,      \* the contract that is deployed and not recorded yet, or Zero
    phase,        \* of the last run: "idle", "running", "done", "failed"
    command, pc,  \* the tag it was started with, its next step
    account,      \* its service account
    seen,         \* field -> the contract it was read from and its value, of those just read
    disturbed,    \* history: did anything interfere with the last run?
    deployed,     \* history: names of contracts the scripts deployed and nobody discarded since
    lost,         \* history: those of them that were mined and that no run lived to record
    standing,     \* history: settings <<address, field, value>> they made that nothing undid
    repeated,     \* history: the reasons for which one of these was executed again
    disturbances  \* counter for the bound

chainVars == <<records, chain, unsaved>>
runVars == <<phase, command, pc, account, seen>>
historyVars == <<deployed, lost, standing, repeated>>
vars == <<network, chainVars, runVars, disturbed, historyVars, disturbances>>

NothingSeen == [f \in {} |-> [at |-> Zero, value |-> Zero]]

Init ==
    /\ network \in Networks
    /\ records = Preset[network]
    /\ chain = [a \in {Preset[network][n] : n \in Names} \ {Zero} |->
                  [owner |-> Zero, fields |-> [f \in {} |-> Zero]]]
    /\ unsaved = Zero
    /\ phase = "idle" /\ command \in Commands /\ pc = 1 /\ account = Zero
    /\ seen = NothingSeen
    /\ disturbed = FALSE
    /\ deployed = {} /\ lost = {} /\ standing = {} /\ repeated = {}
    /\ disturbances = 0
-----------------------------------------------------------------------------
(* History *)

Setting(a, f, v) == <<a, f, v>>

\* The settings that a change of a field overwrites
OnField(a, f) == {tx \in standing : tx[2] = f /\ tx[1] = a}

\* A contract that is deployed by a run that does not live to record it
Pending == IF unsaved = Zero THEN {} ELSE {unsaved[1]}

\* Every transaction that is executed again, and why: the record of the first one was
\* lost, the old value could not be read, or for no reason.
Reasons == {"lost", "unread", "needless"}

Repeat(again, reason) == repeated' = repeated \cup (IF again THEN {reason} ELSE {})

\* Something interferes with the run, or changes what it left behind.
Disturb ==
    /\ disturbances < MaxDisturbances
    /\ disturbances' = disturbances + 1
    /\ disturbed' = TRUE

HasField(a, f) == a \in DOMAIN chain /\ f \in DOMAIN chain[a].fields

WithField(a, f, v) ==
    [chain EXCEPT ![a] = [owner |-> @.owner, fields |-> [@.fields EXCEPT ![f] = v]]]
-----------------------------------------------------------------------------
(* Steps of a run *)

Step == Program[command][pc]

AtStep(kind) == phase = "running" /\ pc \in DOMAIN Program[command] /\ Step.do = kind

Continue == pc' = pc + 1 /\ UNCHANGED <<phase, command, account>>

\* The process ends, by itself or by an exception that nothing catches.
EndAs(outcome) ==
    /\ phase' = outcome /\ pc' = 1 /\ seen' = NothingSeen
    /\ UNCHANGED <<network, command, account, chainVars, historyVars>>

Fails == EndAs("failed") /\ UNCHANGED <<disturbed, disturbances>>

\* Mistake for a mutant: the promise of a record is not awaited.
ValueNotAwaited(required) ==
    CASE required.from = "record"  -> Undefined
      [] required.from = "account" -> account
      [] required.from = "literal" -> required.value
      [] required.from = "named"   -> NamedAccounts[network][required.label]

Value(required) ==
    CASE required.from = "record"  -> records[required.name]
      [] required.from = "account" -> account
      [] required.from = "literal" -> required.value
      [] required.from = "named"   ->
           IF NamedAccounts[network][required.label] # Zero \/ required.name = None
           THEN NamedAccounts[network][required.label]
           ELSE records[required.name]

\* deployments.get() throws if there is no record; it is not called for a contract whose
\* address is among the named accounts.
Found(step) ==
    \/ records[step.name] # Zero
    \/ step.label # None /\ NamedAccounts[network][step.label] # Zero

GetRecord ==
    /\ AtStep("get")
    /\ \/ Found(Step) /\ Continue
          /\ UNCHANGED <<network, chainVars, seen, disturbed, historyVars, disturbances>>
       \/ ~Found(Step) /\ Fails

\* skipIfAlreadyDeployed: a recorded contract is not deployed again.
SkipDeployed ==
    /\ AtStep("deploy")
    /\ unsaved = Zero /\ records[Step.name] # Zero
    /\ Continue
    /\ UNCHANGED <<network, chainVars, seen, disturbed, historyVars, disturbances>>

NextAddress(n) ==
    {a \in Address : a[1] = n /\ a[2] > 0 /\ \A k \in 1 .. a[2] : <<n, k>> \in DOMAIN chain <=> k < a[2]}

NewContract(step) == [owner |-> account, fields |-> [f \in DOMAIN step.fields |-> Value(step.fields[f])]]

\* The deployment is mined; its proxy is initialized by the same transaction.
DeployContract ==
    /\ AtStep("deploy")
    /\ unsaved = Zero /\ records[Step.name] = Zero
    /\ \E a \in NextAddress(Step.name) :
          /\ chain' = [b \in DOMAIN chain \cup {a} |->
                         IF b = a THEN NewContract(Step) ELSE chain[b]]
          /\ unsaved' = a
    /\ deployed' = deployed \cup {Step.name}
    /\ lost' = lost \ {Step.name}
    /\ Repeat(Step.name \in deployed, IF Step.name \in lost THEN "lost" ELSE "needless")
    /\ UNCHANGED standing
    /\ UNCHANGED <<network, records, runVars, disturbed, disturbances>>

SaveRecord ==
    /\ AtStep("deploy")
    /\ unsaved # Zero
    /\ records' = [records EXCEPT ![Step.name] = unsaved]
    /\ unsaved' = Zero
    /\ Continue
    /\ UNCHANGED <<network, chain, seen, disturbed, historyVars, disturbances>>

\* The answer of a contract, which is an exception if it has no such field
ReadField ==
    /\ AtStep("read")
    /\ LET a == records[Step.name] IN
       \/ /\ HasField(a, Step.field)
          /\ seen' = [f \in DOMAIN seen \cup {Step.field} |->
                IF f = Step.field THEN [at |-> a, value |-> chain[a].fields[f]] ELSE seen[f]]
          /\ Continue
          /\ UNCHANGED <<network, chainVars, disturbed, historyVars, disturbances>>
       \/ ~HasField(a, Step.field) /\ Fails

\* print_contract_details() swallows the error of a call, and with it whatever the same
\* `try` would have read after it.
InspectContract ==
    /\ AtStep("inspect")
    /\ \E answers \in 0 .. Len(Step.fields) :
          /\ LET a == records[Step.name]
                 asked == {Step.fields[i] : i \in DOMAIN Step.fields}
                 answered == {Step.fields[i] : i \in 1 .. answers}
             IN seen' = [f \in DOMAIN seen \cup asked |->
                   IF f \notin asked THEN seen[f]
                   ELSE [at |-> a, value |-> IF f \in answered /\ HasField(a, f)
                                             THEN chain[a].fields[f] ELSE Undefined]]
          /\ IF answers < Len(Step.fields) THEN Disturb ELSE UNCHANGED <<disturbed, disturbances>>
    /\ Continue
    /\ UNCHANGED <<network, chainVars, historyVars>>

Saw == seen[Step.field]

\* A variable nothing was assigned to has no method eq().
Comparable ==
    /\ Step.field \in DOMAIN seen
    /\ Step.when = "!eq" => Saw.value # Undefined

Used(f) == seen' = [g \in DOMAIN seen \ {f} |-> seen[g]]

\* Mistake for a mutant: everything is set again by every run.
NeededAlways == TRUE

\* The percentages are set if they are zero, everything else if it is not as required.
Needed == IF Step.when = "0" THEN Saw.value = Zero ELSE Saw.value # Value(Step.required)

Accepted ==
    /\ HasField(Saw.at, Step.field)
    /\ chain[Saw.at].owner = account
    /\ Accepts(chain[Saw.at].fields, Step.field, Value(Step.required))

\* The transaction is sent and mined, also if the old value could not be read.
Transact ==
    LET tx == Setting(Saw.at, Step.field, Value(Step.required)) IN
    /\ chain' = WithField(Saw.at, Step.field, Value(Step.required))
    /\ standing' = (standing \ OnField(Saw.at, Step.field)) \cup {tx}
    /\ Repeat(tx \in standing, IF Saw.value = Undefined THEN "unread" ELSE "needless")
    /\ UNCHANGED <<deployed, lost>>
    /\ Used(Step.field)
    /\ Continue
    /\ UNCHANGED <<network, records, unsaved, disturbed, disturbances>>

\* rawTx() throws if the transaction reverts.
SetField ==
    /\ AtStep("set")
    /\ \/ Comparable /\ Needed /\ Accepted /\ Transact
       \/ ~Comparable /\ Fails
       \/ Comparable /\ Needed /\ ~Accepted /\ Fails
       \/ /\ Comparable /\ ~Needed
          /\ Used(Step.field)
          /\ Continue
          /\ UNCHANGED <<network, chainVars, disturbed, historyVars, disturbances>>

Finish ==
    /\ phase = "running" /\ pc \notin DOMAIN Program[command]
    /\ EndAs("done")
    /\ UNCHANGED <<disturbed, disturbances>>
-----------------------------------------------------------------------------
(* Around the runs *)

\* A contract that was deployed by a run that did not live to record it is recorded by
\* the next one if that was asked to look for pending transactions, or else lost.
Start(c) ==
    /\ phase # "running"
    /\ phase' = "running" /\ command' = c /\ pc' = 1 /\ seen' = NothingSeen
    /\ \E e \in Environments : account' = ServiceAccount(network, e)
    /\ \/ unsaved # Zero /\ records' = [records EXCEPT ![unsaved[1]] = unsaved]
          /\ UNCHANGED historyVars
       \/ lost' = lost \cup Pending
          /\ UNCHANGED <<records, deployed, standing, repeated>>
    /\ unsaved' = Zero
    /\ disturbed' = FALSE
    /\ UNCHANGED <<network, chain, disturbances>>

\* The process is killed, or a call fails that is not in a `try`.
Abort ==
    /\ phase = "running"
    /\ Disturb
    /\ EndAs("failed")

ChangeSetting(n, f, v) ==
    LET a == records[n] IN
    /\ Disturb
    /\ HasField(a, f)
    /\ chain[a].fields[f] # v
    /\ Accepts(chain[a].fields, f, v)
    /\ chain' = WithField(a, f, v)
    /\ standing' = standing \ OnField(a, f)
    /\ UNCHANGED <<deployed, lost, repeated>>
    /\ UNCHANGED <<network, records, unsaved, runVars>>

\* The operator wants these contracts to be deployed anew.
DeleteRecords(names) ==
    /\ phase # "running"
    /\ Disturb
    /\ \E n \in names : records[n] # Zero
    /\ records' = [n \in Names |-> IF n \in names THEN Zero ELSE records[n]]
    /\ unsaved' = Zero
    /\ deployed' = deployed \ names
    /\ lost' = (lost \cup Pending) \ names
    /\ UNCHANGED <<standing, repeated>>
    /\ UNCHANGED <<network, chain, runVars>>

\* What the process does by itself
RunStep ==
    \/ GetRecord \/ SkipDeployed \/ DeployContract \/ SaveRecord
    \/ ReadField \/ InspectContract \/ SetField \/ Finish

Next ==
    \/ RunStep
    \/ \E c \in Commands : Start(c)
    \/ Abort
    \/ \E change \in AdminChanges : ChangeSetting(change[1], change[2], change[3])
    \/ \E names \in Discards : DeleteRecords(names)

Spec == Init /\ [][Next]_vars

\* A run that is left alone goes on, and the operator runs every command again and again.
Fairness == WF_vars(RunStep) /\ \A c \in Commands : SF_vars(Start(c))

FairSpec == Spec /\ Fairness
-----------------------------------------------------------------------------
(* Properties *)

TypeOK ==
    /\ network \in Networks
    /\ records \in [Names -> Address \cup {Zero}]
    /\ DOMAIN chain \subseteq Address
    /\ \A a \in DOMAIN chain : chain[a].owner \in Values /\ OnFields(chain[a].fields, Values)
    /\ unsaved \in Address \cup {Zero}
    /\ phase \in {"idle", "running", "done", "failed"}
    /\ command \in Commands /\ pc \in Nat /\ account \in Values
    /\ OnFields(seen, [at : Address \cup {Zero}, value : Values \cup {Undefined}])
    /\ disturbed \in BOOLEAN
    /\ deployed \subseteq Names
    /\ standing \subseteq Address \X Fields \X Values
    /\ lost \subseteq Names
    /\ repeated \subseteq Reasons
    /\ disturbances \in Nat

\* A run executes a transaction of an earlier run, or of its own, that nothing has undone
\* since, for two reasons only: a run was killed after a deployment was mined and before it
\* was recorded, and the next run did not pick it up; or the error of reading the value to
\* be set was swallowed.  Wherever else a run was interrupted, between a setting and the
\* next read of it for one, and however old the value it compared, nothing is repeated.
NothingNeedless == "needless" \notin repeated

\* "the scripts are designed to be rerunnable and execute only the transactions which were
\* not executed in previous run(s)" (src/README.md:369-371), with no exception.
OnlyNotExecutedBefore == repeated = {}
=============================================================================
