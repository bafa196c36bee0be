------------------------ MODULE HardhatDeploy_proofs ------------------------
(***************************************************************************)
(* For any scripts, networks, accounts and disturbances: the types, that   *)
(* records lead to contracts, and that a run repeats no transaction but    *)
(* those whose record or old value was lost on the way.  For scripts that  *)
(* look up what they use: every contract is wired to contracts of the      *)
(* right kind.  For scripts that ask for what they deployed: a run that    *)
(* nothing interferes with does what it is for, no run undoes what is      *)
(* complete, and every step of it leads to its end.                        *)
(***************************************************************************)
EXTENDS Deployment, TLAPS

\* Every recorded contract exists, and so does one that waits to be recorded, under the
\* name of the step that deployed it.
Lead ==
    /\ \A n \in Names : records[n] # Zero => records[n] \in DOMAIN chain /\ records[n][1] = n
    /\ unsaved # Zero => unsaved \in DOMAIN chain
    /\ phase = "running" /\ unsaved # Zero => AtStep("deploy") /\ unsaved[1] = Step.name

\* What stands is there: a deployed contract is recorded or about to be, unless a killed
\* run has lost it, and a setting is what the contract holds.
Stands ==
    /\ \A n \in deployed : records[n] # Zero \/ (unsaved # Zero /\ unsaved[1] = n) \/ n \in lost
    /\ \A tx \in standing : HasField(tx[1], tx[2]) /\ chain[tx[1]].fields[tx[2]] = tx[3]

\* What a script has read is still so, unless somebody changed it since.
Fresh ==
    \A f \in DOMAIN seen :
       seen[f].value # Undefined =>
          /\ HasField(seen[f].at, f)
          /\ seen[f].value = chain[seen[f].at].fields[f] \/ OnField(seen[f].at, f) = {}

IInv == TypeOK /\ Lead /\ Stands /\ Fresh /\ NothingNeedless
-----------------------------------------------------------------------------
(* Steps and values *)

\* What AtStep() says of the step of a script it names
LEMMA StepFields ==
    ASSUME TypeOK, phase = "running", pc \in DOMAIN Program[command]
    PROVE  /\ Step.do = "get" => Step.name \in Names /\ Step.label \in Labels \cup {None}
           /\ Step.do = "deploy" => Step.name \in Names /\ OnFields(Step.fields, Required)
           /\ Step.do = "read" => Step.name \in Names /\ Step.field \in Fields
           /\ Step.do = "inspect" => Step.name \in Names /\ Step.fields \in Seq(Fields)
           /\ Step.do = "set" => /\ Step.field \in Fields /\ Step.required \in Required
                                 /\ Step.when = "0" => /\ Step.required.from = "literal"
                                                       /\ Step.required.value # Zero
<1>1. IsStep(Step)
  BY HardhatAssumption DEF TypeOK, Step
<1> QED
  BY <1>1 DEF IsStep

\* Addresses are values, and none of them is zero.
LEMMA AddressesAreValues == Address \subseteq Values /\ Zero \in Values /\ Zero \notin Address
  BY HardhatAssumption

\* What a script needs is a value.
LEMMA ValueType ==
    ASSUME TypeOK, NEW required \in Required
    PROVE  Value(required) \in Values
<1>1. CASE required \in [from : {"record"}, name : Names]
  BY <1>1, AddressesAreValues DEF TypeOK, Value
<1>2. CASE required \in [from : {"account"}]
  BY <1>2 DEF TypeOK, Value
<1>3. CASE required \in [from : {"literal"}, value : Values]
  BY <1>3 DEF Value
<1>4. CASE required \in [from : {"named"}, label : Labels, name : Names \cup {None}]
  <2>1. NamedAccounts[network][required.label] \in Values
    BY <1>4, HardhatAssumption DEF TypeOK
  <2>2. required.name # None => records[required.name] \in Values
    BY <1>4, AddressesAreValues DEF TypeOK
  <2> QED
    BY <1>4, <2>1, <2>2 DEF Value
<1> QED
  BY <1>1, <1>2, <1>3, <1>4 DEF Required
-----------------------------------------------------------------------------
(* Initial states *)

\* The invariant holds before the first run.
THEOREM InitInv == Init => IInv
<1> SUFFICES ASSUME Init PROVE IInv
  OBVIOUS
<1>1. \A a \in DOMAIN chain : a \in Address /\ chain[a] = [owner |-> Zero, fields |-> [f \in {} |-> Zero]]
  BY HardhatAssumption DEF Init
<1>2. TypeOK
  <2>1. OnFields(seen, [at : Address \cup {Zero}, value : Values \cup {Undefined}])
    BY DEF Init, NothingSeen, OnFields
  <2>2. \A a \in DOMAIN chain : chain[a].owner \in Values /\ OnFields(chain[a].fields, Values)
    <3>1. OnFields([f \in {} |-> Zero], Values)
      BY DEF OnFields
    <3> QED
      BY <1>1, <3>1, AddressesAreValues
  <2>3. account \in Values /\ records \in [Names -> Address \cup {Zero}]
    BY HardhatAssumption DEF Init
  <2> QED
    BY <1>1, <2>1, <2>2, <2>3 DEF Init, TypeOK
<1>3. Lead
  BY HardhatAssumption DEF Init, Lead
<1>4. Stands /\ Fresh /\ NothingNeedless
  BY DEF Init, Stands, Fresh, NothingNeedless, NothingSeen
<1> QED
  BY <1>2, <1>3, <1>4 DEF IInv
-----------------------------------------------------------------------------
(* Steps of a run *)

\* A step that changes nothing but how far the run is
LEMMA Moved ==
    ASSUME IInv, UNCHANGED <<network, chainVars, historyVars>>,
           phase' \in {"idle", "running", "done", "failed"},
           command' \in Commands, pc' \in Nat, account' \in Values,
           disturbed' \in BOOLEAN, disturbances' \in Nat,
           phase' = "running" => unsaved = Zero,
           OnFields(seen', [at : Address \cup {Zero}, value : Values \cup {Undefined}]),
           \A f \in DOMAIN seen' :
              \/ seen'[f].value = Undefined
              \/ f \in DOMAIN seen /\ seen'[f] = seen[f]
              \/ HasField(seen'[f].at, f) /\ seen'[f].value = chain[seen'[f].at].fields[f]
    PROVE  IInv'
<1>1. TypeOK'
  BY DEF IInv, TypeOK, chainVars, historyVars
<1>2. Lead'
  BY DEF IInv, Lead, chainVars
<1>3. Stands' /\ NothingNeedless'
  BY DEF IInv, Stands, NothingNeedless, HasField, chainVars, historyVars
<1>4. Fresh'
  BY DEF IInv, Fresh, HasField, OnField, chainVars, historyVars
<1> QED
  BY <1>1, <1>2, <1>3, <1>4 DEF IInv

\* What a script remembers has its type, also when it is nothing.
LEMMA SeenOrNothing ==
    ASSUME TypeOK
    PROVE  /\ OnFields(seen, [at : Address \cup {Zero}, value : Values \cup {Undefined}])
           /\ OnFields(NothingSeen, [at : Address \cup {Zero}, value : Values \cup {Undefined}])
           /\ DOMAIN NothingSeen = {}
  BY DEF TypeOK, NothingSeen, OnFields

\* A run is in the middle of a deployment or has nothing unsaved.
LEMMA SavedFirst ==
    ASSUME Lead, NEW kind, AtStep(kind), kind # "deploy"
    PROVE  unsaved = Zero
  BY DEF Lead, AtStep

\* A run that ends keeps the invariant.
LEMMA Ended ==
    ASSUME IInv, NEW outcome \in {"done", "failed"}, EndAs(outcome),
           disturbed' \in BOOLEAN, disturbances' \in Nat
    PROVE  IInv'
<1>1. TypeOK
  BY DEF IInv
<1> QED
  BY <1>1, Moved, SeenOrNothing DEF EndAs, TypeOK, chainVars, historyVars

\* A run that fails keeps it.
LEMMA Failed == ASSUME IInv, Fails PROVE IInv'
<1>1. EndAs("failed") /\ disturbed' \in BOOLEAN /\ disturbances' \in Nat
  BY DEF Fails, IInv, TypeOK
<1> QED
  BY <1>1, Ended

\* A lookup keeps it.
LEMMA GetRecordInv == ASSUME IInv, GetRecord PROVE IInv'
<1>1. CASE Fails
  BY <1>1, Failed
<1>2. CASE /\ Continue
           /\ UNCHANGED <<network, chainVars, seen, disturbed, historyVars, disturbances>>
  <2>1. unsaved = Zero
    BY SavedFirst DEF IInv, GetRecord
  <2> QED
    BY <1>2, <2>1, Moved, SeenOrNothing DEF Continue, IInv, TypeOK, chainVars, historyVars
<1> QED
  BY <1>1, <1>2 DEF GetRecord

\* A deployment that is skipped keeps it.
LEMMA SkipDeployedInv == ASSUME IInv, SkipDeployed PROVE IInv'
  BY Moved, SeenOrNothing DEF SkipDeployed, Continue, IInv, TypeOK, chainVars, historyVars

\* The end of a script keeps it.
LEMMA FinishInv == ASSUME IInv, Finish PROVE IInv'
<1>1. EndAs("done") /\ disturbed' \in BOOLEAN /\ disturbances' \in Nat
  BY DEF Finish, IInv, TypeOK
<1> QED
  BY <1>1, Ended

\* A process that is killed keeps it.
LEMMA AbortInv == ASSUME IInv, Abort PROVE IInv'
<1>1. EndAs("failed") /\ disturbed' \in BOOLEAN /\ disturbances' \in Nat
  BY DEF Abort, Disturb, IInv, TypeOK
<1> QED
  BY <1>1, Ended

\* One field of one contract is changed.
LEMMA WithFieldType ==
    ASSUME TypeOK, NEW a \in Address, NEW f \in Fields, NEW v \in Values, HasField(a, f),
           chain' = WithField(a, f, v)
    PROVE  /\ DOMAIN chain' = DOMAIN chain
           /\ \A b \in DOMAIN chain :
                 /\ chain'[b].owner \in Values /\ OnFields(chain'[b].fields, Values)
                 /\ DOMAIN chain'[b].fields = DOMAIN chain[b].fields
           /\ \A b \in DOMAIN chain : \A g \in DOMAIN chain[b].fields :
                 chain'[b].fields[g] = IF b = a /\ g = f THEN v ELSE chain[b].fields[g]
<1> DEFINE fields == chain[a].fields
           changed == [owner |-> chain[a].owner, fields |-> [fields EXCEPT ![f] = v]]
<1>1. a \in DOMAIN chain /\ f \in DOMAIN fields /\ DOMAIN fields \subseteq Fields
      /\ fields \in [DOMAIN fields -> Values] /\ chain[a].owner \in Values
  BY DEF HasField, TypeOK, OnFields
<1>2. chain' = [chain EXCEPT ![a] = changed]
  BY DEF WithField
<1>3. changed.owner = chain[a].owner /\ changed.fields = [fields EXCEPT ![f] = v]
  OBVIOUS
<1> HIDE DEF changed
<1>4. DOMAIN chain' = DOMAIN chain /\ chain'[a] = changed
      /\ \A b \in DOMAIN chain : b # a => chain'[b] = chain[b]
  BY <1>1, <1>2
<1> QED
  BY <1>1, <1>3, <1>4 DEF TypeOK, OnFields

\* A deployed contract waits to be recorded, and was not deployed before or was lost.
LEMMA DeployContractInv == ASSUME IInv, DeployContract PROVE IInv'
<1> DEFINE contract == NewContract(Step)
<1>1. /\ TypeOK /\ phase = "running" /\ pc \in DOMAIN Program[command] /\ Step.do = "deploy"
      /\ Step.name \in Names /\ OnFields(Step.fields, Required)
      /\ unsaved = Zero /\ records[Step.name] = Zero
  BY StepFields DEF IInv, DeployContract, AtStep
<1>2. PICK a \in NextAddress(Step.name) :
         /\ chain' = [b \in DOMAIN chain \cup {a} |-> IF b = a THEN contract ELSE chain[b]]
         /\ unsaved' = a
  BY DEF DeployContract
<1>3. a \in Address /\ a[1] = Step.name /\ a \notin DOMAIN chain
  BY <1>2 DEF NextAddress, Address
<1>4. contract.owner \in Values /\ OnFields(contract.fields, Values)
  BY <1>1, ValueType DEF NewContract, OnFields, TypeOK
<1>5. DOMAIN chain' = DOMAIN chain \cup {a} /\ \A b \in DOMAIN chain : chain'[b] = chain[b]
  BY <1>2, <1>3
<1>6. UNCHANGED <<network, records, phase, command, pc, account, seen, standing, disturbed,
                  disturbances>>
      /\ deployed' = deployed \cup {Step.name} /\ lost' = lost \ {Step.name}
      /\ Repeat(Step.name \in deployed, IF Step.name \in lost THEN "lost" ELSE "needless")
  BY DEF DeployContract, runVars
<1>7. TypeOK'
  <2>1. \A b \in DOMAIN chain' : b \in Address /\ chain'[b].owner \in Values
                                 /\ OnFields(chain'[b].fields, Values)
    BY <1>1, <1>2, <1>3, <1>4, <1>5 DEF TypeOK
  <2> QED
    BY <1>1, <1>2, <1>3, <1>6, <2>1 DEF TypeOK, Repeat, Reasons
<1>8. Lead'
  BY <1>1, <1>2, <1>3, <1>5, <1>6 DEF IInv, Lead, AtStep, Step
<1>9. Stands'
  <2>1. \A n \in deployed' :
           records'[n] # Zero \/ (unsaved' # Zero /\ unsaved'[1] = n) \/ n \in lost'
    BY <1>1, <1>2, <1>3, <1>6, AddressesAreValues DEF IInv, Stands
  <2>2. \A tx \in standing : HasField(tx[1], tx[2])' /\ chain'[tx[1]].fields[tx[2]] = tx[3]
    BY <1>5 DEF IInv, Stands, HasField
  <2> QED
    BY <1>6, <2>1, <2>2 DEF Stands
<1>10. Fresh'
  BY <1>5, <1>6 DEF IInv, Fresh, HasField, OnField
<1>11. NothingNeedless'
  BY <1>1, <1>6 DEF IInv, Stands, NothingNeedless, Repeat
<1> QED
  BY <1>7, <1>8, <1>9, <1>10, <1>11 DEF IInv

\* A saved record leads to the contract that waited for it.
LEMMA SaveRecordInv == ASSUME IInv, SaveRecord PROVE IInv'
<1>1. /\ TypeOK /\ phase = "running" /\ pc \in DOMAIN Program[command] /\ Step.do = "deploy"
      /\ Step.name \in Names /\ unsaved # Zero /\ unsaved \in Address
  BY StepFields DEF IInv, SaveRecord, AtStep, TypeOK
<1>2. unsaved[1] = Step.name /\ unsaved \in DOMAIN chain
  BY <1>1 DEF IInv, Lead
<1>3. /\ records' = [records EXCEPT ![Step.name] = unsaved] /\ unsaved' = Zero
      /\ phase' = phase /\ command' = command /\ account' = account /\ pc' = pc + 1
      /\ UNCHANGED <<network, chain, seen, disturbed, deployed, lost, standing, repeated, disturbances>>
  BY DEF SaveRecord, Continue, historyVars
<1>4. TypeOK'
  BY <1>1, <1>3 DEF TypeOK
<1>5. Lead'
  BY <1>1, <1>2, <1>3 DEF IInv, Lead, TypeOK
<1>6. Stands'
  BY <1>1, <1>2, <1>3 DEF IInv, Stands, HasField, TypeOK
<1>7. Fresh' /\ NothingNeedless'
  BY <1>3 DEF IInv, Fresh, HasField, OnField, NothingNeedless
<1> QED
  BY <1>4, <1>5, <1>6, <1>7 DEF IInv

\* What is read is what the contract holds.
LEMMA ReadFieldInv == ASSUME IInv, ReadField PROVE IInv'
<1> DEFINE a == records[Step.name]
<1>1. TypeOK /\ phase = "running" /\ unsaved = Zero /\ Step.name \in Names /\ Step.field \in Fields
  BY StepFields, SavedFirst DEF IInv, ReadField, AtStep
<1>2. CASE Fails
  BY <1>2, Failed
<1>3. CASE /\ HasField(a, Step.field)
           /\ seen' = [f \in DOMAIN seen \cup {Step.field} |->
                 IF f = Step.field THEN [at |-> a, value |-> chain[a].fields[f]] ELSE seen[f]]
           /\ Continue
           /\ UNCHANGED <<network, chainVars, disturbed, historyVars, disturbances>>
  <2>1. a \in Address \cup {Zero} /\ chain[a].fields[Step.field] \in Values
    BY <1>1, <1>3 DEF TypeOK, HasField, OnFields
  <2>2. OnFields(seen', [at : Address \cup {Zero}, value : Values \cup {Undefined}])
    BY <1>1, <1>3, <2>1, SeenOrNothing DEF OnFields
  <2>3. \A f \in DOMAIN seen' :
           \/ f \in DOMAIN seen /\ seen'[f] = seen[f]
           \/ HasField(seen'[f].at, f) /\ seen'[f].value = chain[seen'[f].at].fields[f]
    BY <1>3
  <2>4. /\ phase' = phase /\ command' = command /\ account' = account /\ pc' = pc + 1
        /\ UNCHANGED <<network, chainVars, disturbed, historyVars, disturbances>>
    BY <1>3 DEF Continue
  <2> QED
    BY <1>1, <2>2, <2>3, <2>4, Moved DEF TypeOK, chainVars
<1> QED
  BY <1>2, <1>3 DEF ReadField

\* So is what is inspected, unless the error was swallowed.
LEMMA InspectContractInv == ASSUME IInv, InspectContract PROVE IInv'
<1> DEFINE a == records[Step.name]
           asked == {Step.fields[i] : i \in DOMAIN Step.fields}
<1>1. TypeOK /\ phase = "running" /\ unsaved = Zero /\ Step.name \in Names
      /\ Step.fields \in Seq(Fields)
  BY StepFields, SavedFirst DEF IInv, InspectContract, AtStep
<1>2. PICK answers \in 0 .. Len(Step.fields) :
         LET answered == {Step.fields[i] : i \in 1 .. answers}
         IN seen' = [f \in DOMAIN seen \cup asked |->
               IF f \notin asked THEN seen[f]
               ELSE [at |-> a, value |-> IF f \in answered /\ HasField(a, f)
                                         THEN chain[a].fields[f] ELSE Undefined]]
  BY DEF InspectContract
<1>3. a \in Address \cup {Zero} /\ asked \subseteq Fields
      /\ \A f \in asked : HasField(a, f) => chain[a].fields[f] \in Values
  BY <1>1 DEF TypeOK, HasField, OnFields
<1>4. OnFields(seen', [at : Address \cup {Zero}, value : Values \cup {Undefined}])
  BY <1>1, <1>2, <1>3, SeenOrNothing DEF OnFields
<1>5. \A f \in DOMAIN seen' :
         \/ seen'[f].value = Undefined
         \/ f \in DOMAIN seen /\ seen'[f] = seen[f]
         \/ HasField(seen'[f].at, f) /\ seen'[f].value = chain[seen'[f].at].fields[f]
  BY <1>2
<1>6. disturbed' \in BOOLEAN /\ disturbances' \in Nat
  <2>1. Disturb \/ UNCHANGED <<disturbed, disturbances>>
    BY DEF InspectContract
  <2>2. disturbed' \in BOOLEAN
    BY <1>1, <2>1, Zenon DEF Disturb, TypeOK
  <2>3. disturbances' \in Nat
    BY <1>1, <2>1, SMT DEF Disturb, TypeOK
  <2> QED
    BY <2>2, <2>3
<1>7. /\ phase' = phase /\ command' = command /\ account' = account /\ pc' = pc + 1
      /\ UNCHANGED <<network, chainVars, historyVars>>
  BY DEF InspectContract, Continue
<1> QED
  BY <1>1, <1>4, <1>5, <1>6, <1>7, Moved DEF TypeOK, chainVars

\* A transaction changes a value that was seen to differ: it does not stand yet.
LEMMA TransactInv ==
    ASSUME IInv, AtStep("set"), Comparable, Needed, Accepted, Transact
    PROVE  IInv'
<1> DEFINE a == Saw.at
           f == Step.field
           v == Value(Step.required)
           tx == Setting(a, f, v)
<1>1. /\ TypeOK /\ phase = "running" /\ unsaved = Zero
      /\ f \in Fields /\ Step.required \in Required
      /\ Step.when = "0" => Step.required.from = "literal" /\ Step.required.value # Zero
  BY StepFields, SavedFirst DEF IInv, AtStep
<1>2. f \in DOMAIN seen /\ HasField(a, f) /\ v \in Values
  BY <1>1, ValueType DEF Comparable, Accepted
<1>3. a \in Address
  BY <1>1, <1>2 DEF TypeOK, HasField
<1>4. /\ chain' = WithField(a, f, v)
      /\ standing' = (standing \ OnField(a, f)) \cup {tx}
      /\ Repeat(tx \in standing, IF Saw.value = Undefined THEN "unread" ELSE "needless")
      /\ seen' = [g \in DOMAIN seen \ {f} |-> seen[g]]
      /\ phase' = phase /\ command' = command /\ account' = account /\ pc' = pc + 1
      /\ UNCHANGED <<deployed, lost, network, records, unsaved, disturbed, disturbances>>
  BY DEF Transact, Used, Continue
<1>5. /\ DOMAIN chain' = DOMAIN chain
      /\ \A b \in DOMAIN chain :
            /\ chain'[b].owner \in Values /\ OnFields(chain'[b].fields, Values)
            /\ DOMAIN chain'[b].fields = DOMAIN chain[b].fields
      /\ \A b \in DOMAIN chain : \A g \in DOMAIN chain[b].fields :
            chain'[b].fields[g] = IF b = a /\ g = f THEN v ELSE chain[b].fields[g]
  BY <1>1, <1>2, <1>3, <1>4, WithFieldType
<1>6. TypeOK'
  <2>1. OnFields(seen', [at : Address \cup {Zero}, value : Values \cup {Undefined}])
    BY <1>1, <1>4 DEF TypeOK, OnFields
  <2>2. standing' \subseteq Address \X Fields \X Values
    BY <1>1, <1>2, <1>3, <1>4 DEF TypeOK, Setting
  <2> QED
    BY <1>1, <1>4, <1>5, <2>1, <2>2 DEF TypeOK, Repeat, Reasons
<1>7. Lead'
  BY <1>1, <1>4, <1>5 DEF IInv, Lead
<1>8. Stands'
  <2>1. ASSUME NEW other \in standing'
        PROVE  HasField(other[1], other[2])' /\ chain'[other[1]].fields[other[2]] = other[3]
    <3>1. CASE other = tx
      <4>1. other[1] = a /\ other[2] = f /\ other[3] = v
        BY <3>1 DEF Setting
      <4>2. a \in DOMAIN chain' /\ f \in DOMAIN chain'[a].fields /\ chain'[a].fields[f] = v
        BY <1>2, <1>5 DEF HasField
      <4> QED
        BY <4>1, <4>2 DEF HasField
    <3>2. CASE other # tx
      <4>1. other \in standing /\ ~(other[1] = a /\ other[2] = f)
        <5>1. other \in standing /\ other \notin OnField(a, f)
          BY <1>4, <2>1, <3>2
        <5> QED
          BY <5>1 DEF OnField
      <4> QED
        BY <1>5, <4>1 DEF IInv, Stands, HasField
    <3> QED
      BY <3>1, <3>2
  <2> QED
    BY <1>4, <2>1 DEF IInv, Stands
<1>9. Fresh'
  <2>1. ASSUME NEW g \in DOMAIN seen', seen'[g].value # Undefined
        PROVE  /\ seen'[g].at \in DOMAIN chain' /\ g \in DOMAIN chain'[seen'[g].at].fields
               /\ \/ seen'[g].value = chain'[seen'[g].at].fields[g]
                  \/ \A x \in standing' : ~(x[2] = g /\ x[1] = seen'[g].at)
    <3>1. g \in DOMAIN seen /\ g # f /\ seen'[g] = seen[g]
      BY <1>4
    <3>2. /\ seen[g].at \in DOMAIN chain /\ g \in DOMAIN chain[seen[g].at].fields
          /\ \/ seen[g].value = chain[seen[g].at].fields[g]
             \/ \A x \in standing : ~(x[2] = g /\ x[1] = seen[g].at)
      BY <2>1, <3>1 DEF IInv, Fresh, HasField, OnField
    <3>3. \A x \in standing' : x[2] = g => x \in standing
      BY <1>4, <3>1 DEF Setting
    <3> QED
      BY <1>5, <3>1, <3>2, <3>3
  <2> QED
    BY <2>1 DEF Fresh, HasField, OnField
<1>10. NothingNeedless'
  <2>1. tx \in standing /\ Saw.value # Undefined => FALSE
    <3> SUFFICES ASSUME tx \in standing, Saw.value # Undefined PROVE FALSE
      OBVIOUS
    <3>1. tx \in OnField(a, f)
      BY DEF OnField, Setting
    <3>2. Saw.value = chain[a].fields[f]
      BY <1>2, <3>1 DEF IInv, Fresh, Saw
    <3>3. chain[a].fields[f] = v
      BY DEF IInv, Stands, Setting
    <3>4. Step.when = "0" => v # Zero
      BY <1>1 DEF Value
    <3> QED
      BY <3>2, <3>3, <3>4 DEF Needed
  <2> QED
    BY <1>4, <2>1 DEF IInv, NothingNeedless, Repeat
<1> QED
  BY <1>6, <1>7, <1>8, <1>9, <1>10 DEF IInv

\* A setting is sent, refused, or not needed.
LEMMA SetFieldInv == ASSUME IInv, SetField PROVE IInv'
<1>1. TypeOK /\ phase = "running" /\ unsaved = Zero
  BY SavedFirst DEF IInv, SetField, AtStep
<1>2. CASE Comparable /\ Needed /\ Accepted /\ Transact
  BY <1>2, TransactInv DEF SetField
<1>3. CASE Fails
  BY <1>3, Failed
<1>4. CASE /\ Used(Step.field)
           /\ Continue
           /\ UNCHANGED <<network, chainVars, disturbed, historyVars, disturbances>>
  <2>1. OnFields(seen', [at : Address \cup {Zero}, value : Values \cup {Undefined}])
        /\ \A f \in DOMAIN seen' : f \in DOMAIN seen /\ seen'[f] = seen[f]
    BY <1>1, <1>4, SeenOrNothing DEF Used, OnFields
  <2> QED
    BY <1>1, <1>4, <2>1, Moved DEF Continue, TypeOK, chainVars, historyVars
<1> QED
  BY <1>2, <1>3, <1>4 DEF SetField
-----------------------------------------------------------------------------
(* Around the runs *)

\* A run starts with what was recorded, and what was not is lost.
LEMMA StartInv == ASSUME IInv, NEW c \in Commands, Start(c) PROVE IInv'
<1>1. TypeOK
  BY DEF IInv
<1>2. /\ phase' = "running" /\ command' = c /\ pc' = 1 /\ seen' = NothingSeen /\ account' \in Values
      /\ unsaved' = Zero /\ disturbed' = FALSE
      /\ UNCHANGED <<network, chain, disturbances, deployed, standing, repeated>>
  BY <1>1, HardhatAssumption DEF Start, historyVars, TypeOK
<1>3. \/ /\ unsaved # Zero /\ records' = [records EXCEPT ![unsaved[1]] = unsaved]
         /\ lost' = lost
      \/ records' = records /\ lost' = lost \cup Pending
  BY DEF Start, historyVars
<1>4. unsaved # Zero => unsaved \in Address /\ unsaved[1] \in Names /\ unsaved \in DOMAIN chain
  BY <1>1 DEF IInv, Lead, TypeOK, Address
<1>5. TypeOK'
  BY <1>1, <1>2, <1>3, <1>4, SeenOrNothing DEF TypeOK, Pending
<1>6. Lead'
  BY <1>1, <1>2, <1>3, <1>4 DEF IInv, Lead, TypeOK
<1>7. Stands'
  <2>1. \A n \in deployed' : records'[n] # Zero \/ n \in lost'
    BY <1>1, <1>2, <1>3, <1>4 DEF IInv, Stands, Pending, TypeOK
  <2> QED
    BY <1>2, <2>1 DEF IInv, Stands, HasField
<1>8. Fresh' /\ NothingNeedless'
  BY <1>2, SeenOrNothing, <1>1 DEF IInv, Fresh, NothingNeedless
<1> QED
  BY <1>5, <1>6, <1>7, <1>8 DEF IInv

\* An administrator undoes a setting, which does not stand any more.
LEMMA ChangeSettingInv ==
    ASSUME IInv, NEW n \in Names, NEW f \in Fields, NEW v \in Values, ChangeSetting(n, f, v)
    PROVE  IInv'
<1> DEFINE a == records[n]
<1>1. TypeOK /\ HasField(a, f)
  BY DEF IInv, ChangeSetting
<1>2. a \in Address
  BY <1>1 DEF TypeOK, HasField
<1>3. /\ chain' = WithField(a, f, v) /\ standing' = standing \ OnField(a, f)
      /\ disturbed' \in BOOLEAN /\ disturbances' \in Nat
      /\ UNCHANGED <<network, records, unsaved, phase, command, pc, account, seen, deployed, lost, repeated>>
  BY <1>1 DEF ChangeSetting, Disturb, runVars, TypeOK
<1>4. /\ DOMAIN chain' = DOMAIN chain
      /\ \A b \in DOMAIN chain :
            /\ chain'[b].owner \in Values /\ OnFields(chain'[b].fields, Values)
            /\ DOMAIN chain'[b].fields = DOMAIN chain[b].fields
      /\ \A b \in DOMAIN chain : \A g \in DOMAIN chain[b].fields :
            chain'[b].fields[g] = IF b = a /\ g = f THEN v ELSE chain[b].fields[g]
  BY <1>1, <1>2, <1>3, WithFieldType
<1>5. TypeOK'
  BY <1>1, <1>3, <1>4 DEF TypeOK
<1>6. Lead'
  BY <1>3, <1>4 DEF IInv, Lead, AtStep, Step
<1>7. Stands'
  <2>1. ASSUME NEW tx \in standing'
        PROVE  HasField(tx[1], tx[2])' /\ chain'[tx[1]].fields[tx[2]] = tx[3]
    <3>1. tx \in standing /\ ~(tx[1] = a /\ tx[2] = f)
      BY <1>3 DEF OnField
    <3> QED
      BY <1>4, <3>1 DEF IInv, Stands, HasField
  <2> QED
    BY <1>3, <2>1 DEF IInv, Stands
<1>8. Fresh'
  <2>1. ASSUME NEW g \in DOMAIN seen, seen[g].value # Undefined
        PROVE  /\ seen[g].at \in DOMAIN chain' /\ g \in DOMAIN chain'[seen[g].at].fields
               /\ \/ seen[g].value = chain'[seen[g].at].fields[g]
                  \/ \A x \in standing' : ~(x[2] = g /\ x[1] = seen[g].at)
    <3>1. /\ seen[g].at \in DOMAIN chain /\ g \in DOMAIN chain[seen[g].at].fields
          /\ \/ seen[g].value = chain[seen[g].at].fields[g]
             \/ \A x \in standing : ~(x[2] = g /\ x[1] = seen[g].at)
      BY <2>1 DEF IInv, Fresh, HasField, OnField
    <3>2. CASE seen[g].at = a /\ g = f
      BY <1>3, <1>4, <3>1, <3>2 DEF OnField
    <3>3. CASE ~(seen[g].at = a /\ g = f)
      BY <1>3, <1>4, <3>1, <3>3
    <3> QED
      BY <3>2, <3>3
  <2> QED
    BY <1>3, <2>1 DEF Fresh, HasField, OnField
<1>9. NothingNeedless'
  BY <1>3 DEF IInv, NothingNeedless
<1> QED
  BY <1>5, <1>6, <1>7, <1>8, <1>9 DEF IInv

\* Contracts whose records are deleted count as never deployed.
LEMMA DeleteRecordsInv ==
    ASSUME IInv, NEW names \in SUBSET Names, DeleteRecords(names)
    PROVE  IInv'
<1>1. TypeOK
  BY DEF IInv
<1>2. /\ records' = [n \in Names |-> IF n \in names THEN Zero ELSE records[n]]
      /\ unsaved' = Zero /\ deployed' = deployed \ names /\ lost' = (lost \cup Pending) \ names
      /\ disturbed' \in BOOLEAN /\ disturbances' \in Nat
      /\ UNCHANGED <<network, chain, phase, command, pc, account, seen, standing, repeated>>
  BY <1>1 DEF DeleteRecords, Disturb, runVars, TypeOK
<1>3. TypeOK'
  BY <1>1, <1>2 DEF TypeOK, Pending, Address
<1>4. Lead'
  BY <1>2 DEF IInv, Lead
<1>5. Stands'
  BY <1>1, <1>2 DEF IInv, Stands, Pending, HasField, TypeOK
<1>6. Fresh' /\ NothingNeedless'
  BY <1>2 DEF IInv, Fresh, NothingNeedless, HasField, OnField
<1> QED
  BY <1>3, <1>4, <1>5, <1>6 DEF IInv
-----------------------------------------------------------------------------
(* Theorems *)

\* Every step keeps the invariant.
LEMMA NextInv == IInv /\ [Next]_vars => IInv'
<1> SUFFICES ASSUME IInv, [Next]_vars PROVE IInv'
  OBVIOUS
<1>1. CASE RunStep
  BY <1>1, GetRecordInv, SkipDeployedInv, DeployContractInv, SaveRecordInv, ReadFieldInv,
     InspectContractInv, SetFieldInv, FinishInv DEF RunStep
<1>2. ASSUME NEW c \in Commands, Start(c) PROVE IInv'
  BY <1>2, StartInv
<1>3. CASE Abort
  BY <1>3, AbortInv
<1>4. ASSUME NEW change \in AdminChanges, ChangeSetting(change[1], change[2], change[3])
      PROVE  IInv'
  BY <1>4, ChangeSettingInv, HardhatAssumption
<1>5. ASSUME NEW names \in Discards, DeleteRecords(names) PROVE IInv'
  BY <1>5, DeleteRecordsInv, HardhatAssumption
<1>6. CASE UNCHANGED vars
  BY <1>6 DEF vars, chainVars, runVars, historyVars, IInv, TypeOK, Lead, Stands, Fresh,
     NothingNeedless, AtStep, Step, HasField, OnField
<1> QED
  BY <1>1, <1>2, <1>3, <1>4, <1>5, <1>6 DEF Next

\* So it always holds.
LEMMA Invariance == Spec => []IInv
  BY InitInv, NextInv, PTL DEF Spec

\* The types, for any scripts whose steps have their types.
THEOREM TypeCorrect == Spec => []TypeOK
<1>1. IInv => TypeOK
  BY DEF IInv
<1> QED
  BY <1>1, Invariance, PTL

\* A record never leads to nowhere or to a contract of another name, whenever the process
\* that deploys and records it is killed.
THEOREM RecordsLeadToContracts ==
    Spec => [](\A n \in Names : records[n] # Zero => records[n] \in DOMAIN chain /\ records[n][1] = n)
<1>1. IInv => \A n \in Names : records[n] # Zero => records[n] \in DOMAIN chain /\ records[n][1] = n
  BY DEF IInv, Lead
<1> QED
  BY <1>1, Invariance, PTL

\* The scripts are rerunnable: whatever they are, wherever earlier runs ended, whatever
\* changed in between, a transaction that still stands is executed again only if it is a
\* deployment a killed run did not record, or if the value it sets could not be read.
THEOREM RunsRepeatNothing == Spec => []NothingNeedless
<1>1. IInv => NothingNeedless
  BY DEF IInv
<1> QED
  BY <1>1, Invariance, PTL
-----------------------------------------------------------------------------
(* How the contracts are wired *)

\* What the run has looked up so far is there.
Gotten ==
    phase = "running" =>
       \A j \in 1 .. pc - 1 :
          /\ j \in DOMAIN Program[command]
          /\ Program[command][j].do = "get" => Found(Program[command][j])

\* A contract whose field was read has the name that the last step to read it gives.
Remembered ==
    phase = "running" =>
       \A f \in DOMAIN seen : seen[f].at # Zero =>
          \E j \in 1 .. pc - 1 :
             /\ Reads(Program[command][j], f) /\ seen[f].at[1] = Program[command][j].name
             /\ \A k \in j + 1 .. pc - 1 : ~Reads(Program[command][k], f)

WellWiredField(a, f, v) ==
    /\ a[1] \in Proxies /\ f = "implementation" => v # Zero /\ v[1] = ImplementationOf(a[1])
    /\ f = "paymentToken" => v # Zero
    /\ f \in DOMAIN Referred /\ v # Zero => v[1] = Referred[f] /\ v \in DOMAIN chain

FieldsWired ==
    \A a \in DOMAIN chain :
       /\ a[1] \in Proxies => "implementation" \in DOMAIN chain[a].fields
       /\ \A f \in DOMAIN chain[a].fields : WellWiredField(a, f, chain[a].fields[f])

WiringInv == pc > 0 /\ Gotten /\ Remembered /\ FieldsWired

\* A script goes on to its next step: a record is found, what is read is remembered, and
\* what is recorded already stays.
LEMMA GoesOn ==
    ASSUME TypeOK, WiringInv, phase = "running",
           phase' = "running", command' = command, network' = network, pc' = pc + 1,
           \A n \in Names : records[n] # Zero => records'[n] # Zero,
           pc \in DOMAIN Program[command], Step.do = "get" => Found(Step),
           \A f \in DOMAIN seen' :
              \/ ~Reads(Step, f) /\ f \in DOMAIN seen /\ seen'[f] = seen[f]
              \/ Reads(Step, f) /\ (seen'[f].at # Zero => seen'[f].at[1] = Step.name)
    PROVE  pc' > 0 /\ Gotten' /\ Remembered'
<1>1. pc \in Nat /\ pc > 0 /\ pc' > 0 /\ 1 .. pc' - 1 = (1 .. pc - 1) \cup {pc}
  BY DEF TypeOK, WiringInv
<1>2. Gotten'
  <2>1. ASSUME NEW j \in 1 .. pc' - 1
        PROVE  /\ j \in DOMAIN Program[command]
               /\ Program[command][j].do = "get" => Found(Program[command][j])
    <3>1. CASE j = pc
      BY <3>1 DEF Step
    <3>2. CASE j \in 1 .. pc - 1
      BY <3>2 DEF WiringInv, Gotten
    <3> QED
      BY <1>1, <3>1, <3>2
  <2>2. ASSUME NEW i \in DOMAIN Program[command], Program[command][i].do = "get",
               Found(Program[command][i])
        PROVE  Found(Program[command][i])'
    <3>1. Program[command][i].name \in Names
      <4>1. IsStep(Program[command][i])
        BY HardhatAssumption DEF TypeOK
      <4> QED
        BY <2>2, <4>1 DEF IsStep
    <3> QED
      BY <2>2, <3>1 DEF Found
  <2> QED
    BY <2>1, <2>2 DEF Gotten
<1>3. Remembered'
  <2> SUFFICES ASSUME NEW f \in DOMAIN seen', seen'[f].at # Zero
               PROVE  \E j \in 1 .. pc' - 1 :
                         /\ Reads(Program[command][j], f)
                         /\ seen'[f].at[1] = Program[command][j].name
                         /\ \A k \in j + 1 .. pc' - 1 : ~Reads(Program[command][k], f)
    BY DEF Remembered
  <2>1. CASE ~Reads(Step, f) /\ f \in DOMAIN seen /\ seen'[f] = seen[f]
    <3>1. PICK j \in 1 .. pc - 1 :
             /\ Reads(Program[command][j], f) /\ seen[f].at[1] = Program[command][j].name
             /\ \A k \in j + 1 .. pc - 1 : ~Reads(Program[command][k], f)
      BY <2>1 DEF WiringInv, Remembered
    <3>2. \A k \in j + 1 .. pc' - 1 : k = pc \/ k \in j + 1 .. pc - 1
      BY <1>1
    <3>3. ~Reads(Program[command][pc], f)
      BY <2>1 DEF Step
    <3> QED
      BY <1>1, <2>1, <3>1, <3>2, <3>3
  <2>2. CASE Reads(Step, f) /\ (seen'[f].at # Zero => seen'[f].at[1] = Step.name)
    <3>1. pc \in 1 .. pc' - 1 /\ pc + 1 .. pc' - 1 = {}
      BY <1>1
    <3> QED
      BY <2>2, <3>1 DEF Step
  <2> QED
    BY <2>1, <2>2
<1> QED
  BY <1>1, <1>2, <1>3

\* A run that ends, or that has not begun, has looked up and remembers nothing.
LEMMA Begins ==
    ASSUME pc' = 1, seen' = NothingSeen
    PROVE  pc' > 0 /\ Gotten' /\ Remembered'
<1>1. 1 .. pc' - 1 = {} /\ DOMAIN seen' = {}
  BY DEF NothingSeen
<1> QED
  BY <1>1 DEF Gotten, Remembered

\* A change of one field
LEMMA OneFieldWired ==
    ASSUME TypeOK, FieldsWired, NEW a \in Address, NEW f \in Fields, NEW v \in Values,
           HasField(a, f), chain' = WithField(a, f, v), WellWiredField(a, f, v)
    PROVE  FieldsWired'
<1>1. /\ DOMAIN chain' = DOMAIN chain
      /\ \A b \in DOMAIN chain : DOMAIN chain'[b].fields = DOMAIN chain[b].fields
      /\ \A b \in DOMAIN chain : \A g \in DOMAIN chain[b].fields :
            chain'[b].fields[g] = IF b = a /\ g = f THEN v ELSE chain[b].fields[g]
  BY WithFieldType
<1>2. \A b, g, w : WellWiredField(b, g, w) => WellWiredField(b, g, w)'
  BY <1>1 DEF WellWiredField
<1>3. ASSUME NEW b \in DOMAIN chain, NEW g \in DOMAIN chain[b].fields
      PROVE  WellWiredField(b, g, chain'[b].fields[g])
  BY <1>1, <1>3 DEF FieldsWired
<1> QED
  BY <1>1, <1>2, <1>3 DEF FieldsWired

\* What a step looked up before is in the records, or is a named account.
LEMMA LookedUpIsThere ==
    ASSUME TypeOK, WiringInv, phase = "running", NEW name, NEW label,
           LookedUp(Program[command], pc, name, label)
    PROVE  /\ name \in Names
           /\ records[name] # Zero \/ (label # None /\ NamedAccounts[network][label] # Zero)
<1>1. PICK j \in 1 .. pc - 1 : /\ Program[command][j].do = "get" /\ Program[command][j].name = name
                               /\ Program[command][j].label \in {None, label}
  BY DEF LookedUp
<1>2. j \in DOMAIN Program[command] /\ Found(Program[command][j])
  BY <1>1 DEF WiringInv, Gotten
<1>3. IsStep(Program[command][j])
  BY <1>2, HardhatAssumption DEF TypeOK
<1> QED
  BY <1>1, <1>2, <1>3 DEF IsStep, Found

\* The constructor of a contract wires it.
LEMMA NewContractWired ==
    ASSUME IInv, WiringInv, AtStep("deploy"), NEW a \in Address, a[1] = Step.name
    PROVE  /\ a[1] \in Proxies => "implementation" \in DOMAIN NewContract(Step).fields
           /\ \A f \in DOMAIN NewContract(Step).fields :
                 WellWiredField(a, f, NewContract(Step).fields[f])
<1>1. /\ TypeOK /\ phase = "running" /\ pc \in DOMAIN Program[command] /\ Step.do = "deploy"
      /\ OnFields(Step.fields, Required)
  BY StepFields DEF IInv, AtStep
<1>2. DeploysWired(Program[command], pc) /\ Program[command][pc] = Step
  BY <1>1, WiringAssumption DEF TypeOK, Step
<1>3. /\ DOMAIN NewContract(Step).fields = DOMAIN Step.fields
      /\ \A f \in DOMAIN Step.fields : NewContract(Step).fields[f] = Value(Step.fields[f])
  BY DEF NewContract
<1>4. ASSUME a[1] \in Proxies
      PROVE  /\ "implementation" \in DOMAIN Step.fields
             /\ Value(Step.fields["implementation"]) # Zero
             /\ Value(Step.fields["implementation"])[1] = ImplementationOf(a[1])
  <2> DEFINE of == ImplementationOf(a[1])
  <2>1. /\ "implementation" \in DOMAIN Step.fields
        /\ Step.fields["implementation"] = recorded(of)
        /\ LookedUp(Program[command], pc, of, None)
    BY <1>2, <1>4 DEF DeploysWired
  <2> HIDE DEF of
  <2>2. of \in Names /\ records[of] # Zero
    BY <1>1, <2>1, LookedUpIsThere
  <2>3. Value(Step.fields["implementation"]) = records[of] /\ records[of][1] = of
    BY <2>1, <2>2 DEF Value, recorded, IInv, Lead
  <2> QED
    BY <2>1, <2>2, <2>3 DEF of
<1>5. ASSUME "paymentToken" \in DOMAIN Step.fields
      PROVE  Value(Step.fields["paymentToken"]) # Zero
  <2>1. /\ Step.fields["paymentToken"] = ali
        /\ LookedUp(Program[command], pc, ali.name, ali.label)
    BY <1>2, <1>5 DEF DeploysWired
  <2>2. /\ ali.name \in Names /\ ali.name # None /\ ali.from = "named"
        /\ records[ali.name] # Zero \/ NamedAccounts[network][ali.label] # Zero
    BY <1>1, <2>1, LookedUpIsThere, HardhatAssumption DEF ali
  <2>3. Value(ali) = IF NamedAccounts[network][ali.label] # Zero \/ ali.name = None
                     THEN NamedAccounts[network][ali.label] ELSE records[ali.name]
    BY <2>2 DEF Value
  <2> QED
    BY <2>1, <2>2, <2>3
<1>6. ASSUME NEW f \in DOMAIN Step.fields, f \in DOMAIN Referred
      PROVE  Value(Step.fields[f]) = Zero
  <2>1. Step.fields[f] = literal(Zero)
    BY <1>2, <1>6 DEF DeploysWired
  <2> QED
    BY <2>1 DEF Value, literal
<1> QED
  BY <1>3, <1>4, <1>5, <1>6 DEF WellWiredField

\* A deployment adds a contract that is wired, and changes no other.
LEMMA DeployWired == ASSUME IInv, WiringInv, DeployContract PROVE WiringInv'
<1> DEFINE contract == NewContract(Step)
<1>1. AtStep("deploy") /\ TypeOK /\ UNCHANGED <<network, records, phase, command, pc, account, seen>>
  BY DEF IInv, DeployContract, runVars
<1>2. PICK a \in NextAddress(Step.name) :
         chain' = [b \in DOMAIN chain \cup {a} |-> IF b = a THEN contract ELSE chain[b]]
  BY DEF DeployContract
<1>3. a \in Address /\ a[1] = Step.name /\ a \notin DOMAIN chain
  BY <1>2 DEF NextAddress, Address
<1>4. /\ DOMAIN chain' = DOMAIN chain \cup {a} /\ chain'[a] = contract
      /\ \A b \in DOMAIN chain : chain'[b] = chain[b]
  BY <1>2, <1>3
<1>5. \A b, g, w : WellWiredField(b, g, w) => WellWiredField(b, g, w)'
  BY <1>4 DEF WellWiredField
<1>6. /\ a[1] \in Proxies => "implementation" \in DOMAIN contract.fields
      /\ \A f \in DOMAIN contract.fields : WellWiredField(a, f, contract.fields[f])
  BY <1>1, <1>3, NewContractWired
<1> HIDE DEF contract
<1>7. FieldsWired'
  BY <1>4, <1>5, <1>6 DEF WiringInv, FieldsWired
<1> QED
  BY <1>1, <1>7 DEF WiringInv, Gotten, Remembered, Found

\* A transaction goes to the contract that was read, and wires it.
LEMMA TransactionWired ==
    ASSUME IInv, WiringInv, AtStep("set"), Comparable, Accepted
    PROVE  WellWiredField(Saw.at, Step.field, Value(Step.required))
<1> DEFINE a == Saw.at
           f == Step.field
           v == Value(Step.required)
<1>1. /\ TypeOK /\ phase = "running" /\ pc \in DOMAIN Program[command] /\ Step.do = "set"
      /\ Step.required \in Required /\ f \in DOMAIN seen /\ HasField(a, f)
  BY StepFields DEF IInv, AtStep, Comparable, Accepted
<1>2. a # Zero /\ a = seen[f].at
  BY <1>1, AddressesAreValues DEF TypeOK, HasField, Saw
<1>3. SetsWired(Program[command], pc) /\ Program[command][pc] = Step
  BY <1>1, WiringAssumption DEF TypeOK, Step
<1>4. ASSUME NEW name, Step.required = recorded(name)
      PROVE  name \in Names /\ v = records[name]
             /\ (v # Zero => v[1] = name /\ v \in DOMAIN chain)
  <2>1. name \in Names
    BY <1>1, <1>4 DEF Required, recorded
  <2>2. v = records[name]
    BY <1>4 DEF Value, recorded
  <2> QED
    BY <2>1, <2>2 DEF IInv, Lead
<1>5. ASSUME f = "implementation"
      PROVE  v # Zero /\ v[1] = ImplementationOf(a[1])
  <2>1. PICK proxy \in Proxies :
           /\ Step.required = recorded(ImplementationOf(proxy))
           /\ LookedUp(Program[command], pc, ImplementationOf(proxy), None)
           /\ LastRead(Program[command], pc, f, proxy)
    BY <1>3, <1>5 DEF SetsWired
  <2> DEFINE of == ImplementationOf(proxy)
  <2> HIDE DEF of
  <2>2. records[of] # Zero /\ v = records[of] /\ v[1] = of
    BY <1>1, <1>4, <2>1, LookedUpIsThere DEF of
  <2>3. a[1] = proxy
    <3>1. PICK j \in 1 .. pc - 1 :
             /\ Reads(Program[command][j], f) /\ Program[command][j].name = proxy
             /\ \A k \in j + 1 .. pc - 1 : ~Reads(Program[command][k], f)
      BY <2>1 DEF LastRead
    <3>2. PICK i \in 1 .. pc - 1 :
             /\ Reads(Program[command][i], f) /\ a[1] = Program[command][i].name
             /\ \A k \in i + 1 .. pc - 1 : ~Reads(Program[command][k], f)
      BY <1>1, <1>2 DEF WiringInv, Remembered
    <3>3. pc \in Nat /\ i \in Nat /\ j \in Nat
      BY <1>1 DEF TypeOK
    <3>4. ~(i < j) /\ ~(j < i)
      BY <3>1, <3>2, <3>3
    <3> QED
      BY <3>1, <3>2, <3>3, <3>4
  <2> QED
    BY <2>2, <2>3 DEF of
<1>6. ASSUME f \in DOMAIN Referred, v # Zero
      PROVE  v[1] = Referred[f] /\ v \in DOMAIN chain
  <2>1. Step.required = recorded(Referred[f])
    BY <1>3, <1>6 DEF SetsWired
  <2> QED
    BY <1>4, <1>6, <2>1
<1>7. f # "paymentToken"
  BY <1>3 DEF SetsWired
<1> QED
  BY <1>5, <1>6, <1>7 DEF WellWiredField

\* A step of a run that leaves the contracts as they are
LEMMA ContractsUntouched ==
    ASSUME WiringInv, UNCHANGED chain, pc' > 0, Gotten', Remembered'
    PROVE  WiringInv'
  BY DEF WiringInv, FieldsWired, WellWiredField

\* Every step of a script keeps the wiring.
LEMMA RunStepWired == ASSUME IInv, WiringInv, RunStep PROVE WiringInv'
<1>1. TypeOK /\ pc \in Nat
  BY DEF IInv, TypeOK
<1>2. ASSUME NEW outcome \in {"done", "failed"}, EndAs(outcome)
      PROVE  WiringInv'
  BY <1>2, Begins, ContractsUntouched DEF EndAs, chainVars
<1>3. CASE GetRecord
  <2>1. CASE Fails
    BY <1>2, <2>1 DEF Fails
  <2>2. CASE /\ Found(Step) /\ Continue
             /\ UNCHANGED <<network, chainVars, seen, disturbed, historyVars, disturbances>>
    <3>1. /\ phase = "running" /\ pc \in DOMAIN Program[command]
          /\ \A f : ~Reads(Step, f)
      BY <1>3 DEF GetRecord, AtStep, Reads
    <3> QED
      BY <1>1, <2>2, <3>1, GoesOn, ContractsUntouched DEF Continue, chainVars
  <2> QED
    BY <1>3, <2>1, <2>2 DEF GetRecord
<1>4. CASE SkipDeployed
  <2>1. /\ phase = "running" /\ pc \in DOMAIN Program[command] /\ Step.do = "deploy"
        /\ \A f : ~Reads(Step, f)
        /\ Continue /\ UNCHANGED <<network, chainVars, seen>>
    BY <1>4 DEF SkipDeployed, AtStep, Reads
  <2> QED
    BY <1>1, <2>1, GoesOn, ContractsUntouched DEF Continue, chainVars
<1>5. CASE DeployContract
  BY <1>5, DeployWired
<1>6. CASE SaveRecord
  <2>1. /\ phase = "running" /\ pc \in DOMAIN Program[command] /\ Step.do = "deploy"
        /\ unsaved # Zero /\ records' = [records EXCEPT ![Step.name] = unsaved]
        /\ Continue /\ UNCHANGED <<network, chain, seen>>
    BY <1>6 DEF SaveRecord, AtStep
  <2>2. \A f : ~Reads(Step, f)
    BY <2>1 DEF Reads
  <2>3. \A n \in Names : records[n] # Zero => records'[n] # Zero
    BY <1>1, <2>1 DEF TypeOK
  <2> QED
    BY <1>1, <2>1, <2>2, <2>3, GoesOn, ContractsUntouched DEF Continue
<1>7. CASE ReadField
  <2> DEFINE a == records[Step.name]
  <2>1. /\ phase = "running" /\ pc \in DOMAIN Program[command] /\ Step.do = "read"
        /\ Step.name \in Names
    BY <1>1, <1>7, StepFields DEF ReadField, AtStep
  <2>2. CASE Fails
    BY <1>2, <2>2 DEF Fails
  <2>3. CASE /\ seen' = [f \in DOMAIN seen \cup {Step.field} |->
                   IF f = Step.field THEN [at |-> a, value |-> chain[a].fields[f]] ELSE seen[f]]
             /\ Continue
             /\ UNCHANGED <<network, chainVars>>
    <3>1. ASSUME NEW f \in DOMAIN seen'
          PROVE  \/ ~Reads(Step, f) /\ f \in DOMAIN seen /\ seen'[f] = seen[f]
                 \/ Reads(Step, f) /\ (seen'[f].at # Zero => seen'[f].at[1] = Step.name)
      <4>1. CASE f = Step.field
        <5>1. seen'[f].at = a /\ Reads(Step, f)
          BY <2>1, <2>3, <4>1 DEF Reads
        <5> QED
          BY <2>1, <5>1 DEF IInv, Lead
      <4>2. CASE f # Step.field
        BY <2>1, <2>3, <4>2 DEF Reads
      <4> QED
        BY <4>1, <4>2
    <3> QED
      BY <1>1, <2>1, <2>3, <3>1, GoesOn, ContractsUntouched DEF Continue, chainVars
  <2> QED
    BY <1>7, <2>2, <2>3 DEF ReadField
<1>8. CASE InspectContract
  <2> DEFINE a == records[Step.name]
             asked == {Step.fields[i] : i \in DOMAIN Step.fields}
  <2>1. /\ phase = "running" /\ pc \in DOMAIN Program[command] /\ Step.do = "inspect"
        /\ Step.name \in Names
    BY <1>1, <1>8, StepFields DEF InspectContract, AtStep
  <2>2. PICK answers \in 0 .. Len(Step.fields) :
           seen' = [f \in DOMAIN seen \cup asked |->
                   IF f \notin asked THEN seen[f]
                   ELSE [at |-> a, value |-> IF f \in {Step.fields[i] : i \in 1 .. answers}
                                                  /\ HasField(a, f)
                                             THEN chain[a].fields[f] ELSE Undefined]]
    BY <1>8 DEF InspectContract
  <2>3. Continue /\ UNCHANGED <<network, chainVars>>
    BY <1>8 DEF InspectContract
  <2>4. ASSUME NEW f \in DOMAIN seen'
        PROVE  \/ ~Reads(Step, f) /\ f \in DOMAIN seen /\ seen'[f] = seen[f]
               \/ Reads(Step, f) /\ (seen'[f].at # Zero => seen'[f].at[1] = Step.name)
    <3>1. f \in asked <=> Reads(Step, f)
      BY <2>1 DEF Reads
    <3>2. CASE f \in asked
      <4>1. seen'[f].at = a
        BY <2>2, <3>2
      <4> QED
        BY <2>1, <3>1, <3>2, <4>1 DEF IInv, Lead
    <3>3. CASE f \notin asked
      BY <2>2, <3>1, <3>3
    <3> QED
      BY <3>2, <3>3
  <2> QED
    BY <1>1, <2>1, <2>3, <2>4, GoesOn, ContractsUntouched DEF Continue, chainVars
<1>9. CASE SetField
  <2>1. /\ phase = "running" /\ pc \in DOMAIN Program[command] /\ Step.do = "set"
        /\ \A f : ~Reads(Step, f)
    BY <1>9 DEF SetField, AtStep, Reads
  <2>2. CASE Fails
    BY <1>2, <2>2 DEF Fails
  <2>3. ASSUME Used(Step.field), Continue, UNCHANGED <<network, records>>
        PROVE  pc' > 0 /\ Gotten' /\ Remembered'
    <3>1. \A f \in DOMAIN seen' : f \in DOMAIN seen /\ seen'[f] = seen[f]
      BY <2>3 DEF Used
    <3> QED
      BY <1>1, <2>1, <2>3, <3>1, GoesOn DEF Continue
  <2>4. CASE Comparable /\ Needed /\ Accepted /\ Transact
    <3> DEFINE a == Saw.at
               f == Step.field
               v == Value(Step.required)
    <3>1. /\ f \in Fields /\ v \in Values /\ HasField(a, f) /\ a \in Address
      BY <1>1, <2>1, <2>4, StepFields, ValueType DEF Accepted, TypeOK, HasField
    <3>2. WellWiredField(a, f, v)
      BY <1>9, <2>4, TransactionWired DEF SetField
    <3>3. chain' = WithField(a, f, v) /\ Used(f) /\ Continue /\ UNCHANGED <<network, records>>
      BY <2>4 DEF Transact
    <3> HIDE DEF a, f, v
    <3>4. FieldsWired'
      BY <1>1, <3>1, <3>2, <3>3, OneFieldWired DEF WiringInv
    <3> QED
      BY <2>3, <3>3, <3>4 DEF WiringInv, f
  <2>5. CASE /\ Used(Step.field)
             /\ Continue
             /\ UNCHANGED <<network, chainVars, disturbed, historyVars, disturbances>>
    BY <2>3, <2>5, ContractsUntouched DEF chainVars
  <2> QED
    BY <1>9, <2>2, <2>4, <2>5 DEF SetField
<1>10. CASE Finish
  BY <1>2, <1>10 DEF Finish
<1> QED
  BY <1>3, <1>4, <1>5, <1>6, <1>7, <1>8, <1>9, <1>10 DEF RunStep

\* Administrators wire no contract: they only take a reference away.
LEMMA ChangeWired ==
    ASSUME IInv, WiringInv, NEW change \in AdminChanges,
           ChangeSetting(change[1], change[2], change[3])
    PROVE  WiringInv'
<1> DEFINE a == records[change[1]]
           f == change[2]
           v == change[3]
<1>1. /\ TypeOK /\ HasField(a, f) /\ chain' = WithField(a, f, v)
      /\ UNCHANGED <<network, records, phase, command, pc, seen>>
  BY DEF IInv, ChangeSetting, runVars
<1>2. f \in Fields /\ v \in Values /\ a \in Address
  BY <1>1, HardhatAssumption DEF TypeOK, HasField
<1>3. WellWiredField(a, f, v)
  BY WiringAssumption DEF WellWiredField
<1> HIDE DEF a, f, v
<1>4. FieldsWired'
  BY <1>1, <1>2, <1>3, OneFieldWired DEF WiringInv
<1> QED
  BY <1>1, <1>4 DEF WiringInv, Gotten, Remembered, Found

\* What other repositories deployed are no proxies, and have no field that is wired here.
LEMMA InitWired == Init => WiringInv
<1> SUFFICES ASSUME Init PROVE WiringInv
  OBVIOUS
<1>1. pc > 0 /\ Gotten /\ Remembered
  BY DEF Init, Gotten, Remembered
<1>2. ASSUME NEW a \in DOMAIN chain
      PROVE  a[1] \notin Proxies /\ DOMAIN chain[a].fields = {}
  <2>1. PICK n \in Names : a = Preset[network][n] /\ a # Zero
    BY DEF Init
  <2>2. a = <<n, 0>> /\ network \in Networks
    BY <2>1, HardhatAssumption DEF Init
  <2>3. n \notin Proxies
    BY <2>1, <2>2, WiringAssumption
  <2>4. chain[a] = [owner |-> Zero, fields |-> [f \in {} |-> Zero]]
    BY DEF Init
  <2> QED
    BY <2>2, <2>3, <2>4
<1>3. FieldsWired
  BY <1>2 DEF FieldsWired
<1> QED
  BY <1>1, <1>3 DEF WiringInv

\* Every step of the runs and around them keeps the wiring.
LEMMA NextWired == IInv /\ WiringInv /\ [Next]_vars => WiringInv'
<1> SUFFICES ASSUME IInv, WiringInv, [Next]_vars PROVE WiringInv'
  OBVIOUS
<1>1. CASE RunStep
  BY <1>1, RunStepWired
<1>2. ASSUME NEW c \in Commands, Start(c) PROVE WiringInv'
  BY <1>2, Begins, ContractsUntouched DEF Start
<1>3. CASE Abort
  BY <1>3, Begins, ContractsUntouched DEF Abort, EndAs, chainVars
<1>4. ASSUME NEW change \in AdminChanges, ChangeSetting(change[1], change[2], change[3])
      PROVE  WiringInv'
  BY <1>4, ChangeWired
<1>5. ASSUME NEW names \in Discards, DeleteRecords(names) PROVE WiringInv'
  <2>1. phase # "running" /\ UNCHANGED <<network, chain, phase, command, pc, account, seen>>
    BY <1>5 DEF DeleteRecords, runVars
  <2>2. pc' > 0 /\ Gotten' /\ Remembered'
    BY <2>1 DEF WiringInv, Gotten, Remembered
  <2> QED
    BY <2>1, <2>2, ContractsUntouched
<1>6. CASE UNCHANGED vars
  <2>1. UNCHANGED <<network, chain, records, phase, command, pc, seen>>
    BY <1>6 DEF vars, chainVars, runVars
  <2>2. pc' > 0 /\ Gotten' /\ Remembered'
    BY <2>1 DEF WiringInv, Gotten, Remembered, Found
  <2> QED
    BY <2>1, <2>2, ContractsUntouched
<1> QED
  BY <1>1, <1>2, <1>3, <1>4, <1>5, <1>6 DEF Next

\* Scripts that look up what they use, and send a transaction to the contract they read,
\* wire every contract as it should be, wherever their runs are interrupted, whatever is
\* forgotten and deployed again, and whatever administrators change meanwhile.
THEOREM WiredForEver == Spec => []WellWired
<1>1. IInv /\ WiringInv => WellWired
  <2> SUFFICES ASSUME IInv, WiringInv PROVE WellWired
    OBVIOUS
  <2>1. \A n \in Names : records[n] # Zero => records[n] \in DOMAIN chain /\ records[n][1] = n
    BY DEF IInv, Lead
  <2>2. ASSUME NEW a \in DOMAIN chain, NEW f \in DOMAIN chain[a].fields
        PROVE  WellWiredField(a, f, chain[a].fields[f])
    BY <2>2 DEF WiringInv, FieldsWired
  <2>3. \A a \in DOMAIN chain : a[1] \in Proxies => "implementation" \in DOMAIN chain[a].fields
    BY DEF WiringInv, FieldsWired
  <2> QED
    BY <2>1, <2>2, <2>3 DEF WellWired, WellWiredField, HasField
<1>2. Spec => []WiringInv
  BY InitWired, NextWired, Invariance, PTL DEF Spec
<1> QED
  BY <1>1, <1>2, Invariance, PTL
-----------------------------------------------------------------------------
(* Runs that nothing interferes with.  The theorem at the end takes two    *)
(* conditions: ScriptsFit, which a run of TLC evaluates for the scripts of  *)
(* the repository, and that setters ask for what DeployScripts says.        *)

\* What a run can rely on, whatever happened before and happens to it: records and
\* fields are there, contracts are its own, and what it deployed is recorded.
Reliable ==
    /\ pc > 0
    /\ \A n \in Names : Preset[network][n] # Zero => records[n] # Zero
    /\ \A a \in DOMAIN chain :
          /\ \A f \in Fields : Has(a[1], f) => f \in DOMAIN chain[a].fields
          /\ Preset[network][a[1]] = Zero =>
                \A e \in Environments : chain[a].owner = ServiceAccount(network, e)
    /\ phase = "running" =>
          /\ \E e \in Environments : account = ServiceAccount(network, e)
          /\ unsaved # Zero => records[unsaved[1]] = Zero
          /\ \A n \in Names : DeployedBefore(Program[command], pc, n) => records[n] # Zero

\* Step `r` was the last before step `i` to ask for a field, which no step set since.
AskedAt(steps, i, f, r) ==
    r \in 1 .. i - 1 /\ Reads(steps[r], f) /\ \A k \in r + 1 .. i - 1 : ~Touches(steps[k], f)

\* The script remembers the value of a field.
Answered(f, a) ==
    /\ f \in DOMAIN seen /\ HasField(a, f)
    /\ seen[f].at = a /\ seen[f].value = chain[a].fields[f]

\* A contract has the value that a step was to set.
Agrees(step, a) ==
    /\ HasField(a, step.field)
    /\ IF step.when = "0" THEN chain[a].fields[step.field] # Zero
       ELSE chain[a].fields[step.field] = Value(step.required)

\* What an undisturbed run asked for it knows, and what it set last is still so.
Achieved ==
    phase = "running" /\ ~disturbed =>
       /\ \A f \in Fields, r \in 1 .. pc - 1 :
             AskedAt(Program[command], pc, f, r) => Answered(f, records[Program[command][r].name])
       /\ \A f \in Fields, n \in Names, j \in 1 .. pc - 1 :
             LastSet(Program[command], pc, j, n, f) => Agrees(Program[command][j], records[n])

RunInv == Reliable /\ Achieved /\ RunConfigures

\* The contracts of the repository check new values as DeployScripts says.
RepositorySetters ==
    /\ Zero = ZERO_ADDRESS
    /\ \A fields, f, v : Accepts(fields, f, v) <=> acceptsValue(fields, f, v)

\* A step that reads or sets asks for contracts that were deployed before.
LEMMA ProgramFits ==
    ASSUME ScriptsFit, NEW c \in Commands, NEW i \in DOMAIN Program[c]
    PROVE  LET steps == Program[c] IN
           /\ i \in Nat /\ i > 0 /\ i <= Len(steps) /\ DOMAIN steps = 1 .. Len(steps)
           /\ IsStep(steps[i])
           /\ steps[i].do = "get" => GetsRecorded(steps, i)
           /\ steps[i].do \in {"read", "inspect"} => ReadsDeployed(steps, i)
           /\ steps[i].do = "set" => SetsAccepted(steps, i) /\ KeepsGoals(steps, i)
           /\ \A f : Reads(steps[i], f) =>
                 /\ steps[i].name \in Names /\ DeployedBefore(steps, i, steps[i].name)
                 /\ f \in Fields /\ Has(steps[i].name, f)
<1> DEFINE steps == Program[c]
<1>1. /\ DOMAIN steps = 1 .. Len(steps) /\ IsStep(steps[i])
      /\ steps[i].do = "get" => GetsRecorded(steps, i)
      /\ steps[i].do \in {"read", "inspect"} => ReadsDeployed(steps, i)
      /\ steps[i].do = "set" => SetsAccepted(steps, i) /\ KeepsGoals(steps, i)
  BY HardhatAssumption DEF ScriptsFit, FitCommands, CommandFits
<1>2. i \in Nat /\ i > 0 /\ i <= Len(steps)
  BY <1>1
<1>3. ASSUME NEW f, Reads(steps[i], f)
      PROVE  /\ steps[i].name \in Names /\ DeployedBefore(steps, i, steps[i].name)
             /\ f \in Fields /\ Has(steps[i].name, f)
  <2>1. steps[i].do \in {"read", "inspect"}
    BY <1>3 DEF Reads
  <2>2. steps[i].name \in Names /\ f \in Fields
    BY <1>1, <1>3 DEF Reads, IsStep
  <2> QED
    BY <1>1, <1>3, <2>1, <2>2 DEF ReadsDeployed
<1> QED
  BY <1>1, <1>2, <1>3

\* So does a step of the command that runs.
LEMMA StepFits ==
    ASSUME ScriptsFit, TypeOK, NEW i \in DOMAIN Program[command]
    PROVE  LET steps == Program[command] IN
           /\ i \in Nat /\ i > 0 /\ i <= Len(steps) /\ DOMAIN steps = 1 .. Len(steps)
           /\ IsStep(steps[i])
           /\ steps[i].do = "get" => GetsRecorded(steps, i)
           /\ steps[i].do \in {"read", "inspect"} => ReadsDeployed(steps, i)
           /\ steps[i].do = "set" => SetsAccepted(steps, i) /\ KeepsGoals(steps, i)
           /\ \A f : Reads(steps[i], f) =>
                 /\ steps[i].name \in Names /\ DeployedBefore(steps, i, steps[i].name)
                 /\ f \in Fields /\ Has(steps[i].name, f)
  BY ProgramFits DEF TypeOK

\* An earlier step that asked for a field asked a contract that is recorded.
LEMMA AskedIsRecorded ==
    ASSUME ScriptsFit, IInv, Reliable, phase = "running",
           NEW r \in 1 .. pc - 1, r \in DOMAIN Program[command],
           NEW f, Reads(Program[command][r], f)
    PROVE  LET n == Program[command][r].name IN
           n \in Names /\ f \in Fields /\ Has(n, f)
           /\ records[n] # Zero /\ records[n] \in DOMAIN chain /\ records[n][1] = n
           /\ HasField(records[n], f)
<1> DEFINE n == Program[command][r].name
<1>1. TypeOK /\ pc \in Nat
  BY DEF IInv, TypeOK
<1>2. n \in Names /\ f \in Fields /\ Has(n, f) /\ DeployedBefore(Program[command], r, n)
  BY <1>1, StepFits
<1>3. DeployedBefore(Program[command], pc, n)
  BY <1>1, <1>2 DEF DeployedBefore
<1>4. records[n] # Zero
  BY <1>2, <1>3 DEF Reliable
<1>5. records[n] \in DOMAIN chain /\ records[n][1] = n
  BY <1>2, <1>4 DEF IInv, Lead
<1> HIDE DEF n
<1>6. HasField(records[n], f)
  BY <1>2, <1>5 DEF Reliable, HasField
<1> QED
  BY <1>2, <1>4, <1>5, <1>6 DEF n

\* No step of a run changes a record, or takes a contract, its owner or a field away.
LEMMA RunKeeps ==
    ASSUME IInv, Reliable, RunStep
    PROVE  /\ network' = network /\ command' = command /\ account' = account
           /\ \A n \in Names : records[n] # Zero => records'[n] = records[n]
           /\ \A a \in DOMAIN chain :
                 /\ a \in DOMAIN chain' /\ chain'[a].owner = chain[a].owner
                 /\ DOMAIN chain'[a].fields = DOMAIN chain[a].fields
<1>1. TypeOK
  BY DEF IInv
<1>2. network' = network /\ command' = command /\ account' = account
  BY DEF RunStep, GetRecord, SkipDeployed, DeployContract, SaveRecord, ReadField, InspectContract,
         SetField, Finish, Fails, EndAs, Continue, Transact, runVars
<1>3. \A n \in Names : records[n] # Zero => records'[n] = records[n]
  <2>1. CASE SaveRecord
    <3>1. /\ phase = "running" /\ unsaved # Zero /\ Step.name = unsaved[1]
          /\ records' = [records EXCEPT ![Step.name] = unsaved]
      BY <2>1 DEF SaveRecord, AtStep, IInv, Lead
    <3>2. records[Step.name] = Zero
      BY <3>1 DEF Reliable
    <3> QED
      BY <1>1, <3>1, <3>2 DEF TypeOK
  <2>2. CASE ~SaveRecord
    <3>1. records' = records
      BY <2>2 DEF RunStep, GetRecord, SkipDeployed, DeployContract, ReadField, InspectContract,
             SetField, Finish, Fails, EndAs, Transact, chainVars
    <3> QED
      BY <3>1
  <2> QED
    BY <2>1, <2>2
<1>4. \A a \in DOMAIN chain : /\ a \in DOMAIN chain' /\ chain'[a].owner = chain[a].owner
                              /\ DOMAIN chain'[a].fields = DOMAIN chain[a].fields
  <2>1. CASE DeployContract
    <3>1. PICK a \in NextAddress(Step.name) :
             chain' = [b \in DOMAIN chain \cup {a} |-> IF b = a THEN NewContract(Step) ELSE chain[b]]
      BY <2>1 DEF DeployContract
    <3>2. a \notin DOMAIN chain
      <4>1. a \in Address /\ a[2] > 0 /\ \A k \in 1 .. a[2] : <<Step.name, k>> \in DOMAIN chain <=> k < a[2]
        BY DEF NextAddress
      <4>2. a[2] \in 1 .. a[2] /\ a = <<Step.name, a[2]>>
        BY <4>1, HardhatAssumption DEF Address, NextAddress
      <4>3. ~(a[2] < a[2])
        BY <4>1, HardhatAssumption DEF Address
      <4> QED
        BY <4>1, <4>2, <4>3
    <3> QED
      BY <3>1, <3>2
  <2>2. CASE SetField /\ Accepted /\ Transact
    <3>1. /\ phase = "running" /\ Step.field \in Fields /\ Step.required \in Required
          /\ HasField(Saw.at, Step.field)
          /\ chain' = WithField(Saw.at, Step.field, Value(Step.required))
      BY <1>1, <2>2, StepFields DEF SetField, AtStep, Accepted, Transact
    <3>2. \A b \in DOMAIN chain : /\ b \in DOMAIN chain' /\ chain'[b].owner = chain[b].owner
                                  /\ DOMAIN chain'[b].fields = DOMAIN chain[b].fields
      BY <3>1 DEF WithField, HasField
    <3> QED
      BY <3>2
  <2>3. CASE ~DeployContract /\ ~(SetField /\ Accepted /\ Transact)
    <3>1. chain' = chain
      BY <2>3 DEF RunStep, GetRecord, SkipDeployed, SaveRecord, ReadField, InspectContract,
             SetField, Finish, Fails, EndAs, chainVars
    <3> QED
      BY <3>1
  <2> QED
    BY <2>1, <2>2, <2>3
<1> QED
  BY <1>2, <1>3, <1>4

\* A new contract has the fields of the step that deploys it, and the owner of all others.
LEMMA DeployReliable ==
    ASSUME ScriptsFit, IInv, Reliable, DeployContract
    PROVE  Reliable'
<1>1. /\ TypeOK /\ phase = "running" /\ pc \in DOMAIN Program[command] /\ Step.do = "deploy"
      /\ Step.name \in Names /\ records[Step.name] = Zero
      /\ UNCHANGED <<network, records, phase, command, pc, account>>
  BY StepFields DEF IInv, DeployContract, AtStep, runVars
<1>2. PICK a \in NextAddress(Step.name) :
         /\ chain' = [b \in DOMAIN chain \cup {a} |-> IF b = a THEN NewContract(Step) ELSE chain[b]]
         /\ unsaved' = a
  BY DEF DeployContract
<1>3. a[1] = Step.name
  BY DEF NextAddress
<1>4. chain'[a] = NewContract(Step) /\ a \in DOMAIN chain'
  BY <1>2
<1>5. ASSUME NEW f \in Fields, Has(a[1], f)
      PROVE  f \in DOMAIN chain'[a].fields
  <2>1. f \in DOMAIN Step.fields
    BY <1>1, <1>3, <1>5 DEF Has, Step, TypeOK
  <2> QED
    BY <1>4, <2>1 DEF NewContract
<1>6. \A e \in Environments : chain'[a].owner = ServiceAccount(network, e)
  <2>1. chain'[a].owner = account /\ network \in Networks
    BY <1>1, <1>4 DEF NewContract, TypeOK
  <2>2. \E e \in Environments : account = ServiceAccount(network, e)
    BY <1>1 DEF Reliable
  <2> QED
    BY <2>1, <2>2 DEF ScriptsFit, FitCommands, CommandFits, OperatorsFit
<1>7. \A b \in DOMAIN chain' : b # a => b \in DOMAIN chain /\ chain'[b] = chain[b]
  BY <1>2
<1>8. \A b \in DOMAIN chain' :
         /\ \A f \in Fields : Has(b[1], f) => f \in DOMAIN chain'[b].fields
         /\ Preset[network][b[1]] = Zero => \A e \in Environments : chain'[b].owner = ServiceAccount(network, e)
  BY <1>5, <1>6, <1>7 DEF Reliable
<1>9. records'[unsaved'[1]] = Zero
  BY <1>1, <1>2, <1>3
<1> QED
  BY <1>1, <1>8, <1>9 DEF Reliable

\* A run goes on with what it can rely on.
LEMMA RunReliable ==
    ASSUME ScriptsFit, IInv, Reliable, RunStep
    PROVE  Reliable'
<1>1. TypeOK /\ pc \in Nat
  BY DEF IInv, TypeOK
<1>2. CASE DeployContract
  BY <1>2, DeployReliable
<1>3. CASE ~DeployContract
  <2>1. DOMAIN chain' = DOMAIN chain
    <3>1. CASE SetField /\ Accepted /\ Transact
      BY <3>1 DEF Transact, WithField
    <3>2. CASE ~(SetField /\ Accepted /\ Transact)
      BY <1>3, <3>2 DEF RunStep, GetRecord, SkipDeployed, SaveRecord, ReadField, InspectContract,
             SetField, Finish, Fails, EndAs, chainVars
    <3> QED
      BY <3>1, <3>2
  <2>2. \A a \in DOMAIN chain' :
           /\ \A f \in Fields : Has(a[1], f) => f \in DOMAIN chain'[a].fields
           /\ Preset[network][a[1]] = Zero => \A e \in Environments : chain'[a].owner = ServiceAccount(network, e)
    BY <2>1, RunKeeps DEF Reliable
  <2>3. \A n \in Names : records[n] # Zero => records'[n] # Zero
    BY RunKeeps
  <2>4. CASE phase' # "running"
    <3>1. pc' > 0
      BY <1>3, <2>4, <1>1 DEF RunStep, GetRecord, SkipDeployed, SaveRecord, ReadField, InspectContract,
             SetField, Finish, Fails, EndAs, Continue, Transact, Reliable
    <3> QED
      BY <2>2, <2>3, <2>4, <3>1, RunKeeps DEF Reliable
  <2>5. CASE phase' = "running"
    <3>1. /\ phase = "running" /\ pc' = pc + 1 /\ pc \in DOMAIN Program[command]
          /\ unsaved' = Zero
          /\ Step.do = "deploy" => Step.name \in Names /\ records'[Step.name] # Zero
      <4>1. ~Fails /\ ~Finish
        BY <2>5 DEF Fails, Finish, EndAs
      <4>2. /\ phase = "running" /\ pc' = pc + 1 /\ pc \in DOMAIN Program[command]
        BY <1>3, <4>1 DEF RunStep, GetRecord, SkipDeployed, SaveRecord, ReadField, InspectContract,
             SetField, Continue, Transact, AtStep
      <4>3. Step.do = "deploy" => Step.name \in Names
        BY <1>1, <4>2, StepFields
      <4>4. CASE Step.do # "deploy"
        <5>1. unsaved = Zero
          BY <4>2, <4>4, SavedFirst DEF IInv, AtStep
        <5>2. unsaved' = unsaved
          BY <1>3, <4>1, <4>4 DEF RunStep, GetRecord, SkipDeployed, SaveRecord, ReadField,
               InspectContract, SetField, Transact, AtStep, chainVars
        <5> QED
          BY <4>2, <4>4, <5>1, <5>2
      <4>5. CASE SkipDeployed
        BY <4>2, <4>3, <4>5 DEF SkipDeployed, chainVars
      <4>6. CASE SaveRecord
        BY <1>1, <4>2, <4>3, <4>6 DEF SaveRecord, AtStep, TypeOK
      <4>7. Step.do = "deploy" => SkipDeployed \/ SaveRecord
        BY <1>3, <4>1 DEF RunStep, GetRecord, ReadField, InspectContract, SetField, AtStep
      <4> QED
        BY <4>4, <4>5, <4>6, <4>7
    <3>2. ASSUME NEW n \in Names, DeployedBefore(Program[command], pc', n)
          PROVE  records'[n] # Zero
      <4>1. PICK j \in 1 .. pc' - 1 : Program[command][j].do = "deploy" /\ Program[command][j].name = n
        BY <3>2 DEF DeployedBefore
      <4>2. CASE j = pc
        BY <3>1, <4>1, <4>2 DEF Step
      <4>3. CASE j \in 1 .. pc - 1
        <5>1. DeployedBefore(Program[command], pc, n)
          BY <4>1, <4>3 DEF DeployedBefore
        <5> QED
          BY <2>3, <3>1, <5>1 DEF Reliable
      <4> QED
        BY <1>1, <3>1, <4>2, <4>3
    <3>3. pc' > 0
      BY <1>1, <3>1
    <3>4. \A n \in Names : DeployedBefore(Program[command'], pc', n) => records'[n] # Zero
      BY <3>2, RunKeeps
    <3> QED
      BY <2>2, <2>3, <3>1, <3>3, <3>4, RunKeeps DEF Reliable
  <2> QED
    BY <2>4, <2>5
<1> QED
  BY <1>2, <1>3

\* An earlier step that set a field sets it, in the course of the run, to the same value.
LEMMA SameValue ==
    ASSUME ScriptsFit, IInv, Reliable, RunStep, phase = "running",
           NEW j \in 1 .. pc - 1, j \in DOMAIN Program[command], Program[command][j].do = "set"
    PROVE  Value(Program[command][j].required)' = Value(Program[command][j].required)
<1> DEFINE required == Program[command][j].required
<1>1. TypeOK /\ pc \in Nat
  BY DEF IInv, TypeOK
<1>2. /\ IsStep(Program[command][j]) /\ SetsAccepted(Program[command], j)
  BY <1>1, StepFits
<1>3. required \in Required /\ required.from # "named"
  BY <1>2 DEF IsStep, SetsAccepted
<1>4. network' = network /\ command' = command /\ account' = account
  BY RunKeeps
<1>5. CASE required.from = "record"
  <2>1. DeployedBefore(Program[command], j, required.name)
    BY <1>2, <1>5 DEF SetsAccepted
  <2>2. DeployedBefore(Program[command], pc, required.name)
    BY <1>1, <2>1 DEF DeployedBefore
  <2>3. required.name \in Names
    BY <1>3, <1>5 DEF Required
  <2>4. records'[required.name] = records[required.name]
    BY <2>2, <2>3, RunKeeps DEF Reliable
  <2> QED
    BY <1>4, <1>5, <2>4 DEF Value
<1>6. CASE required.from \in {"account", "literal"}
  BY <1>4, <1>6 DEF Value
<1> QED
  BY <1>3, <1>5, <1>6 DEF Required

\* What was asked for before the next step was asked for before this one, or by this one.
LEMMA AskedNext ==
    ASSUME NEW steps, NEW i \in Nat, NEW f, NEW r, AskedAt(steps, i + 1, f, r)
    PROVE  \/ r = i /\ Reads(steps[i], f)
           \/ r \in 1 .. i - 1 /\ AskedAt(steps, i, f, r) /\ ~Touches(steps[i], f)
<1>1. CASE r = i
  BY <1>1 DEF AskedAt
<1>2. CASE r # i
  <2>1. r \in 1 .. i - 1 /\ i \in r + 1 .. (i + 1) - 1 /\ r + 1 .. i - 1 \subseteq r + 1 .. (i + 1) - 1
    BY <1>2 DEF AskedAt
  <2> QED
    BY <2>1 DEF AskedAt
<1> QED
  BY <1>1, <1>2

\* The last step to set a field before the next step is this one, or was that before.
LEMMA LastSetNext ==
    ASSUME NEW steps, NEW i \in Nat, NEW f, NEW n, NEW j, LastSet(steps, i + 1, j, n, f)
    PROVE  \/ j = i /\ SetsOf(steps, i, n, f)
           \/ j \in 1 .. i - 1 /\ LastSet(steps, i, j, n, f) /\ ~SetsOf(steps, i, n, f)
<1>1. CASE j = i
  BY <1>1 DEF LastSet
<1>2. CASE j # i
  <2>1. j \in 1 .. i - 1 /\ i \in j + 1 .. (i + 1) - 1 /\ j + 1 .. i - 1 \subseteq j + 1 .. (i + 1) - 1
    BY <1>2 DEF LastSet
  <2> QED
    BY <2>1 DEF LastSet
<1> QED
  BY <1>1, <1>2

\* Which contract a step sets a field of: the one that was asked for it.
LEMMA SetsAsked ==
    ASSUME NEW steps, NEW i, NEW n, NEW f, SetsOf(steps, i, n, f)
    PROVE  \E r \in 1 .. i - 1 : AskedAt(steps, i, f, r) /\ steps[r].name = n
  BY DEF SetsOf, AskedAt

\* A step that sets nothing, and is answered what it asks for
LEMMA StepAchieves ==
    ASSUME ScriptsFit, IInv, Reliable, Achieved, RunStep, phase = "running", ~disturbed,
           pc \in DOMAIN Program[command], Step.do # "set", pc' = pc + 1, chain' = chain,
           NEW asked, asked = Step.name,
           \A f \in Fields : Reads(Step, f) => Answered(f, records[asked])',
           \A f \in DOMAIN seen : ~Reads(Step, f) => f \in DOMAIN seen' /\ seen'[f] = seen[f]
    PROVE  Achieved'
<1> DEFINE steps == Program[command]
<1>1. TypeOK /\ pc \in Nat /\ pc > 0 /\ \A r \in 1 .. pc - 1 : r \in DOMAIN steps
  BY StepFits DEF IInv, TypeOK, Reliable
<1>2. command' = command /\ Step = steps[pc]
  BY RunKeeps DEF Step
<1>3. ASSUME NEW f \in Fields, NEW r \in 1 .. pc' - 1, AskedAt(steps, pc', f, r)
      PROVE  Answered(f, records[steps[r].name])'
  <2>1. CASE r = pc /\ Reads(steps[pc], f)
    BY <1>2, <2>1
  <2>2. CASE r \in 1 .. pc - 1 /\ AskedAt(steps, pc, f, r) /\ ~Touches(steps[pc], f)
    <3>1. Answered(f, records[steps[r].name])
      BY <2>2 DEF Achieved
    <3>2. records'[steps[r].name] = records[steps[r].name]
      <4>1. steps[r].name \in Names /\ records[steps[r].name] # Zero
        BY <1>1, <2>2, AskedIsRecorded DEF AskedAt
      <4> QED
        BY <4>1, RunKeeps
    <3>3. f \in DOMAIN seen' /\ seen'[f] = seen[f]
      BY <1>2, <2>2, <3>1 DEF Touches, Answered
    <3> QED
      BY <1>2, <3>1, <3>2, <3>3 DEF Answered, HasField
  <2> QED
    BY <1>1, <1>3, <2>1, <2>2, AskedNext
<1>4. ASSUME NEW f \in Fields, NEW n \in Names, NEW j \in 1 .. pc' - 1, LastSet(steps, pc', j, n, f)
      PROVE  Agrees(steps[j], records[n])'
  <2>1. j \in 1 .. pc - 1 /\ LastSet(steps, pc, j, n, f)
    <3>1. ~SetsOf(steps, pc, n, f)
      BY <1>2 DEF SetsOf
    <3> QED
      BY <1>1, <1>4, <3>1, LastSetNext
  <2>2. Agrees(steps[j], records[n])
    BY <2>1 DEF Achieved
  <2>3. steps[j].do = "set" /\ steps[j].field = f
    BY <2>1 DEF LastSet, SetsOf
  <2>4. records'[n] = records[n]
    <3>1. PICK r \in 1 .. j - 1 : AskedAt(steps, j, f, r) /\ steps[r].name = n
      BY <2>1, SetsAsked DEF LastSet
    <3>2. r \in 1 .. pc - 1 /\ Reads(steps[r], f)
      BY <1>1, <2>1, <3>1 DEF AskedAt
    <3>3. records[n] # Zero
      BY <1>1, <3>1, <3>2, AskedIsRecorded
    <3> QED
      BY <3>3, RunKeeps
  <2>5. Value(steps[j].required)' = Value(steps[j].required)
    BY <1>1, <2>1, <2>3, SameValue
  <2> QED
    BY <1>2, <2>2, <2>4, <2>5 DEF Agrees, HasField
<1> QED
  BY <1>2, <1>3, <1>4 DEF Achieved

\* A value that a step takes from a record is there.
LEMMA RecordedValue ==
    ASSUME ScriptsFit, IInv, Reliable, phase = "running",
           NEW i \in 1 .. pc, i \in DOMAIN Program[command], Program[command][i].do = "set",
           Program[command][i].required.from = "record"
    PROVE  Value(Program[command][i].required) # Zero
<1> DEFINE required == Program[command][i].required
<1>1. TypeOK /\ pc \in Nat
  BY DEF IInv, TypeOK
<1>2. IsStep(Program[command][i]) /\ SetsAccepted(Program[command], i)
  BY <1>1, StepFits
<1>3. required \in Required
  BY <1>2 DEF IsStep
<1>4. required.name \in Names
  BY <1>3 DEF Required
<1>5. DeployedBefore(Program[command], i, required.name)
  BY <1>2 DEF SetsAccepted
<1>6. DeployedBefore(Program[command], pc, required.name)
  BY <1>1, <1>5 DEF DeployedBefore
<1> QED
  BY <1>4, <1>6 DEF Reliable, Value

\* A step that sets a field goes to a contract that the script asked for it, which accepts
\* the value.
LEMMA SetSucceeds ==
    ASSUME ScriptsFit, RepositorySetters, IInv, Reliable, Achieved, AtStep("set"), ~disturbed
    PROVE  /\ Comparable /\ Accepted /\ Answered(Step.field, Saw.at)
           /\ \A n : SetsOf(Program[command], pc, n, Step.field) => n \in Names /\ Saw.at = records[n]
           /\ Step.field \in Fields /\ Step.required \in Required
           /\ Step.when = "0" => Step.required.from = "literal" /\ Step.required.value # Zero
<1> DEFINE steps == Program[command]
           f == Step.field
<1>1. /\ TypeOK /\ pc \in Nat /\ pc > 0 /\ phase = "running" /\ Step = steps[pc]
      /\ pc \in DOMAIN steps /\ Step.do = "set"
      /\ \A r \in 1 .. pc - 1 : r \in DOMAIN steps
  BY StepFits DEF IInv, TypeOK, Reliable, AtStep, Step
<1>2. /\ f \in Fields /\ Step.required \in Required
      /\ Step.when = "0" => Step.required.from = "literal" /\ Step.required.value # Zero
  BY <1>1, StepFields
<1>3. SetsAccepted(steps, pc)
  BY <1>1, StepFits
<1>4. ASSUME NEW n, SetsOf(steps, pc, n, f)
      PROVE  /\ n \in Names /\ records[n] \in DOMAIN chain /\ records[n][1] = n
             /\ Has(n, f) /\ Answered(f, records[n])
  <2>1. PICK r \in 1 .. pc - 1 : AskedAt(steps, pc, f, r) /\ steps[r].name = n
    BY <1>4, SetsAsked
  <2>2. Reads(steps[r], f)
    BY <2>1 DEF AskedAt
  <2>3. n \in Names /\ records[n] \in DOMAIN chain /\ records[n][1] = n /\ Has(n, f)
    BY <1>1, <2>1, <2>2, AskedIsRecorded
  <2>4. Answered(f, records[n])
    BY <1>1, <1>2, <2>1 DEF Achieved
  <2> QED
    BY <2>3, <2>4
<1>5. PICK name \in Names :
         /\ SetsOf(steps, pc, name, f)
         /\ f = "protocolFeePercent" =>
               \E j \in 1 .. pc - 1 : LastSet(steps, pc, j, name, "protocolFeeDestination")
  BY <1>1, <1>3 DEF SetsAccepted
<1>6. Answered(f, records[name]) /\ Saw.at = records[name]
  BY <1>4, <1>5 DEF Answered, Saw
<1>7. Comparable
  <2>1. Saw.value = chain[Saw.at].fields[f] /\ f \in DOMAIN chain[Saw.at].fields /\ Saw.at \in DOMAIN chain
    BY <1>6 DEF Answered, Saw, HasField
  <2>2. Saw.value \in Values
    BY <1>1, <2>1 DEF TypeOK, OnFields
  <2> QED
    BY <1>6, <2>2, HardhatAssumption DEF Comparable, Answered
<1>8. Accepted
  <2>1. HasField(Saw.at, f)
    BY <1>6 DEF Answered
  <2>2. chain[Saw.at].owner = account
    <3>1. Saw.at \in DOMAIN chain /\ Saw.at[1] = name /\ Has(name, f)
      BY <1>4, <1>5, <1>6
    <3>2. Preset[network][name] = Zero
      BY <1>1, <3>1 DEF Has, TypeOK
    <3>3. \A e \in Environments : chain[Saw.at].owner = ServiceAccount(network, e)
      BY <3>1, <3>2 DEF Reliable
    <3>4. \E e \in Environments : account = ServiceAccount(network, e)
      BY <1>1 DEF Reliable
    <3> QED
      BY <3>3, <3>4
  <2>3. f = "protocolFeeDestination" => Value(Step.required) # Zero
    <3>1. f = "protocolFeeDestination" => Step.required.from = "record"
      BY <1>1, <1>3 DEF SetsAccepted
    <3> QED
      BY <1>1, <3>1, RecordedValue
  <2>4. f = "protocolFeePercent" => chain[Saw.at].fields["protocolFeeDestination"] # Zero
    <3> SUFFICES ASSUME f = "protocolFeePercent"
                 PROVE  chain[Saw.at].fields["protocolFeeDestination"] # Zero
      OBVIOUS
    <3>1. PICK j \in 1 .. pc - 1 : LastSet(steps, pc, j, name, "protocolFeeDestination")
      BY <1>5
    <3>2. steps[j].do = "set" /\ steps[j].field = "protocolFeeDestination" /\ j \in DOMAIN steps
      BY <1>1, <3>1 DEF LastSet, SetsOf
    <3>3. steps[j].required.from = "record" /\ steps[j].field \in Fields
      <4>1. SetsAccepted(steps, j) /\ IsStep(steps[j])
        BY <1>1, <3>2, StepFits
      <4> QED
        BY <3>2, <4>1 DEF SetsAccepted, IsStep
    <3>4. Agrees(steps[j], records[name])
      BY <1>1, <3>1, <3>2, <3>3 DEF Achieved
    <3>5. Value(steps[j].required) # Zero
      BY <1>1, <3>2, <3>3, RecordedValue
    <3> QED
      BY <1>6, <3>2, <3>4, <3>5 DEF Agrees
  <2> QED
    BY <2>1, <2>2, <2>3, <2>4 DEF Accepted, RepositorySetters, acceptsValue
<1> QED
  BY <1>2, <1>4, <1>6, <1>7, <1>8 DEF Answered, Saw

\* After a step that sets a field, the contract has the value, whether it was set or was
\* so already, and all other fields of all contracts are as they were.
LEMMA SetEffect ==
    ASSUME ScriptsFit, RepositorySetters, IInv, Reliable, Achieved, SetField, ~disturbed
    PROVE  /\ phase' = "running" /\ pc' = pc + 1 /\ Used(Step.field)
           /\ UNCHANGED <<network, records, account, command>>
           /\ \A b \in DOMAIN chain : \A g \in DOMAIN chain[b].fields :
                 /\ b \in DOMAIN chain' /\ g \in DOMAIN chain'[b].fields
                 /\ b # Saw.at \/ g # Step.field => chain'[b].fields[g] = chain[b].fields[g]
           /\ IF Step.when = "0" THEN chain'[Saw.at].fields[Step.field] # Zero
              ELSE chain'[Saw.at].fields[Step.field] = Value(Step.required)
<1> DEFINE a == Saw.at
           f == Step.field
           v == Value(Step.required)
<1>1. AtStep("set") /\ phase = "running" /\ TypeOK
  BY DEF SetField, AtStep, IInv
<1>2. /\ Comparable /\ Accepted /\ f \in DOMAIN seen
      /\ a \in DOMAIN chain /\ f \in DOMAIN chain[a].fields /\ Saw.value = chain[a].fields[f]
      /\ f \in Fields /\ Step.required \in Required
      /\ Step.when = "0" => Step.required.from = "literal" /\ Step.required.value # Zero
  BY <1>1, SetSucceeds DEF Answered, HasField, Saw
<1>3. v \in Values /\ a \in Address
  BY <1>1, <1>2, ValueType DEF TypeOK
<1>4. CASE Needed /\ Transact
  <2>1. /\ chain' = WithField(a, f, v) /\ Used(f) /\ pc' = pc + 1 /\ phase' = phase
        /\ UNCHANGED <<network, records, account, command>>
    BY <1>4 DEF Transact, Continue
  <2> HIDE DEF a, f, v
  <2>2. /\ DOMAIN chain' = DOMAIN chain
        /\ \A b \in DOMAIN chain : DOMAIN chain'[b].fields = DOMAIN chain[b].fields
        /\ \A b \in DOMAIN chain : \A g \in DOMAIN chain[b].fields :
              chain'[b].fields[g] = IF b = a /\ g = f THEN v ELSE chain[b].fields[g]
    BY <1>1, <1>2, <1>3, <2>1, WithFieldType DEF a, f, v, HasField
  <2>3. chain'[a].fields[f] = v
    BY <1>2, <2>2 DEF a, f
  <2>4. Step.when = "0" => v # Zero
    BY <1>2 DEF v, Value
  <2> QED
    BY <1>1, <2>1, <2>2, <2>3, <2>4 DEF a, f, v
<1>5. CASE ~Needed
  <2>1. /\ chain' = chain /\ Used(f) /\ pc' = pc + 1 /\ phase' = phase
        /\ UNCHANGED <<network, records, account, command>>
    BY <1>2, <1>5 DEF SetField, Continue, chainVars
  <2> QED
    BY <1>1, <1>2, <1>5, <2>1 DEF Needed
<1> QED
  BY <1>2, <1>4, <1>5 DEF SetField

\* A step that sets a field
LEMMA SetAchieves ==
    ASSUME ScriptsFit, RepositorySetters, IInv, Reliable, Achieved, SetField, ~disturbed
    PROVE  Achieved'
<1> DEFINE steps == Program[command]
           a == Saw.at
           field == Step.field
<1>1. /\ TypeOK /\ pc \in Nat /\ pc > 0 /\ phase = "running" /\ AtStep("set")
      /\ pc \in DOMAIN steps /\ Step = steps[pc] /\ Step.do = "set"
      /\ \A r \in 1 .. pc - 1 : r \in DOMAIN steps
  BY StepFits DEF IInv, TypeOK, Reliable, SetField, AtStep, Step
<1>2. /\ pc' = pc + 1 /\ Used(field) /\ UNCHANGED <<network, records, account, command>>
      /\ \A b \in DOMAIN chain : \A g \in DOMAIN chain[b].fields :
            /\ b \in DOMAIN chain' /\ g \in DOMAIN chain'[b].fields
            /\ b # a \/ g # field => chain'[b].fields[g] = chain[b].fields[g]
      /\ IF Step.when = "0" THEN chain'[a].fields[field] # Zero
         ELSE chain'[a].fields[field] = Value(Step.required)
  BY SetEffect
<1>3. /\ a \in DOMAIN chain /\ field \in DOMAIN chain[a].fields
      /\ \A n : SetsOf(steps, pc, n, field) => n \in Names /\ a = records[n]
  BY <1>1, SetSucceeds DEF Answered, HasField
<1> HIDE DEF a, field
<1>4. ASSUME NEW g \in Fields, NEW r \in 1 .. pc' - 1, AskedAt(steps, pc', g, r)
      PROVE  Answered(g, records[steps[r].name])'
  <2>1. ~Reads(steps[pc], g)
    BY <1>1 DEF Reads
  <2>2. r \in 1 .. pc - 1 /\ AskedAt(steps, pc, g, r) /\ ~Touches(steps[pc], g)
    BY <1>1, <1>2, <1>4, <2>1, AskedNext
  <2>3. g # field
    BY <1>1, <2>2 DEF Touches, field
  <2>4. Answered(g, records[steps[r].name])
    BY <1>1, <2>2 DEF Achieved
  <2>5. g \in DOMAIN seen' /\ seen'[g] = seen[g]
    BY <1>2, <2>3, <2>4 DEF Used, Answered
  <2> QED
    BY <1>2, <2>3, <2>4, <2>5 DEF Answered, HasField
<1>5. ASSUME NEW g \in Fields, NEW n \in Names, NEW j \in 1 .. pc' - 1, LastSet(steps, pc', j, n, g)
      PROVE  Agrees(steps[j], records[n])'
  <2>1. CASE j = pc /\ SetsOf(steps, pc, n, g)
    <3>1. g = field /\ a = records[n]
      BY <1>1, <1>3, <2>1 DEF SetsOf, field
    <3>2. Value(steps[j].required)' = Value(steps[j].required)
      BY <1>2 DEF Value
    <3>3. steps[j] = Step
      BY <1>1, <2>1
    <3> QED
      BY <1>1, <1>2, <1>3, <3>1, <3>2, <3>3 DEF Agrees, HasField, field
  <2>2. CASE j \in 1 .. pc - 1 /\ LastSet(steps, pc, j, n, g) /\ ~SetsOf(steps, pc, n, g)
    <3>1. Agrees(steps[j], records[n])
      BY <1>1, <2>2 DEF Achieved
    <3>2. steps[j].do = "set" /\ steps[j].field = g
      BY <2>2 DEF LastSet, SetsOf
    <3>3. Value(steps[j].required)' = Value(steps[j].required)
      BY <1>2 DEF Value
    <3>4. records[n] # a \/ g # field
      <4> SUFFICES ASSUME g = field, records[n] = a PROVE FALSE
        OBVIOUS
      <4>1. PICK name : SetsOf(steps, pc, name, field)
        <5>1. SetsAccepted(steps, pc)
          BY <1>1, StepFits
        <5> QED
          BY <1>1, <5>1 DEF SetsAccepted, field
      <4>2. name \in Names /\ records[name] = a /\ name # n
        BY <1>3, <2>2, <4>1
      <4>3. a # Zero
        BY <1>1, <1>3, AddressesAreValues DEF TypeOK
      <4> QED
        BY <4>2, <4>3 DEF IInv, Lead
    <3> QED
      BY <1>2, <3>1, <3>2, <3>3, <3>4 DEF Agrees, HasField
  <2> QED
    BY <1>1, <1>2, <1>5, <2>1, <2>2, LastSetNext
<1> QED
  BY <1>2, <1>4, <1>5 DEF Achieved

\* A step that asks a contract is answered.
LEMMA ReadSucceeds ==
    ASSUME ScriptsFit, IInv, Reliable, phase = "running", pc \in DOMAIN Program[command],
           NEW f, Reads(Step, f)
    PROVE  LET n == Step.name IN
           n \in Names /\ f \in Fields /\ records[n] # Zero /\ HasField(records[n], f)
<1> DEFINE n == Step.name
<1>1. TypeOK /\ Step = Program[command][pc]
  BY DEF IInv, Step
<1>2. n \in Names /\ f \in Fields /\ Has(n, f) /\ DeployedBefore(Program[command], pc, n)
  BY <1>1, StepFits
<1>3. records[n] # Zero
  BY <1>2 DEF Reliable
<1>4. records[n] \in DOMAIN chain /\ records[n][1] = n
  BY <1>2, <1>3 DEF IInv, Lead
<1> HIDE DEF n
<1>5. HasField(records[n], f)
  BY <1>2, <1>4 DEF Reliable, HasField
<1> QED
  BY <1>2, <1>3, <1>5 DEF n

\* A read of one field
LEMMA ReadAchieves ==
    ASSUME ScriptsFit, IInv, Reliable, Achieved, ReadField, ~disturbed
    PROVE  ~Fails /\ Achieved'
<1>0. PICK asked : asked = Step.name
  OBVIOUS
<1> DEFINE a == records[asked]
<1>1. /\ phase = "running" /\ pc \in DOMAIN Program[command] /\ Step.do = "read"
      /\ RunStep /\ Reads(Step, Step.field)
  BY DEF ReadField, AtStep, RunStep, Reads
<1>2. HasField(a, Step.field) /\ asked \in Names /\ a # Zero
  BY <1>0, <1>1, ReadSucceeds
<1>3. /\ seen' = [f \in DOMAIN seen \cup {Step.field} |->
            IF f = Step.field THEN [at |-> a, value |-> chain[a].fields[f]] ELSE seen[f]]
      /\ pc' = pc + 1 /\ phase' = "running" /\ chain' = chain /\ records' = records
  BY <1>0, <1>1, <1>2 DEF ReadField, Continue, chainVars
<1>4. ASSUME NEW f \in Fields, Reads(Step, f)
      PROVE  Answered(f, records[asked])'
  <2>1. f = Step.field
    BY <1>1, <1>4 DEF Reads
  <2>2. f \in DOMAIN seen' /\ seen'[f] = [at |-> a, value |-> chain[a].fields[f]]
    BY <1>3, <2>1
  <2>3. records'[asked] = a
    BY <1>3
  <2> QED
    BY <1>2, <1>3, <2>1, <2>2 DEF Answered, HasField
<1>5. \A f \in DOMAIN seen : ~Reads(Step, f) => f \in DOMAIN seen' /\ seen'[f] = seen[f]
  BY <1>1, <1>3
<1>6. ~Fails
  BY <1>3 DEF Fails, EndAs
<1> QED
  BY <1>0, <1>1, <1>3, <1>4, <1>5, <1>6, StepAchieves

\* A read of several fields, unless it is disturbed
LEMMA InspectAchieves ==
    ASSUME ScriptsFit, IInv, Reliable, Achieved, InspectContract, ~disturbed, ~disturbed'
    PROVE  Achieved'
<1>0. PICK asked : asked = Step.name
  OBVIOUS
<1> DEFINE a == records[asked]
           fields == {Step.fields[i] : i \in DOMAIN Step.fields}
<1>1. /\ phase = "running" /\ pc \in DOMAIN Program[command] /\ Step.do = "inspect"
      /\ RunStep /\ \A f : Reads(Step, f) <=> f \in fields
  BY DEF InspectContract, AtStep, RunStep, Reads
<1>2. Step.fields \in Seq(Fields) /\ asked \in Names
  BY <1>0, <1>1, StepFields DEF IInv
<1>3. PICK answers \in 0 .. Len(Step.fields) :
         /\ seen' = [f \in DOMAIN seen \cup fields |->
               IF f \notin fields THEN seen[f]
               ELSE [at |-> a, value |-> IF f \in {Step.fields[i] : i \in 1 .. answers} /\ HasField(a, f)
                                         THEN chain[a].fields[f] ELSE Undefined]]
         /\ answers < Len(Step.fields) => Disturb
  BY <1>0 DEF InspectContract
<1>4. answers = Len(Step.fields)
  BY <1>2, <1>3 DEF Disturb
<1>5. fields = {Step.fields[i] : i \in 1 .. answers}
  BY <1>2, <1>4
<1>6. pc' = pc + 1 /\ phase' = "running" /\ chain' = chain /\ records' = records
  BY <1>1 DEF InspectContract, Continue, chainVars
<1>7. ASSUME NEW f \in Fields, Reads(Step, f)
      PROVE  Answered(f, records[asked])'
  <2>1. f \in fields /\ HasField(a, f)
    BY <1>0, <1>1, <1>7, ReadSucceeds
  <2>2. f \in DOMAIN seen' /\ seen'[f] = [at |-> a, value |-> chain[a].fields[f]]
    BY <1>3, <1>5, <2>1
  <2> QED
    BY <1>6, <2>1, <2>2 DEF Answered, HasField
<1>8. \A f \in DOMAIN seen : ~Reads(Step, f) => f \in DOMAIN seen' /\ seen'[f] = seen[f]
  BY <1>1, <1>3
<1> QED
  BY <1>0, <1>1, <1>6, <1>7, <1>8, StepAchieves

\* What is looked up is there.
LEMMA GetSucceeds ==
    ASSUME ScriptsFit, IInv, Reliable, GetRecord
    PROVE  Found(Step)
<1>1. /\ TypeOK /\ phase = "running" /\ pc \in DOMAIN Program[command] /\ Step.do = "get"
      /\ Step = Program[command][pc] /\ Step.name \in Names
  BY StepFields DEF IInv, GetRecord, AtStep, Step
<1>2. GetsRecorded(Program[command], pc)
  BY <1>1, StepFits
<1>3. network \in Networks
  BY <1>1 DEF TypeOK
<1>4. CASE DeployedBefore(Program[command], pc, Step.name)
  BY <1>1, <1>4 DEF Reliable, Found
<1>5. CASE Preset[network][Step.name] # Zero
  BY <1>1, <1>5 DEF Reliable, Found
<1>6. CASE Step.label # None /\ NamedAccounts[network][Step.label] # Zero
  BY <1>6 DEF Found
<1> QED
  BY <1>1, <1>2, <1>3, <1>4, <1>5, <1>6 DEF GetsRecorded

\* A lookup, or a deployment that is done
LEMMA OtherAchieves ==
    ASSUME ScriptsFit, IInv, Reliable, Achieved, ~disturbed,
           GetRecord \/ SkipDeployed \/ SaveRecord
    PROVE  ~Fails /\ Achieved'
<1>1. /\ phase = "running" /\ pc \in DOMAIN Program[command] /\ Step.do \in {"get", "deploy"}
      /\ RunStep /\ \A f : ~Reads(Step, f)
  BY DEF GetRecord, SkipDeployed, SaveRecord, AtStep, RunStep, Reads
<1>2. pc' = pc + 1 /\ phase' = "running" /\ chain' = chain /\ seen' = seen
  BY <1>1, GetSucceeds DEF GetRecord, SkipDeployed, SaveRecord, Continue, chainVars
<1>3. ~Fails
  BY <1>2 DEF Fails, EndAs
<1>4. \E asked : asked = Step.name
  OBVIOUS
<1> QED
  BY <1>1, <1>2, <1>3, <1>4, StepAchieves

\* A deployment that waits to be recorded
LEMMA DeployAchieves ==
    ASSUME ScriptsFit, IInv, Reliable, Achieved, ~disturbed, DeployContract
    PROVE  Achieved'
<1> DEFINE steps == Program[command]
<1>1. /\ TypeOK /\ pc \in Nat /\ phase = "running" /\ pc \in DOMAIN steps
      /\ RunStep /\ \A r \in 1 .. pc - 1 : r \in DOMAIN steps
      /\ UNCHANGED <<network, records, phase, command, pc, account, seen, disturbed>>
  BY StepFits DEF IInv, TypeOK, DeployContract, AtStep, RunStep, runVars
<1>2. \A b \in DOMAIN chain : b \in DOMAIN chain' /\ chain'[b] = chain[b]
  <2>1. PICK a \in NextAddress(Step.name) :
           chain' = [b \in DOMAIN chain \cup {a} |-> IF b = a THEN NewContract(Step) ELSE chain[b]]
    BY DEF DeployContract
  <2>2. a \notin DOMAIN chain
    <3>1. a \in Address /\ a[2] > 0 /\ \A k \in 1 .. a[2] : <<Step.name, k>> \in DOMAIN chain <=> k < a[2]
      BY DEF NextAddress
    <3>2. a[2] \in 1 .. a[2] /\ a = <<Step.name, a[2]>>
      BY <3>1, HardhatAssumption DEF Address, NextAddress
    <3>3. ~(a[2] < a[2])
      BY <3>1, HardhatAssumption DEF Address
    <3> QED
      BY <3>1, <3>2, <3>3
  <2> QED
    BY <2>1, <2>2
<1>3. ASSUME NEW f \in Fields, NEW r \in 1 .. pc - 1, AskedAt(steps, pc, f, r)
      PROVE  Answered(f, records[steps[r].name])'
  <2>1. Answered(f, records[steps[r].name])
    BY <1>1, <1>3 DEF Achieved
  <2> QED
    BY <1>1, <1>2, <2>1 DEF Answered, HasField
<1>4. ASSUME NEW f \in Fields, NEW n \in Names, NEW j \in 1 .. pc - 1, LastSet(steps, pc, j, n, f)
      PROVE  Agrees(steps[j], records[n])'
  <2>1. Agrees(steps[j], records[n])
    BY <1>1, <1>4 DEF Achieved
  <2>2. Value(steps[j].required)' = Value(steps[j].required)
    BY <1>1 DEF Value
  <2> QED
    BY <1>1, <1>2, <2>1, <2>2 DEF Agrees, HasField
<1> QED
  BY <1>1, <1>3, <1>4 DEF Achieved

\* A run that comes to its end has done what its command is for.
LEMMA FinishConfigures ==
    ASSUME ScriptsFit, IInv, WiringInv, Reliable, Achieved, ~disturbed, Finish
    PROVE  Configured(command)'
<1> DEFINE steps == Program[command]
<1>1. /\ TypeOK /\ pc \in Nat /\ pc > 0 /\ phase = "running" /\ pc \notin DOMAIN steps
      /\ command \in Commands
      /\ UNCHANGED <<network, command, account, records, chain>>
  BY DEF IInv, TypeOK, Reliable, Finish, EndAs, chainVars
<1>2. DOMAIN steps = 1 .. Len(steps) /\ Len(steps) \in Nat
  BY <1>1 DEF ScriptsFit, FitCommands, CommandFits, OperatorsFit
<1>3. pc = Len(steps) + 1
  <2>1. \A j \in 1 .. pc - 1 : j \in 1 .. Len(steps)
    BY <1>1, <1>2 DEF WiringInv, Gotten
  <2>2. pc > Len(steps)
    BY <1>1, <1>2
  <2>3. ~(Len(steps) + 1 \in 1 .. pc - 1)
    BY <1>2, <2>1
  <2> QED
    BY <1>1, <1>2, <2>2, <2>3
<1>4. ASSUME NEW n \in Goal(command).names
      PROVE  records[n] \in DOMAIN chain
  <2>1. DeployedBefore(steps, pc, n)
    BY <1>1, <1>3 DEF ScriptsFit, FitCommands, CommandFits, OperatorsFit
  <2>2. PICK j \in 1 .. pc - 1 : steps[j].do = "deploy" /\ steps[j].name = n
    BY <2>1 DEF DeployedBefore
  <2>3. n \in Names
    <3>1. IsStep(steps[j])
      BY <1>1, <1>2, <1>3, HardhatAssumption
    <3> QED
      BY <2>2, <3>1 DEF IsStep
  <2> QED
    BY <1>1, <2>1, <2>3 DEF Reliable, IInv, Lead
<1>5. ASSUME NEW s \in Goal(command).settings
      PROVE  IF s.required = nonzero THEN Held(s) # Zero ELSE Held(s) = Value(s.required)
  <2>1. Reaches(steps, s)
    BY <1>1 DEF ScriptsFit, FitCommands, CommandFits, OperatorsFit
  <2>2. PICK j \in DOMAIN steps :
           /\ LastSet(steps, Len(steps) + 1, j, s.name, s.field)
           /\ IF s.required = nonzero THEN steps[j].when = "0"
              ELSE steps[j].when # "0" /\ steps[j].required = s.required
    BY <2>1 DEF Reaches
  <2>3. j \in 1 .. pc - 1 /\ LastSet(steps, pc, j, s.name, s.field) /\ steps[j].field = s.field
    BY <1>2, <1>3, <2>2 DEF LastSet, SetsOf
  <2>4. PICK r \in 1 .. j - 1 : AskedAt(steps, j, s.field, r) /\ steps[r].name = s.name
    BY <2>3, SetsAsked DEF LastSet
  <2>5. s.name \in Names /\ s.field \in Fields
    <3>1. r \in DOMAIN steps /\ Reads(steps[r], s.field)
      BY <1>1, <1>2, <2>3, <2>4 DEF AskedAt
    <3> QED
      BY <1>1, <2>4, <3>1, StepFits
  <2>6. Agrees(steps[j], records[s.name])
    BY <1>1, <2>3, <2>5 DEF Achieved
  <2> QED
    BY <2>2, <2>3, <2>6 DEF Agrees, Held
<1>6. ASSUME NEW s
      PROVE  Held(s)' = Held(s) /\ Value(s.required)' = Value(s.required)
  BY <1>1 DEF Held, Value
<1> QED
  BY <1>1, <1>4, <1>5, <1>6 DEF Configured

\* A step that is not disturbed ends no run before it is done.
LEMMA RunGoesOn ==
    ASSUME ScriptsFit, RepositorySetters, IInv, WiringInv, RunInv, RunStep
    PROVE  RunInv'
<1>1. Reliable' /\ Reliable /\ Achieved
  BY RunReliable DEF RunInv
<1>2. CASE disturbed'
  BY <1>1, <1>2 DEF RunInv, Achieved, RunConfigures
<1>3. CASE ~disturbed'
  <2>1. ~disturbed
    BY <1>3 DEF RunStep, GetRecord, SkipDeployed, DeployContract, SaveRecord, ReadField, InspectContract,
         SetField, Finish, Fails, Transact, Disturb
  <2>2. CASE Finish
    <3>1. phase' = "done" /\ command' = command
      BY <2>2 DEF Finish, EndAs
    <3>2. Configured(command)'
      BY <1>1, <2>1, <2>2, FinishConfigures
    <3> QED
      BY <1>1, <3>1, <3>2 DEF RunInv, Achieved, RunConfigures
  <2>3. CASE ~Finish
    <3>1. Achieved' /\ phase' = "running"
      <4>1. CASE GetRecord \/ SkipDeployed \/ SaveRecord
        BY <1>1, <2>1, <4>1, OtherAchieves DEF GetRecord, SkipDeployed, SaveRecord, Continue, AtStep
      <4>2. CASE DeployContract
        BY <1>1, <2>1, <4>2, DeployAchieves DEF DeployContract, AtStep, runVars
      <4>3. CASE ReadField
        BY <1>1, <2>1, <4>3, ReadAchieves DEF ReadField, Continue, AtStep
      <4>4. CASE InspectContract
        BY <1>1, <1>3, <2>1, <4>4, InspectAchieves DEF InspectContract, Continue, AtStep
      <4>5. CASE SetField
        BY <1>1, <2>1, <4>5, SetEffect, SetAchieves
      <4> QED
        BY <2>3, <4>1, <4>2, <4>3, <4>4, <4>5 DEF RunStep
    <3> QED
      BY <1>1, <3>1 DEF RunInv, RunConfigures
  <2> QED
    BY <2>2, <2>3
<1> QED
  BY <1>2, <1>3

\* A run starts with what earlier runs and administrators left.
LEMMA StartReliable ==
    ASSUME IInv, Reliable, NEW c \in Commands, Start(c)
    PROVE  Reliable'
<1>1. /\ TypeOK /\ phase' = "running" /\ pc' = 1 /\ seen' = NothingSeen /\ unsaved' = Zero
      /\ command' = c /\ UNCHANGED <<network, chain>>
      /\ \E e \in Environments : account' = ServiceAccount(network, e)
      /\ \/ records' = records
         \/ unsaved # Zero /\ records' = [records EXCEPT ![unsaved[1]] = unsaved]
  BY DEF Start, IInv
<1>2. \A n \in Names : records[n] # Zero => records'[n] # Zero
  BY <1>1 DEF TypeOK
<1>3. \A n : ~DeployedBefore(Program[c], 1, n)
  BY DEF DeployedBefore
<1> QED
  BY <1>1, <1>2, <1>3 DEF Reliable

\* It has not asked for anything yet.
LEMMA StartAchieves ==
    ASSUME IInv, RunInv, NEW c \in Commands, Start(c)
    PROVE  RunInv'
<1>1. phase' = "running" /\ pc' = 1
  BY DEF Start
<1>2. Achieved'
  <2>1. 1 .. pc' - 1 = {}
    BY <1>1
  <2> QED
    BY <2>1 DEF Achieved
<1> QED
  BY <1>1, <1>2, StartReliable DEF RunInv, RunConfigures

\* Whatever interferes with a run leaves what the next one can rely on.
LEMMA DisturbanceReliable ==
    ASSUME ScriptsFit, IInv, Reliable,
           \/ Abort
           \/ \E change \in AdminChanges : ChangeSetting(change[1], change[2], change[3])
           \/ \E names \in Discards : DeleteRecords(names)
    PROVE  Reliable' /\ disturbed'
<1>1. TypeOK /\ network \in Networks
  BY DEF IInv, TypeOK
<1>2. disturbed'
  BY DEF Abort, ChangeSetting, DeleteRecords, Disturb
<1>3. ASSUME Abort
      PROVE  Reliable'
  BY <1>1, <1>3 DEF Abort, EndAs, Reliable, chainVars
<1>4. ASSUME NEW change \in AdminChanges, ChangeSetting(change[1], change[2], change[3])
      PROVE  Reliable'
  <2>1. /\ change[2] \in Fields /\ change[3] \in Values
        /\ HasField(records[change[1]], change[2])
        /\ chain' = WithField(records[change[1]], change[2], change[3])
        /\ UNCHANGED <<network, records, unsaved, phase, command, pc, account>>
    BY <1>4, HardhatAssumption DEF ChangeSetting, runVars
  <2>2. DOMAIN chain' = DOMAIN chain
    BY <2>1 DEF WithField
  <2>3. \A b \in DOMAIN chain :
           chain'[b].owner = chain[b].owner /\ DOMAIN chain'[b].fields = DOMAIN chain[b].fields
    BY <2>1 DEF WithField, HasField
  <2> QED
    BY <1>1, <2>1, <2>2, <2>3 DEF Reliable
<1>5. ASSUME NEW names \in Discards, DeleteRecords(names)
      PROVE  Reliable'
  <2>1. /\ phase # "running" /\ UNCHANGED <<network, chain, phase, command, pc, account>>
        /\ records' = [n \in Names |-> IF n \in names THEN Zero ELSE records[n]]
    BY <1>5 DEF DeleteRecords, runVars
  <2>2. \A n \in Names : Preset[network][n] # Zero => records'[n] # Zero
    BY <1>1, <2>1 DEF ScriptsFit, FitCommands, CommandFits, OperatorsFit, Reliable
  <2> QED
    BY <1>1, <2>1, <2>2 DEF Reliable
<1>6. Reliable'
  BY <1>3, <1>4, <1>5
<1> QED
  BY <1>2, <1>6

\* At first there is nothing but what other repositories deployed.
LEMMA InitReliable == ASSUME Init PROVE RunInv
<1>1. /\ network \in Networks /\ records = Preset[network] /\ phase = "idle" /\ pc = 1
      /\ \A a \in DOMAIN chain : \E n \in Names : a = Preset[network][n] /\ a # Zero
  BY DEF Init
<1>2. ASSUME NEW a \in DOMAIN chain
      PROVE  Preset[network][a[1]] # Zero /\ \A f : ~Has(a[1], f)
  <2>1. PICK n \in Names : a = Preset[network][n] /\ a # Zero
    BY <1>1
  <2>2. a[1] = n
    BY <1>1, <2>1, HardhatAssumption
  <2> QED
    BY <1>1, <2>1, <2>2 DEF Has
<1>3. Reliable
  BY <1>1, <1>2 DEF Reliable
<1> QED
  BY <1>1, <1>3 DEF RunInv, Achieved, RunConfigures

\* Every step keeps it.
LEMMA NextReliable ==
    ASSUME ScriptsFit, RepositorySetters
    PROVE  IInv /\ WiringInv /\ RunInv /\ [Next]_vars => RunInv'
<1> SUFFICES ASSUME IInv, WiringInv, RunInv, [Next]_vars PROVE RunInv'
  OBVIOUS
<1>1. CASE RunStep
  BY <1>1, RunGoesOn
<1>2. CASE \E c \in Commands : Start(c)
  BY <1>2, StartAchieves
<1>3. CASE UNCHANGED vars
  <2>1. UNCHANGED <<network, chain, records, unsaved, phase, command, pc, account, seen, disturbed>>
    BY <1>3 DEF vars, chainVars, runVars
  <2>2. Reliable'
    BY <2>1 DEF RunInv, Reliable
  <2>3. Achieved'
    <3> DEFINE steps == Program[command]
    <3>2. ASSUME NEW f \in Fields, NEW r \in 1 .. pc - 1, Answered(f, records[steps[r].name])
          PROVE  Answered(f, records[steps[r].name])'
      BY <2>1, <3>2 DEF Answered, HasField
    <3>3. ASSUME NEW n \in Names, NEW j \in 1 .. pc - 1, Agrees(steps[j], records[n])
          PROVE  Agrees(steps[j], records[n])'
      <4>1. Value(steps[j].required)' = Value(steps[j].required)
        BY <2>1 DEF Value
      <4> QED
        BY <2>1, <3>3, <4>1 DEF Agrees, HasField
    <3> QED
      BY <2>1, <3>2, <3>3 DEF RunInv, Achieved
  <2>4. RunConfigures'
    BY <2>1 DEF RunInv, RunConfigures, Configured, Held, Value
  <2> QED
    BY <2>2, <2>3, <2>4 DEF RunInv
<1>4. CASE \/ Abort
           \/ \E change \in AdminChanges : ChangeSetting(change[1], change[2], change[3])
           \/ \E names \in Discards : DeleteRecords(names)
  BY <1>4, DisturbanceReliable DEF RunInv, Achieved, RunConfigures
<1> QED
  BY <1>1, <1>2, <1>3, <1>4 DEF Next

\* Where scripts look up, read and set what they deployed before, and setters ask for
\* what those of the repository ask for, a run that nothing interferes with succeeds, in
\* whatever state killed runs, administrators and deletions left the deployment, and
\* does what its command is for.
THEOREM UndisturbedRunsConfigure ==
    ASSUME ScriptsFit, RepositorySetters
    PROVE  Spec => []RunConfigures
<1>1. Init => RunInv
  BY InitReliable
<1>2. Spec => []WiringInv
  BY InitWired, NextWired, Invariance, PTL DEF Spec
<1>3. Spec => []RunInv
  BY <1>1, <1>2, NextReliable, Invariance, PTL DEF Spec
<1>4. RunInv => RunConfigures
  BY DEF RunInv
<1> QED
  BY <1>3, <1>4, PTL
-----------------------------------------------------------------------------
(* A deployment that is complete *)

\* Between the runs: a contract that is not recorded has no record in its way, and before
\* the first run there are only contracts that no script deploys.
Kept ==
    /\ phase # "idle" => \E e \in Environments : account = ServiceAccount(network, e)
    /\ phase = "idle" => \A a \in DOMAIN chain : Preset[network][a[1]] # Zero
    /\ unsaved # Zero => records[unsaved[1]] = Zero

KeptInv == Reliable /\ Kept

\* It holds before the first run.
LEMMA InitKept == Init => KeptInv
<1> SUFFICES ASSUME Init PROVE KeptInv
  OBVIOUS
<1>1. ASSUME NEW a \in DOMAIN chain
      PROVE  Preset[network][a[1]] # Zero
  <2>1. network \in Networks /\ \E n \in Names : a = Preset[network][n] /\ a # Zero
    BY DEF Init
  <2>2. PICK n \in Names : a = Preset[network][n] /\ a # Zero
    BY <2>1
  <2>3. a[1] = n
    BY <2>1, <2>2, HardhatAssumption
  <2> QED
    BY <2>2, <2>3
<1> QED
  BY <1>1, InitReliable DEF Init, Kept, KeptInv, RunInv

\* Every step keeps it.
LEMMA NextKept ==
    ASSUME ScriptsFit
    PROVE  IInv /\ KeptInv /\ [Next]_vars => KeptInv'
<1> SUFFICES ASSUME IInv, KeptInv, [Next]_vars PROVE KeptInv'
  OBVIOUS
<1>1. TypeOK /\ Reliable /\ Kept
  BY DEF IInv, KeptInv
<1>2. CASE RunStep
  <2>1. Reliable' /\ phase' # "idle" /\ account' = account /\ network' = network
    <3>1. phase' # "idle"
      BY <1>2 DEF RunStep, GetRecord, SkipDeployed, DeployContract, SaveRecord, ReadField, InspectContract,
         SetField, Finish, Fails, EndAs, Continue, Transact, AtStep, runVars
    <3> QED
      BY <1>1, <1>2, <3>1, RunReliable, RunKeeps
  <2>2. \E e \in Environments : account = ServiceAccount(network, e)
    BY <1>1, <1>2 DEF Reliable, RunStep, GetRecord, SkipDeployed, DeployContract, SaveRecord, ReadField,
       InspectContract, SetField, Finish, AtStep
  <2>3. CASE phase' = "running"
    BY <2>1, <2>3 DEF Reliable, Kept, KeptInv
  <2>4. CASE phase' # "running"
    <3>1. Fails \/ Finish
      BY <1>2, <2>4 DEF RunStep, GetRecord, SkipDeployed, DeployContract, SaveRecord, ReadField,
         InspectContract, SetField, Continue, Transact, AtStep, runVars
    <3>2. unsaved' = unsaved /\ records' = records
      BY <3>1 DEF Fails, Finish, EndAs, chainVars
    <3> QED
      BY <1>1, <2>1, <2>2, <3>2 DEF Kept, KeptInv
  <2> QED
    BY <2>3, <2>4
<1>3. ASSUME NEW c \in Commands, Start(c)
      PROVE  KeptInv'
  <2>1. Reliable'
    BY <1>1, <1>3, StartReliable
  <2>2. phase' = "running" /\ unsaved' = Zero
    BY <1>3 DEF Start
  <2> QED
    BY <2>1, <2>2 DEF Reliable, Kept, KeptInv
<1>4. CASE Abort
  BY <1>1, <1>4, DisturbanceReliable DEF Abort, EndAs, Kept, KeptInv, Reliable, chainVars
<1>5. ASSUME NEW change \in AdminChanges, ChangeSetting(change[1], change[2], change[3])
      PROVE  KeptInv'
  <2>1. DOMAIN chain' = DOMAIN chain /\ UNCHANGED <<network, records, unsaved, phase, account>>
    BY <1>5 DEF ChangeSetting, WithField, runVars
  <2> QED
    BY <1>1, <1>5, <2>1, DisturbanceReliable DEF Kept, KeptInv
<1>6. ASSUME NEW names \in Discards, DeleteRecords(names)
      PROVE  KeptInv'
  BY <1>1, <1>6, DisturbanceReliable DEF DeleteRecords, Kept, KeptInv, runVars
<1>7. CASE UNCHANGED vars
  BY <1>1, <1>7 DEF vars, chainVars, runVars, Reliable, Kept, KeptInv
<1> QED
  BY <1>2, <1>3, <1>4, <1>5, <1>6, <1>7 DEF Next

\* A contract that a command is for has a name.
LEMMA GoalName ==
    ASSUME ScriptsFit, NEW c \in Commands, NEW n \in Goal(c).names
    PROVE  n \in Names /\ \A w \in Networks : Preset[w][n] = Zero
<1>1. DeployedBefore(Program[c], Len(Program[c]) + 1, n) /\ GoalFits(c)
      /\ DOMAIN Program[c] = 1 .. Len(Program[c]) /\ Len(Program[c]) \in Nat
  BY DEF ScriptsFit, FitCommands, CommandFits
<1>2. PICK j \in DOMAIN Program[c] : Program[c][j].do = "deploy" /\ Program[c][j].name = n
  BY <1>1 DEF DeployedBefore
<1>3. IsStep(Program[c][j])
  BY ProgramFits
<1> QED
  BY <1>1, <1>2, <1>3 DEF GoalFits, IsStep

\* A setting that a command is for is a field of such a contract, and required is
\* anything but zero, an address, the account or a literal.
LEMMA GoalSetting ==
    ASSUME ScriptsFit, NEW c \in Commands, NEW s \in Goal(c).settings
    PROVE  /\ s.name \in Goal(c).names /\ s.field \in Fields /\ Has(s.name, s.field)
           /\ s.required # nonzero =>
                 /\ s.required \in Required /\ s.required.from # "named"
                 /\ s.required.from = "record" => s.required.name \in Goal(c).names
<1> DEFINE steps == Program[c]
<1>1. Reaches(steps, s) /\ GoalFits(c) /\ DOMAIN steps = 1 .. Len(steps) /\ Len(steps) \in Nat
  BY DEF ScriptsFit, FitCommands, CommandFits
<1>2. PICK j \in DOMAIN steps :
         /\ LastSet(steps, Len(steps) + 1, j, s.name, s.field)
         /\ IF s.required = nonzero THEN steps[j].when = "0"
            ELSE steps[j].when # "0" /\ steps[j].required = s.required
  BY <1>1 DEF Reaches
<1>3. steps[j].do = "set" /\ SetsOf(steps, j, s.name, s.field)
  BY <1>2 DEF LastSet, SetsOf
<1>4. PICK r \in DOMAIN steps : Reads(steps[r], s.field) /\ steps[r].name = s.name
  BY <1>1, <1>3 DEF SetsOf
<1>5. s.field \in Fields /\ Has(s.name, s.field)
  BY <1>4, ProgramFits
<1>6. IsStep(steps[j]) /\ SetsAccepted(steps, j)
  BY <1>3, ProgramFits
<1>7. steps[j].required \in Required /\ steps[j].required.from # "named"
  BY <1>3, <1>6 DEF IsStep, SetsAccepted
<1> QED
  BY <1>1, <1>2, <1>5, <1>7 DEF GoalFits

\* A setting that was as required before a step is so after it, if its contract and those
\* that commands are for stay recorded, and the step does not change it for the worse.
LEMMA CompleteKept ==
    ASSUME ScriptsFit, TypeOK, Complete,
           \A c \in Commands : \A n \in Goal(c).names :
              /\ records'[n] = records[n] /\ DOMAIN chain \subseteq DOMAIN chain'
              /\ network' = network /\ account' = account,
           \A c \in Commands : \A s \in Goal(c).settings :
              \/ Held(s)' = Held(s)
              \/ s.required = nonzero /\ Held(s)' # Zero
              \/ s.required # nonzero /\ Held(s)' = Value(s.required)
    PROVE  Complete'
<1> SUFFICES ASSUME NEW c \in Commands PROVE Configured(c)'
  BY DEF Complete
<1>1. Configured(c)
  BY DEF Complete
<1>2. \A n \in Goal(c).names : records'[n] \in DOMAIN chain'
  BY <1>1 DEF Configured
<1>3. ASSUME NEW s \in Goal(c).settings
      PROVE  IF s.required = nonzero THEN Held(s)' # Zero ELSE Held(s)' = Value(s.required)'
  <2>1. s.name \in Goal(c).names
    BY GoalSetting
  <2>2. ASSUME s.required # nonzero
        PROVE  Value(s.required)' = Value(s.required)
    <3>1. s.required \in Required /\ s.required.from # "named"
          /\ (s.required.from = "record" => records'[s.required.name] = records[s.required.name])
      BY <2>2, GoalSetting
    <3>2. account' = account
      BY <2>1
    <3> QED
      BY <3>1, <3>2 DEF Required, Value
  <2>3. IF s.required = nonzero THEN Held(s) # Zero ELSE Held(s) = Value(s.required)
    BY <1>1 DEF Configured
  <2> QED
    BY <2>2, <2>3
<1> QED
  BY <1>2, <1>3 DEF Configured

\* What a command is for is recorded, under the name of the contract.
LEMMA GoalRecorded ==
    ASSUME ScriptsFit, IInv, Complete, NEW c \in Commands, NEW n \in Goal(c).names
    PROVE  /\ n \in Names /\ records[n] # Zero /\ records[n] \in DOMAIN chain
           /\ records[n][1] = n /\ Preset[network][n] = Zero
<1>1. n \in Names /\ records[n] \in DOMAIN chain /\ Preset[network][n] = Zero
  BY GoalName DEF Complete, Configured, IInv, TypeOK
<1>2. records[n] # Zero
  BY <1>1, AddressesAreValues DEF IInv, TypeOK
<1> QED
  BY <1>1, <1>2 DEF IInv, Lead

\* A transaction goes to the contract that was the last to be asked for the field, and
\* gives it what every command wants it to have.
LEMMA TransactionKeepsGoals ==
    ASSUME ScriptsFit, IInv, WiringInv, Complete,
           AtStep("set"), Comparable, Accepted, Transact,
           NEW c \in Commands, NEW s \in Goal(c).settings,
           records[s.name] = Saw.at, s.field = Step.field
    PROVE  IF s.required = nonzero THEN Value(Step.required) # Zero
           ELSE Value(Step.required) = Value(s.required)
<1> DEFINE steps == Program[command]
           a == Saw.at
           f == Step.field
<1>1. /\ TypeOK /\ phase = "running" /\ pc \in DOMAIN steps /\ Step.do = "set"
      /\ Step.when = "0" => Step.required.from = "literal" /\ Step.required.value # Zero
      /\ f \in DOMAIN seen
  BY StepFields DEF IInv, AtStep, Comparable
<1>2. s.name \in Names /\ a # Zero /\ a[1] = s.name
  BY GoalSetting, GoalRecorded
<1>3. LastRead(steps, pc, f, s.name)
  <2>1. PICK j \in 1 .. pc - 1 :
           /\ Reads(steps[j], f) /\ a[1] = steps[j].name
           /\ \A k \in j + 1 .. pc - 1 : ~Reads(steps[k], f)
    BY <1>1, <1>2 DEF WiringInv, Remembered, Saw
  <2> QED
    BY <1>2, <2>1 DEF LastRead
<1>4. KeepsGoals(steps, pc) /\ Step = steps[pc]
  BY <1>1, StepFits DEF Step
<1>5. IF s.required = nonzero THEN Step.when = "0" ELSE Step.required = s.required
  BY <1>2, <1>3, <1>4 DEF KeepsGoals
<1> QED
  BY <1>1, <1>5 DEF Value

\* No step of a run takes anything back.
LEMMA RunKeepsComplete ==
    ASSUME ScriptsFit, IInv, WiringInv, KeptInv, RunStep, Complete
    PROVE  Complete'
<1>1. TypeOK /\ Reliable
  BY DEF IInv, KeptInv
<1>2. ASSUME NEW c \in Commands, NEW n \in Goal(c).names
      PROVE  /\ records'[n] = records[n] /\ DOMAIN chain \subseteq DOMAIN chain'
             /\ network' = network /\ account' = account
  BY <1>1, <1>2, GoalRecorded, RunKeeps
<1>3. ASSUME NEW c \in Commands, NEW s \in Goal(c).settings
      PROVE  \/ Held(s)' = Held(s)
             \/ s.required = nonzero /\ Held(s)' # Zero
             \/ s.required # nonzero /\ Held(s)' = Value(s.required)
  <2> DEFINE b == records[s.name]
  <2>1. /\ s.name \in Goal(c).names /\ b \in DOMAIN chain /\ b[1] = s.name
        /\ s.field \in Fields /\ Has(s.name, s.field)
    BY GoalSetting, GoalRecorded
  <2>2. s.field \in DOMAIN chain[b].fields
    BY <1>1, <2>1 DEF Reliable
  <2>3. records'[s.name] = b
    BY <1>2, <2>1
  <2> HIDE DEF b
  <2>4. CASE SetField /\ Comparable /\ Accepted /\ Transact
    <3> DEFINE a == Saw.at
               f == Step.field
               v == Value(Step.required)
    <3>1. /\ f \in Fields /\ v \in Values /\ HasField(a, f) /\ a \in Address
          /\ AtStep("set") /\ chain' = WithField(a, f, v)
      BY <1>1, <2>4, StepFields, ValueType DEF SetField, AtStep, Accepted, Transact, TypeOK, HasField
    <3>2. b = a /\ s.field = f =>
             IF s.required = nonzero THEN v # Zero ELSE v = Value(s.required)
      BY <2>4, <3>1, TransactionKeepsGoals DEF b
    <3> HIDE DEF a, f, v
    <3>3. chain'[b].fields[s.field] = IF b = a /\ s.field = f THEN v ELSE chain[b].fields[s.field]
      BY <1>1, <2>1, <2>2, <3>1, WithFieldType
    <3>4. Held(s)' = chain'[b].fields[s.field] /\ Held(s) = chain[b].fields[s.field]
      BY <2>3 DEF Held, b
    <3> QED
      BY <3>2, <3>3, <3>4
  <2>5. CASE DeployContract
    <3>1. PICK a \in NextAddress(Step.name) :
             chain' = [d \in DOMAIN chain \cup {a} |-> IF d = a THEN NewContract(Step) ELSE chain[d]]
      BY <2>5 DEF DeployContract
    <3>2. a \notin DOMAIN chain
      <4>1. a \in Address /\ a[2] > 0 /\ \A k \in 1 .. a[2] : <<Step.name, k>> \in DOMAIN chain <=> k < a[2]
        BY DEF NextAddress
      <4>2. a[2] \in 1 .. a[2] /\ a = <<Step.name, a[2]>>
        BY <4>1, HardhatAssumption DEF Address, NextAddress
      <4>3. ~(a[2] < a[2])
        BY <4>1, HardhatAssumption DEF Address
      <4> QED
        BY <4>1, <4>2, <4>3
    <3>3. chain'[b] = chain[b]
      BY <2>1, <3>1, <3>2 DEF b
    <3> QED
      BY <2>3, <3>3 DEF Held, b
  <2>6. CASE ~DeployContract /\ ~(SetField /\ Comparable /\ Accepted /\ Transact)
    <3>1. chain' = chain
      BY <2>6 DEF RunStep, GetRecord, SkipDeployed, SaveRecord, ReadField, InspectContract,
         SetField, Finish, Fails, EndAs, chainVars
    <3> QED
      BY <2>3, <3>1 DEF Held, b
  <2> QED
    BY <2>4, <2>5, <2>6
<1> QED
  BY <1>1, <1>2, <1>3, CompleteKept

\* Nor does the start of a run: it records, if anything, a contract that had no record.
LEMMA StartKeepsComplete ==
    ASSUME ScriptsFit, IInv, KeptInv, NEW d \in Commands, Start(d), Complete
    PROVE  Complete'
<1>1. /\ TypeOK /\ network \in Networks /\ UNCHANGED <<network, chain>>
      /\ \E e \in Environments : account' = ServiceAccount(network, e)
      /\ \/ records' = records
         \/ unsaved # Zero /\ records' = [records EXCEPT ![unsaved[1]] = unsaved]
  BY DEF IInv, TypeOK, Start
<1>2. ASSUME NEW c \in Commands, NEW n \in Goal(c).names
      PROVE  /\ records'[n] = records[n] /\ DOMAIN chain \subseteq DOMAIN chain'
             /\ network' = network /\ account' = account
  <2>1. n \in Names /\ records[n] # Zero /\ records[n] \in DOMAIN chain
        /\ records[n][1] = n /\ Preset[network][n] = Zero
    BY GoalRecorded
  <2>2. phase # "idle"
    BY <2>1 DEF KeptInv, Kept
  <2>3. account' = account
    BY <1>1, <2>2 DEF KeptInv, Kept, ScriptsFit, OperatorsFit
  <2>4. unsaved # Zero => unsaved[1] # n
    BY <2>1 DEF KeptInv, Kept
  <2> QED
    BY <1>1, <2>1, <2>3, <2>4 DEF TypeOK
<1>3. ASSUME NEW c \in Commands, NEW s \in Goal(c).settings
      PROVE  Held(s)' = Held(s)
  BY <1>1, <1>2, GoalSetting DEF Held
<1> QED
  BY <1>1, <1>2, <1>3, CompleteKept

\* Once the deployment is as every command wants it, it stays so until the next failure,
\* change or deletion: whatever contracts, settings and accounts there are, no run redeploys
\* or sets again what a run of another command left, and none undoes it halfway.
THEOREM CompleteStays == ASSUME ScriptsFit PROVE Spec => StaysComplete
<1>1. Spec => []KeptInv
  BY InitKept, NextKept, Invariance, PTL DEF Spec
<1>2. Spec => []WiringInv
  BY InitWired, NextWired, Invariance, PTL DEF Spec
<1>3. IInv /\ WiringInv /\ KeptInv /\ [Next]_vars =>
         [Complete /\ disturbances' = disturbances => Complete']_vars
  <2> SUFFICES ASSUME IInv, WiringInv, KeptInv, Next, Complete, disturbances' = disturbances
               PROVE  Complete'
    OBVIOUS
  <2>1. ~Disturb
    BY DEF Disturb, IInv, TypeOK
  <2>2. RunStep \/ \E c \in Commands : Start(c)
    BY <2>1 DEF Next, Abort, ChangeSetting, DeleteRecords
  <2> QED
    BY <2>2, RunKeepsComplete, StartKeepsComplete
<1> QED
  BY <1>1, <1>2, <1>3, Invariance, PTL DEF Spec, StaysComplete

\* What is left of a run: two steps of the process for a contract that is to be deployed
\* and recorded, at most as many for any other step.
Remaining == 2 * (Len(Program[command]) + 1 - pc) + (IF unsaved = Zero THEN 1 ELSE 0)

\* A run never waits for anything but its own next step and never goes back: every step
\* of it ends the run or brings it nearer to its end, whatever happens in between.
THEOREM RunsAdvance ==
    ASSUME ScriptsFit
    PROVE  Spec => [][RunStep => \/ phase' # "running"
                                 \/ Remaining' \in Nat /\ Remaining' < Remaining]_vars
<1>1. IInv /\ [Next]_vars =>
         [RunStep => phase' # "running" \/ (Remaining' \in Nat /\ Remaining' < Remaining)]_vars
  <2> SUFFICES ASSUME IInv, RunStep, phase' = "running"
               PROVE  Remaining' \in Nat /\ Remaining' < Remaining
    OBVIOUS
  <2> DEFINE n == Len(Program[command])
  <2>1. TypeOK /\ pc \in Nat /\ Zero \notin Address
    BY AddressesAreValues DEF IInv, TypeOK
  <2>2. ~Fails /\ ~Finish
    BY DEF Fails, Finish, EndAs
  <2>3. pc \in DOMAIN Program[command] /\ command' = command
    BY <2>2 DEF RunStep, GetRecord, SkipDeployed, DeployContract, SaveRecord, ReadField, InspectContract,
       SetField, Transact, Continue, AtStep, runVars
  <2>4. n \in Nat /\ pc \in 1 .. n
    BY <2>1, <2>3 DEF ScriptsFit, FitCommands, CommandFits, TypeOK
  <2>5. CASE DeployContract
    <3>1. pc' = pc /\ unsaved = Zero /\ unsaved' # Zero
      BY <2>1, <2>5 DEF DeployContract, NextAddress, runVars
    <3>2. Remaining = 2 * (n + 1 - pc) + 1 /\ Remaining' = 2 * (n + 1 - pc) + 0
      BY <2>3, <3>1 DEF Remaining
    <3> QED
      BY <2>4, <3>2
  <2>6. CASE SaveRecord
    <3>1. pc' = pc + 1 /\ unsaved # Zero /\ unsaved' = Zero
      BY <2>6 DEF SaveRecord, Continue
    <3>2. Remaining = 2 * (n + 1 - pc) + 0 /\ Remaining' = 2 * (n + 1 - (pc + 1)) + 1
      BY <2>3, <3>1 DEF Remaining
    <3> HIDE DEF n
    <3>3. n - pc \in Nat /\ n + 1 - pc = (n - pc) + 1 /\ n + 1 - (pc + 1) = n - pc
      BY <2>4
    <3> QED
      BY <3>2, <3>3
  <2>7. CASE ~DeployContract /\ ~SaveRecord
    <3>1. pc' = pc + 1 /\ unsaved' = unsaved
      BY <2>2, <2>7 DEF RunStep, GetRecord, SkipDeployed, ReadField, InspectContract, SetField,
         Transact, Continue, chainVars
    <3> DEFINE waits == IF unsaved = Zero THEN 1 ELSE 0
    <3>2. Remaining = 2 * (n + 1 - pc) + waits /\ Remaining' = 2 * (n + 1 - (pc + 1)) + waits
      BY <2>3, <3>1 DEF Remaining
    <3>3. waits \in Nat
      OBVIOUS
    <3> HIDE DEF n, waits
    <3>4. n - pc \in Nat /\ n + 1 - pc = (n - pc) + 1 /\ n + 1 - (pc + 1) = n - pc
      BY <2>4
    <3> QED
      BY <3>2, <3>3, <3>4
  <2> QED
    BY <2>5, <2>6, <2>7
<1> QED
  BY <1>1, Invariance, PTL DEF Spec
=============================================================================
