--------------------------- MODULE SettingsProofs ---------------------------
(***************************************************************************)
(* Proofs about Settings, for any number of updates, boots and crashes:    *)
(* what the object store guarantees until one of its calls fails, whatever *)
(* becomes of the local file, and what the file guarantees where nothing   *)
(* has reached an object store.                                            *)
(***************************************************************************)
EXTENDS Settings, TLAPS

\* The types hold initially.
LEMMA InitTypeOK == Init => TypeOK
BY SettingsAssumption DEF SettingsAssumption, Init, TypeOK, Endpoints

\* Every step keeps the types.
LEMMA StepTypeOK == TypeOK /\ [Next]_vars => TypeOK'
<1> SUFFICES ASSUME TypeOK, [Next]_vars PROVE TypeOK'
  OBVIOUS
<1> USE SettingsAssumption DEF SettingsAssumption, TypeOK, Endpoints
<1>1. CASE Boot
  BY <1>1 DEF Boot
<1>2. CASE LoadRemote
  BY <1>2 DEF LoadRemote, LoadFound
<1>3. CASE LoadLocal
  <2>1. mishaps' \subseteq {"get", "put", "file", "pod"}
    BY <1>3 DEF LoadLocal, LoadNone, Happens
  <2> QED
    BY <2>1, <1>3 DEF LoadLocal, Readable
<1>4. CASE LoadNothing
  BY <1>4 DEF LoadNothing, LoadNone, Happens
<1>5. CASE Migrate
  BY <1>5 DEF Migrate, Put, Happens
<1>6. CASE Update
  BY <1>6 DEF Update
<1>7. CASE SaveRemote
  BY <1>7 DEF SaveRemote, Put, Happens
<1>8. CASE OpenFile
  BY <1>8 DEF OpenFile
<1>9. CASE WriteFile
  BY <1>9 DEF WriteFile
<1>10. CASE FileFails
  BY <1>10 DEF FileFails, Happens
<1>11. CASE Crash
  <2>1. mishaps' \subseteq {"get", "put", "file", "pod"}
    BY <1>11 DEF Crash, Happens
  <2> QED
    BY <2>1, <1>11 DEF Crash
<1>12. CASE UNCHANGED vars
  BY <1>12 DEF vars
<1> QED
  BY <1>1, <1>2, <1>3, <1>4, <1>5, <1>6, <1>7, <1>8, <1>9, <1>10, <1>11, <1>12 DEF Next

\* Every variable keeps its type; what is stored was once asked for.
THEOREM TypeCorrect == Spec => []TypeOK
BY InitTypeOK, StepTypeOK, PTL DEF Spec

(***************************************************************************)
(* What has gone wrong stays recorded                                      *)
(***************************************************************************)

\* No step strikes a mishap off the record.
LEMMA MishapsStay == [Next]_vars => mishaps \subseteq mishaps'
BY DEF Next, vars, Boot, LoadRemote, LoadLocal, LoadNothing, LoadNone, Migrate, Put,
       Update, SaveRemote, OpenFile, WriteFile, FileFails, Crash, Happens

(***************************************************************************)
(* A reliable object store                                                 *)
(***************************************************************************)

\* The store has every confirmed update, and the one that is being made as
\* soon as the file is touched.  Only an empty store is migrated into.
StoreInv ==
    /\ remote = Missing => acked = 0
    /\ remote # Missing => remote >= acked
    /\ phase = "up" => memory >= acked
    /\ phase = "put" => memory = updates
    /\ phase \in {"open", "write"} => remote = memory
    /\ phase = "migrate" => remote = Missing

\* Every step keeps the store up to date.
LEMMA StepStoreInv ==
    TypeOK /\ StoreReliable' /\ StoreInv /\ [Next]_vars => StoreInv'
<1> SUFFICES ASSUME TypeOK, StoreReliable', StoreInv, [Next]_vars PROVE StoreInv'
  OBVIOUS
<1> USE SettingsAssumption DEF SettingsAssumption, StoreReliable, TypeOK, Endpoints, StoreInv
<1>1. CASE Boot
  BY <1>1 DEF Boot
<1>2. CASE LoadRemote
  BY <1>2 DEF LoadRemote, LoadFound
<1>3. CASE LoadLocal
  BY <1>3 DEF LoadLocal, Readable, LoadNone, Happens
<1>4. CASE LoadNothing
  BY <1>4 DEF LoadNothing, Readable, LoadNone, Happens
<1>5. CASE Migrate
  BY <1>5 DEF Migrate, Put, Happens
<1>6. CASE Update
  BY <1>6 DEF Update
<1>7. CASE SaveRemote
  BY <1>7 DEF SaveRemote, Put, Happens
<1>8. CASE OpenFile
  BY <1>8 DEF OpenFile
<1>9. CASE WriteFile
  BY <1>9 DEF WriteFile
<1>10. CASE FileFails
  BY <1>10 DEF FileFails, Happens
<1>11. CASE Crash
  BY <1>11 DEF Crash, Happens
<1>12. CASE UNCHANGED vars
  BY <1>12 DEF vars
<1> QED
  BY <1>1, <1>2, <1>3, <1>4, <1>5, <1>6, <1>7, <1>8, <1>9, <1>10, <1>11, <1>12 DEF Next

\* The object store is up to date until one of its calls fails.
LEMMA StoreInvariance == Spec => [](TypeOK /\ (StoreReliable => StoreInv))
<1>1. Init => TypeOK /\ StoreInv
  BY InitTypeOK, SettingsAssumption DEF Init, StoreInv, SettingsAssumption
<1>2. [Next]_vars /\ StoreReliable' => StoreReliable
  BY MishapsStay DEF StoreReliable
<1>3. /\ TypeOK /\ (StoreReliable => StoreInv)
      /\ [Next]_vars
      => (TypeOK /\ (StoreReliable => StoreInv))'
  BY <1>2, StepTypeOK, StepStoreInv
<1> QED
  BY <1>1, <1>3, PTL DEF Spec

\* As long as no call of the object store fails no crash makes the connector
\* forget an endpoint it has confirmed, even when the file is torn, lost or
\* old.
THEOREM ConfirmedSurvives == Spec => []SurvivesRestart
<1>1. TypeOK /\ (StoreReliable => StoreInv) => SurvivesRestart
  BY DEF StoreInv, SurvivesRestart
<1> QED
  BY <1>1, StoreInvariance, PTL

\* No step puts an older endpoint into the store.
LEMMA StepRollsForward ==
    TypeOK /\ StoreReliable' /\ StoreInv /\ [Next]_vars /\ remote # Missing
        => remote' # Missing /\ remote' >= remote
<1> SUFFICES ASSUME TypeOK, StoreReliable', StoreInv, [Next]_vars, remote # Missing
             PROVE  remote' # Missing /\ remote' >= remote
  OBVIOUS
<1> USE SettingsAssumption DEF SettingsAssumption, StoreReliable, TypeOK, Endpoints
<1>1. CASE Migrate \/ SaveRemote
  BY <1>1 DEF Migrate, SaveRemote, Put, Happens, StoreInv
<1>2. CASE \/ Boot \/ LoadRemote \/ LoadLocal \/ LoadNothing \/ Update \/ OpenFile
           \/ WriteFile \/ FileFails \/ Crash \/ UNCHANGED vars
  BY <1>2 DEF Boot, LoadRemote, LoadLocal, LoadNothing, Update, OpenFile, WriteFile,
              FileFails, Crash, vars
<1> QED
  BY <1>1, <1>2 DEF Next

\* A reliable object store is only ever written forward: neither a late
\* update nor the migration of an old file replaces a newer endpoint.
THEOREM StoreRollsForward == Spec => StoreNeverRollsBack
<1>1. [Next]_vars /\ StoreReliable' => StoreReliable
  BY MishapsStay DEF StoreReliable
<1>2. TypeOK /\ (StoreReliable => StoreInv) /\ [Next]_vars
        => [StoreReliable' /\ remote # Missing
                => remote' # Missing /\ remote' >= remote]_vars
  BY <1>1, StepRollsForward
<1> QED
  BY <1>2, StoreInvariance, PTL DEF Spec, StoreNeverRollsBack

(***************************************************************************)
(* The register                                                            *)
(***************************************************************************)

\* What is durable.
Kept == IF remote = Missing THEN 0 ELSE remote

\* Between two updates the process works with what is durable.  A file is
\* written after the object only, so that there is never one to migrate.
RegisterInv ==
    /\ phase \in {"down", "load"} => memory = 0
    /\ phase = "up" => memory = Kept
    /\ phase \in {"open", "write"} => remote = memory
    /\ phase # "migrate"
    /\ remote = Missing => local = Missing

\* Every step keeps the process and what is durable together.
LEMMA StepRegisterInv ==
    TypeOK /\ StoreReliable' /\ RegisterInv /\ [Next]_vars => RegisterInv'
<1> SUFFICES ASSUME TypeOK, StoreReliable', RegisterInv, [Next]_vars PROVE RegisterInv'
  OBVIOUS
<1> USE SettingsAssumption DEF SettingsAssumption, StoreReliable, TypeOK, Endpoints,
        RegisterInv, Kept
<1>1. CASE Boot
  BY <1>1 DEF Boot
<1>2. CASE LoadRemote
  BY <1>2 DEF LoadRemote, LoadFound
<1>3. CASE LoadLocal
  BY <1>3 DEF LoadLocal, Readable, LoadNone, Happens
<1>4. CASE LoadNothing
  BY <1>4 DEF LoadNothing, Readable, LoadNone, Happens
<1>5. CASE Migrate
  BY <1>5 DEF Migrate
<1>6. CASE Update
  BY <1>6 DEF Update
<1>7. CASE SaveRemote
  BY <1>7 DEF SaveRemote, Put, Happens
<1>8. CASE OpenFile
  BY <1>8 DEF OpenFile
<1>9. CASE WriteFile
  BY <1>9 DEF WriteFile
<1>10. CASE FileFails
  BY <1>10 DEF FileFails, Happens
<1>11. CASE Crash
  BY <1>11 DEF Crash, Happens
<1>12. CASE UNCHANGED vars
  BY <1>12 DEF vars
<1> QED
  BY <1>1, <1>2, <1>3, <1>4, <1>5, <1>6, <1>7, <1>8, <1>9, <1>10, <1>11, <1>12 DEF Next

\* Every step of the connector is one of the register, or shows nothing of
\* it: the file, the migration and the environment are behind it.
LEMMA StepRegister ==
    TypeOK /\ StoreReliable' /\ RegisterInv /\ [Next]_vars
        => Register!Next \/ UNCHANGED Register!registerVars
<1> SUFFICES ASSUME TypeOK, StoreReliable', RegisterInv, [Next]_vars
             PROVE  Register!Next \/ UNCHANGED Register!registerVars
  OBVIOUS
<1> USE SettingsAssumption DEF SettingsAssumption, StoreReliable, TypeOK, RegisterInv, Kept
<1>1. CASE LoadRemote
  <2> Register!Serve
    BY <1>1 DEF LoadRemote, LoadFound, Register!Serve, Endpoints
  <2> QED
    BY DEF Register!Next
<1>2. CASE LoadNothing
  <2> Register!Serve
    BY <1>2 DEF LoadNothing, Readable, LoadNone, Happens, Register!Serve, Endpoints
  <2> QED
    BY DEF Register!Next
<1>3. CASE LoadLocal \/ Migrate
  BY <1>3 DEF LoadLocal, Migrate, LoadNone, Readable, Happens, Endpoints
<1>4. CASE Update
  <2>1. updates + 1 \in Endpoints
    BY <1>4 DEF Update, Endpoints
  <2>2. Register!Ask(updates + 1)
    BY <1>4 DEF Update, Register!Ask, Endpoints
  <2> QED
    BY <2>1, <2>2 DEF Register!Next
<1>5. CASE SaveRemote
  <2> Register!Commit
    BY <1>5 DEF SaveRemote, Put, Happens, Register!Commit, Endpoints
  <2> QED
    BY DEF Register!Next
<1>6. CASE WriteFile \/ FileFails
  <2>1. remote = memory /\ remote # Missing /\ remote' = remote /\ memory' = memory
    BY <1>6 DEF WriteFile, FileFails, Endpoints
  <2>2. phase \in {"open", "write"} /\ phase' = "up" /\ acked' = memory
    BY <1>6 DEF WriteFile, FileFails
  <2> Register!Confirm
    BY <2>1, <2>2 DEF Register!Confirm
  <2> QED
    BY DEF Register!Next
<1>7. CASE Crash
  <2> Register!Fail
    BY <1>7 DEF Crash, Register!Fail
  <2> QED
    BY DEF Register!Next
<1>8. CASE Boot \/ OpenFile \/ UNCHANGED vars
  BY <1>8 DEF Boot, OpenFile, vars, Register!registerVars
<1> QED
  BY <1>1, <1>2, <1>3, <1>4, <1>5, <1>6, <1>7, <1>8 DEF Next

\* Until a call of the object store fails the connector is one durable
\* register: what is in use after a boot is what was durable before, and only
\* what is durable is ever confirmed.
THEOREM ImplementsRegister == Spec => ServesAsRegister
<1>1. Init => TypeOK /\ RegisterInv
  BY InitTypeOK DEF Init, RegisterInv, Kept
<1>2. [Next]_vars /\ StoreReliable' => StoreReliable
  BY MishapsStay DEF StoreReliable
<1>3. /\ TypeOK /\ (StoreReliable => RegisterInv)
      /\ [Next]_vars
      => (TypeOK /\ (StoreReliable => RegisterInv))'
  BY <1>2, StepTypeOK, StepRegisterInv
<1>4. TypeOK /\ (StoreReliable => RegisterInv) /\ [Next]_vars
        => [StoreReliable' => Register!Next \/ UNCHANGED Register!registerVars]_vars
  BY <1>2, StepRegister
<1>5. Init => Register!Init
  BY DEF Init, Register!Init
<1> QED
  BY <1>1, <1>3, <1>4, <1>5, PTL DEF Spec, ServesAsRegister

(***************************************************************************)
(* The file alone                                                          *)
(***************************************************************************)

\* Nothing has reached an object store and the file could always be kept.
FileAlone == remote = Missing /\ mishaps \cap {"file", "pod"} = {}

\* A file that is not torn has every confirmed update, and what the process
\* works with is as new as that.
FileInv ==
    /\ local = Missing => acked = 0
    /\ local \in Nat => local >= acked
    /\ phase \in {"up", "migrate"} => memory >= acked \/ local = Torn
    /\ phase \in {"put", "open", "write"} => memory = updates

\* An object that has reached the store stays there.
LEMMA FileAloneBefore == TypeOK /\ [Next]_vars /\ FileAlone' => FileAlone
<1> SUFFICES ASSUME TypeOK, [Next]_vars, remote' = Missing PROVE remote = Missing
  BY MishapsStay DEF FileAlone
<1> QED
  BY SettingsAssumption DEF SettingsAssumption, TypeOK, Endpoints, Next, vars, Boot,
     LoadRemote, LoadLocal, LoadNothing, Migrate, Put, Happens, Update, SaveRemote,
     OpenFile, WriteFile, FileFails, Crash

\* Every step keeps the file up to date.
LEMMA StepFileInv ==
    TypeOK /\ FileAlone /\ FileAlone' /\ FileInv /\ [Next]_vars => FileInv'
<1> SUFFICES ASSUME TypeOK, FileAlone, FileAlone', FileInv, [Next]_vars PROVE FileInv'
  OBVIOUS
<1> USE SettingsAssumption DEF SettingsAssumption, FileAlone, TypeOK, Endpoints, FileInv
<1>1. CASE Boot
  BY <1>1 DEF Boot
<1>2. CASE LoadRemote
  BY <1>2 DEF LoadRemote, LoadFound
<1>3. CASE LoadLocal
  BY <1>3 DEF LoadLocal, Readable, LoadNone, Happens
<1>4. CASE LoadNothing
  BY <1>4 DEF LoadNothing, Readable, LoadNone, Happens
<1>5. CASE Migrate
  BY <1>5 DEF Migrate, Put, Happens
<1>6. CASE Update
  BY <1>6 DEF Update
<1>7. CASE SaveRemote
  BY <1>7 DEF SaveRemote, Put, Happens
<1>8. CASE OpenFile
  BY <1>8 DEF OpenFile
<1>9. CASE WriteFile
  BY <1>9 DEF WriteFile
<1>10. CASE FileFails
  BY <1>10 DEF FileFails, Happens
<1>11. CASE Crash
  BY <1>11 DEF Crash, Happens
<1>12. CASE UNCHANGED vars
  BY <1>12 DEF vars
<1> QED
  BY <1>1, <1>2, <1>3, <1>4, <1>5, <1>6, <1>7, <1>8, <1>9, <1>10, <1>11, <1>12 DEF Next

\* Without an object store a confirmed endpoint is lost only to a crash in
\* the middle of the rewriting of the file.
THEOREM FileKeepsConfirmed == Spec => []FileSurvivesRestart
<1>1. Init => TypeOK /\ FileInv
  BY InitTypeOK, SettingsAssumption DEF Init, FileInv, SettingsAssumption
<1>2. /\ TypeOK /\ (FileAlone => FileInv)
      /\ [Next]_vars
      => (TypeOK /\ (FileAlone => FileInv))'
  BY StepTypeOK, StepFileInv, FileAloneBefore
<1>3. (FileAlone => FileInv) => FileSurvivesRestart
  BY DEF FileAlone, FileInv, FileSurvivesRestart
<1> QED
  BY <1>1, <1>2, <1>3, PTL DEF Spec

=============================================================================
