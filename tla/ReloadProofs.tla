---------------------------- MODULE ReloadProofs ----------------------------
(***************************************************************************)
(* Proofs about ConfigReload, for every number of files and versions:      *)
(* types, and the safety half of WatchedIsFresh, which says at any moment  *)
(* where a change that does not run yet is noted.                          *)
(***************************************************************************)
EXTENDS ConfigReload, TLAPS

\* The command starts with an empty configuration and without a watcher.
LEMMA TypedInit == Init => TypeOK
  BY ReloadAssumption DEF Init, TypeOK, Nothing

\* Loading, watching and the debounce timer keep every type.
LEMMA TypedStep == TypeOK /\ [Next]_vars => TypeOK'
  <1> SUFFICES ASSUME TypeOK, [Next]_vars PROVE TypeOK'
    OBVIOUS
  <1> USE ReloadAssumption DEF TypeOK, watchVars, loadVars
  <1>1. ASSUME NEW f \in Files, NEW c \in Versions \cup {"absent", "bad"}, Edit(f, c) PROVE TypeOK'
    BY <1>1 DEF Edit
  <1>2. CASE ListFails
    BY <1>2 DEF ListFails
  <1>3. CASE List
    BY <1>3 DEF List, Nothing
  <1>4. CASE ReadFile
    <2> DEFINE f == Min(todo)
    <2>1. todo' \subseteq Files
      BY <1>4 DEF ReadFile, Continue
    <2>2. config' = ReadConfigFile(f)
      BY <1>4 DEF ReadFile
    <2> HIDE DEF f
    <2>3. config' \in [Files -> Versions \cup {"absent"}]
      BY <2>2 DEF ReadConfigFile
    <2>4. QED
      BY <1>4, <2>1, <2>3 DEF ReadFile
  <1>5. CASE Apply
    BY <1>5 DEF Apply
  <1>6. CASE Watch
    BY <1>6 DEF Watch
  <1>7. CASE TimerFires
    BY <1>7 DEF TimerFires
  <1>8. CASE ForwardEvent
    BY <1>8 DEF ForwardEvent, Debounce
  <1>9. CASE WatcherFails
    BY <1>9 DEF WatcherFails
  <1>10. CASE UNCHANGED vars
    BY <1>10 DEF vars
  <1>11. QED
    BY <1>1, <1>2, <1>3, <1>4, <1>5, <1>6, <1>7, <1>8, <1>9, <1>10
       DEF Next, Run, LoadExports, LoadImports, LoadStore

\* Every variable keeps its type, in every instance; no event is noted and no timer
\* runs before there is a watcher.
THEOREM TypeCorrect == Spec => []TypeOK
  BY TypedInit, TypedStep, PTL DEF Spec

-----------------------------------------------------------------------------
\* The watcher has ended, or it watches and every change is noted.
Watched == watching = "ended" \/ (watching = "yes" /\ Noticed)

\* The watcher starts once, after the first load.
WatchesLater == phase \in {"load", "watch"} => watching = "no"

\* Nothing leads back to the phases before the watch (command/exporter/exporter.go:82-86),
\* and as long as they last no watcher appears.
LEMMA WatchIsLeft ==
    [Next]_vars /\ phase' \in {"load", "watch"} =>
        phase \in {"load", "watch"} /\ (watching' = watching \/ watching = "yes")
  <1>1. ASSUME LoadExports \/ LoadImports \/ LoadStore
        PROVE  watching' = watching /\ (phase' = phase \/ phase = "load")
    BY <1>1 DEF LoadExports, LoadImports, LoadStore, ListFails, List, ReadFile, Apply, watchVars
  <1>2. Watch => phase' \in {"run", "exit"}
    BY DEF Watch
  <1>3. ASSUME \/ TimerFires \/ ForwardEvent \/ WatcherFails
               \/ \E f \in Files, c \in Versions \cup {"absent", "bad"} : Edit(f, c)
        PROVE  phase' = phase /\ (watching' = watching \/ watching = "yes")
    BY <1>3 DEF TimerFires, ForwardEvent, WatcherFails, Edit
  <1>4. QED
    BY <1>1, <1>2, <1>3 DEF Next, Run, vars, watchVars

\* So no watcher runs before Watch.
LEMMA WatchesLaterInv == Spec => []WatchesLater
  <1>1. Init => WatchesLater
    BY DEF Init, WatchesLater
  <1>2. WatchesLater /\ [Next]_vars => WatchesLater'
    BY WatchIsLeft DEF WatchesLater
  <1>3. QED
    BY <1>1, <1>2, PTL DEF Spec

\* An event, the timer, a load and what it has read follow one another without a gap.
LEMMA WatchedStep == TypeOK /\ WatchesLater /\ Watched /\ [Next]_vars => Watched'
  <1> SUFFICES ASSUME TypeOK, WatchesLater, Watched, [Next]_vars PROVE Watched'
    OBVIOUS
  <1> USE DEF TypeOK, Watched, Noticed, Parsed, watchVars, loadVars
  <1>1. ASSUME NEW f \in Files, NEW c \in Versions \cup {"absent", "bad"}, Edit(f, c)
        PROVE  Watched'
    BY <1>1 DEF Edit
  <1>2. CASE ListFails
    BY <1>2 DEF ListFails
  <1>3. CASE List
    <2>1. config' = [f \in Files |-> IF f \in todo' THEN "absent" ELSE Parsed'[f]]
      BY <1>3, ReloadAssumption DEF List, Nothing
    <2>2. QED
      BY <1>3, <2>1 DEF List
  <1>4. CASE ReadFile
    <2> DEFINE m == Min(todo)
    <2>1. /\ todo' = todo \ {m} /\ config' = ReadConfigFile(m) /\ loadPc = "read"
          /\ UNCHANGED <<files, watchVars, loadPc, services>>
      BY <1>4 DEF ReadFile, Continue
    <2> HIDE DEF m
    <2>2. ASSUME config = [f \in Files |-> IF f \in todo THEN "absent" ELSE Parsed[f]]
          PROVE  config' = [f \in Files |-> IF f \in todo' THEN "absent" ELSE Parsed'[f]]
      <3>1. CASE files[m] \in Versions
        BY <2>1, <2>2, <3>1 DEF ReadConfigFile
      <3>2. CASE files[m] \notin Versions
        BY <2>1, <2>2, <3>2 DEF ReadConfigFile
      <3>3. QED
        BY <3>1, <3>2
    <2>3. QED
      BY <2>1, <2>2
  <1>5. CASE Apply
    <2>1. CASE config = [f \in Files |-> IF f \in todo THEN "absent" ELSE Parsed[f]]
      BY <1>5, <2>1 DEF Apply
    <2>2. CASE event \/ timer \/ watching = "ended"
      BY <1>5, <2>2 DEF Apply
    <2>3. QED
      BY <1>5, <2>1, <2>2 DEF Apply
  <1>6. CASE Watch
    BY <1>6 DEF Watch, WatchesLater
  <1>7. CASE TimerFires
    BY <1>7 DEF TimerFires
  <1>8. CASE ForwardEvent
    BY <1>8 DEF ForwardEvent, Debounce
  <1>9. CASE WatcherFails
    BY <1>9 DEF WatcherFails
  <1>10. CASE UNCHANGED vars
    BY <1>10 DEF vars
  <1>11. QED
    BY <1>1, <1>2, <1>3, <1>4, <1>5, <1>6, <1>7, <1>8, <1>9, <1>10
       DEF Next, Run, LoadExports, LoadImports, LoadStore

\* From the first event of the watcher on, whatever is edited while files are listed and
\* read, a change that does not run yet is noted somewhere.
THEOREM ChangesNoticed == Spec => NoChangeMissed
  <1>1. TypeOK /\ event => Watched
    BY DEF TypeOK, Watched, Noticed
  <1>2. Watched => (watching # "ended" => Noticed)
    BY DEF Watched
  <1>3. QED
    BY <1>1, <1>2, WatchedStep, TypeCorrect, WatchesLaterInv, PTL DEF Spec, NoChangeMissed
=============================================================================
