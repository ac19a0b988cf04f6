------------------------- MODULE ActionReloadProofs -------------------------
(***************************************************************************)
(* Which saves a reload notices, and which modules it registers, for any   *)
(* number of files and any number of saves.                                *)
(*                                                                         *)
(* Both properties speak of the time between two passes.  What makes them  *)
(* inductive is what holds while a pass is under way: the files it has     *)
(* still to reload are in toReload until the scan begins, and a module     *)
(* that has been loaded is accounted for by one of the flags.              *)
(***************************************************************************)
EXTENDS ActionReload, TLAPS

\* The file whose timestamp is about to be noted has been imported.
ScanInv == pc = "stamp" => \A f \in File : Current(f) => Imported(f)

\* `f` changed at rest and has not been loaded since.
Due(f) == Stale(f) /\ missed[f] = "no"

NoticedInv ==
  /\ pc \in {"idle", "reload"} => \A f \in File : Due(f) => Modified(f)
  /\ pc = "reload" => \A f \in File : Due(f) => f \in DOMAIN toReload
  /\ pc \in {"scan", "stamp"} => \A f \in File : ~Due(f)

\* Why a pass under way is going to register the module of `f`.
Flagged(f) ==
  \/ pc # "idle" /\ reloaded
  \/ pc \in {"scan", "stamp"} /\ discovered
  \/ pc = "stamp" /\ Current(f) /\ stamp[f] = 0

RegisteredInv ==
  \A f \in File : (Imported(f) /\ actions[f] # loaded[f]) => cutShort \/ Flagged(f)

USE FileAssumption, SpawnedAssumption, ClockAssumption

\* What every step of the pass that ends it does to its variables.
LEMMA EndPassType ==
  ASSUME EndPass
  PROVE  /\ pc' = "idle" /\ toReload' \in [DOMAIN toReload' -> 1 .. clock']
         /\ DOMAIN toReload' = {} /\ listing' = {}
         /\ reloaded' = FALSE /\ discovered' = FALSE
         /\ UNCHANGED <<disk, text, clock, loaded, stamp, missed>>
BY DEF EndPass

\* Registering keeps the type of the registry.
LEMMA RegisterType ==
  ASSUME TypeOK, Register
  PROVE  actions' \in [File -> 0 .. clock]
BY DEF TypeOK, Register

-----------------------------------------------------------------------------
\* Every step keeps the types, and a timestamp is noted after the import.
LEMMA TypeStep == TypeOK /\ ScanInv /\ [Next]_vars => TypeOK' /\ ScanInv'
<1> SUFFICES ASSUME TypeOK, ScanInv, [Next]_vars PROVE TypeOK' /\ ScanInv'
  OBVIOUS
<1> USE DEF Imported, OnDisk
<1>1. ASSUME NEW f \in File, Save(f) PROVE TypeOK' /\ ScanInv'
  <2>1. TypeOK'
    BY <1>1 DEF Save, TypeOK, passVars
  <2>2. ScanInv'
    BY <1>1 DEF Save, ScanInv, Current, passVars
  <2> QED
    BY <2>1, <2>2
<1>2. ASSUME NEW f \in File, Delete(f) PROVE TypeOK' /\ ScanInv'
  <2>1. TypeOK'
    BY <1>2 DEF Delete, TypeOK, passVars, history
  <2>2. ScanInv'
    BY <1>2 DEF Delete, ScanInv, Current, passVars
  <2> QED
    BY <2>1, <2>2
<1>3. CASE BeginPass
  <2>1. \A f \in File : Modified(f) => disk[f] \in 1 .. clock
    BY DEF Modified, TypeOK
  <2> QED
    BY <1>3, <2>1 DEF BeginPass, TypeOK, ScanInv, history
<1>4. ASSUME NEW f \in File, Reload(f) PROVE TypeOK' /\ ScanInv'
  BY <1>4 DEF Reload, Done, TypeOK, ScanInv, history
<1>5. ASSUME NEW f \in File, ReloadFails(f) PROVE TypeOK' /\ ScanInv'
  BY <1>5 DEF ReloadFails, Done, TypeOK, ScanInv
<1>6. CASE ListPackage
  BY <1>6 DEF ListPackage, TypeOK, ScanInv, history
<1>7. ASSUME NEW f \in File, ImportModule(f) PROVE TypeOK' /\ ScanInv'
  <2>1. TypeOK'
    BY <1>7 DEF ImportModule, TypeOK, history
  <2>2. Imported(f)' /\ listing' = listing
    BY <1>7 DEF ImportModule, TypeOK
  <2>3. ASSUME NEW g \in File, Current(g)' PROVE g = f
    BY <1>7, <2>2, <2>3 DEF ImportModule, Current
  <2> QED
    BY <2>1, <2>2, <2>3 DEF ScanInv
<1>8. ASSUME NEW f \in File, StampModule(f) PROVE TypeOK' /\ ScanInv'
  <2>1. Imported(f) /\ disk[f] \in 0 .. clock
    BY <1>8 DEF StampModule, ScanInv, TypeOK
  <2> QED
    BY <1>8, <2>1 DEF StampModule, TypeOK, ScanInv, history
<1>9. CASE FinishPass \/ ScanFails \/ PassRaises
  <2>1. EndPass /\ cutShort' \in BOOLEAN /\ (Register \/ UNCHANGED actions)
    BY <1>9 DEF FinishPass, ScanFails, PassRaises, TypeOK
  <2> QED
    BY <2>1, EndPassType, RegisterType DEF TypeOK, ScanInv
<1>10. CASE UNCHANGED vars
  BY <1>10 DEF vars, passVars, history, TypeOK, ScanInv, Current
<1> QED
  BY <1>1, <1>2, <1>3, <1>4, <1>5, <1>6, <1>7, <1>8, <1>9, <1>10 DEF Next, Pass

\* What is due is still going to be reloaded.
LEMMA NoticedStep == TypeOK /\ NoticedInv /\ [Next]_vars => NoticedInv'
<1> SUFFICES ASSUME TypeOK, NoticedInv, [Next]_vars PROVE NoticedInv'
  OBVIOUS
<1> USE DEF Due, Stale, Modified, Imported, OnDisk
<1>1. ASSUME NEW f \in File, Save(f) PROVE NoticedInv'
  <2>1. \A g \in File : g # f => (Due(g)' <=> Due(g)) /\ (Modified(g)' <=> Modified(g))
    BY <1>1 DEF Save, TypeOK, passVars
  <2>2. pc # "idle" => ~Due(f)'
    BY <1>1 DEF Save, TypeOK
  <2>3. pc = "idle" /\ Due(f)' => Modified(f)'
    BY <1>1 DEF Save, TypeOK, passVars
  <2>4. UNCHANGED <<pc, toReload>>
    BY <1>1 DEF Save, passVars
  <2> QED
    BY <2>1, <2>2, <2>3, <2>4 DEF NoticedInv
<1>2. ASSUME NEW f \in File, Delete(f) PROVE NoticedInv'
  <2>1. \A g \in File : g # f => (Due(g)' <=> Due(g)) /\ (Modified(g)' <=> Modified(g))
    BY <1>2 DEF Delete, TypeOK, passVars, history
  <2>2. ~Due(f)'
    BY <1>2 DEF Delete, TypeOK
  <2>3. UNCHANGED <<pc, toReload>>
    BY <1>2 DEF Delete, passVars
  <2> QED
    BY <2>1, <2>2, <2>3 DEF NoticedInv
<1>3. CASE BeginPass
  BY <1>3 DEF BeginPass, NoticedInv, history
<1>4. ASSUME NEW f \in File, Reload(f) PROVE NoticedInv'
  <2>1. \A g \in File : g # f => (Due(g)' <=> Due(g)) /\ (Modified(g)' <=> Modified(g))
    BY <1>4 DEF Reload, TypeOK, history
  <2>2. ~Due(f)'
    BY <1>4 DEF Reload, TypeOK
  <2>3. pc' = "reload" /\ pc = "reload" /\ DOMAIN toReload' = DOMAIN toReload \ {f}
    BY <1>4 DEF Reload, Done
  <2> QED
    BY <2>1, <2>2, <2>3 DEF NoticedInv
<1>5. ASSUME NEW f \in File, ReloadFails(f) PROVE NoticedInv'
  <2>1. \A g \in File : g # f => (Due(g)' <=> Due(g)) /\ (Modified(g)' <=> Modified(g))
    BY <1>5 DEF ReloadFails, TypeOK
  <2>2. ~Due(f)'
    BY <1>5 DEF ReloadFails, TypeOK
  <2>3. pc' = "reload" /\ pc = "reload" /\ DOMAIN toReload' = DOMAIN toReload \ {f}
    BY <1>5 DEF ReloadFails, Done
  <2> QED
    BY <2>1, <2>2, <2>3 DEF NoticedInv
<1>6. CASE ListPackage
  BY <1>6 DEF ListPackage, NoticedInv, history
<1>7. ASSUME NEW f \in File, ImportModule(f) PROVE NoticedInv'
  <2>1. \A g \in File : Due(g)' => Due(g)
    BY <1>7 DEF ImportModule, TypeOK, history
  <2> QED
    BY <1>7, <2>1 DEF ImportModule, NoticedInv
<1>8. ASSUME NEW f \in File, StampModule(f) PROVE NoticedInv'
  BY <1>8 DEF StampModule, NoticedInv, history
<1>9. CASE FinishPass \/ ScanFails \/ PassRaises
  <2>1. EndPass /\ pc \in {"reload", "scan", "stamp"}
    BY <1>9 DEF FinishPass, ScanFails, PassRaises
  <2>2. pc' = "idle" /\ UNCHANGED <<disk, loaded, stamp, missed>>
    BY <2>1, EndPassType
  <2> QED
    BY <2>1, <2>2 DEF NoticedInv
<1>10. CASE UNCHANGED vars
  BY <1>10 DEF vars, passVars, history, NoticedInv
<1> QED
  BY <1>1, <1>2, <1>3, <1>4, <1>5, <1>6, <1>7, <1>8, <1>9, <1>10 DEF Next, Pass

\* What has been loaded is registered, or is going to be.
LEMMA RegisteredStep ==
  TypeOK /\ RegisteredInv /\ [Next]_vars => RegisteredInv'
<1> SUFFICES ASSUME TypeOK, RegisteredInv, [Next]_vars,
                    NEW g \in File, Imported(g)', actions'[g] # loaded'[g]
             PROVE  cutShort' \/ Flagged(g)'
  BY DEF RegisteredInv
<1> USE DEF Flagged, Imported
<1>1. ASSUME NEW f \in File, Save(f) PROVE cutShort' \/ Flagged(g)'
  BY <1>1 DEF Save, RegisteredInv, Current, passVars
<1>2. ASSUME NEW f \in File, Delete(f) PROVE cutShort' \/ Flagged(g)'
  BY <1>2 DEF Delete, RegisteredInv, Current, passVars, history
<1>3. CASE BeginPass
  BY <1>3 DEF BeginPass, RegisteredInv, history
<1>4. ASSUME NEW f \in File, Reload(f) PROVE cutShort' \/ Flagged(g)'
  BY <1>4 DEF Reload
<1>5. ASSUME NEW f \in File, ReloadFails(f) PROVE cutShort' \/ Flagged(g)'
  BY <1>5 DEF ReloadFails, RegisteredInv
<1>6. CASE ListPackage
  BY <1>6 DEF ListPackage, RegisteredInv, history
<1>7. ASSUME NEW f \in File, ImportModule(f) PROVE cutShort' \/ Flagged(g)'
  <2>1. UNCHANGED <<cutShort, stamp, listing, reloaded, discovered, actions>>
        /\ pc = "scan" /\ pc' = "stamp" /\ Current(f)
    BY <1>7 DEF ImportModule, history
  <2>2. CASE loaded'[g] = loaded[g]
    BY <2>1, <2>2 DEF RegisteredInv
  <2>3. CASE loaded'[g] # loaded[g]
    <3>1. g = f /\ ~Imported(f)
      BY <1>7, <2>3 DEF ImportModule, TypeOK
    <3>2. stamp[f] = 0
      BY <3>1 DEF TypeOK
    <3> QED
      BY <2>1, <3>1, <3>2 DEF Current
  <2> QED
    BY <2>2, <2>3
<1>8. ASSUME NEW f \in File, StampModule(f) PROVE cutShort' \/ Flagged(g)'
  <2>1. /\ pc = "stamp" /\ pc' = "scan" /\ Current(f)
        /\ UNCHANGED <<cutShort, loaded, actions, reloaded>>
        /\ discovered' = (discovered \/ stamp[f] = 0)
    BY <1>8 DEF StampModule, history
  <2>2. Current(g) => g = f
    BY <2>1 DEF Current
  <2>3. cutShort \/ Flagged(g)
    BY <2>1 DEF RegisteredInv
  <2> QED
    BY <2>1, <2>2, <2>3
<1>9. CASE FinishPass \/ ScanFails \/ PassRaises
  <2>1. UNCHANGED loaded
    BY <1>9 DEF FinishPass, ScanFails, PassRaises, EndPass
  <2>2. CASE Register
    BY <2>1, <2>2 DEF Register
  <2>3. CASE cutShort'
    BY <2>3
  <2>4. CASE FinishPass /\ ~AnyModuleReloaded
    BY <2>1, <2>4 DEF FinishPass, AnyModuleReloaded, RegisteredInv
  <2> QED
    BY <1>9, <2>2, <2>3, <2>4 DEF FinishPass, ScanFails, PassRaises
<1>10. CASE UNCHANGED vars
  BY <1>10 DEF vars, passVars, history, RegisteredInv, Current
<1> QED
  BY <1>1, <1>2, <1>3, <1>4, <1>5, <1>6, <1>7, <1>8, <1>9, <1>10 DEF Next, Pass

-----------------------------------------------------------------------------
\* All of it holds in every state.
LEMMA ReloadInvHolds == Spec => [](TypeOK /\ ScanInv /\ NoticedInv /\ RegisteredInv)
<1>1. Init => TypeOK
  <2> SUFFICES ASSUME Init PROVE TypeOK
    OBVIOUS
  <2>1. disk \in [File -> 0 .. clock] /\ loaded = disk /\ actions = disk
    BY DEF Init
  <2>2. stamp \in [File -> 0 .. clock] /\ \A f \in File : stamp[f] # 0 => Imported(f)
    BY <2>1 DEF Init, Imported
  <2>3. toReload \in [DOMAIN toReload -> 1 .. clock] /\ DOMAIN toReload \subseteq File
    BY DEF Init
  <2>4. missed \in [File -> {"no", "pass", "worker", "fault"}] /\ text \in [File -> Texts]
    BY DEF Init, Texts
  <2>5. clock \in 1 .. MaxClock /\ listing \subseteq File
    BY DEF Init
  <2> QED
    BY <2>1, <2>2, <2>3, <2>4, <2>5 DEF Init, TypeOK
<1>2. Init => ScanInv /\ NoticedInv /\ RegisteredInv
  BY DEF Init, ScanInv, NoticedInv, RegisteredInv, Due, Stale
<1> QED
  BY <1>1, <1>2, TypeStep, NoticedStep, RegisteredStep, PTL DEF Spec

\* Every variable keeps its type, and _modules lists only imported files.
THEOREM ReloadTypeCorrect == Spec => []TypeOK
BY ReloadInvHolds, PTL

\* A file that changed at rest is going to be reloaded.
THEOREM EditsAreNoticedHolds == Spec => []EditsAreNoticed
<1>1. NoticedInv => EditsAreNoticed
  BY DEF NoticedInv, EditsAreNoticed, Due
<1> QED
  BY <1>1, ReloadInvHolds, PTL

\* The registry follows the modules, unless a pass was cut short.
THEOREM RegisteredUnlessCutShortHolds == Spec => []RegisteredUnlessCutShort
<1>1. RegisteredInv => RegisteredUnlessCutShort
  BY DEF RegisteredInv, RegisteredUnlessCutShort, Flagged
<1> QED
  BY <1>1, ReloadInvHolds, PTL

=============================================================================
