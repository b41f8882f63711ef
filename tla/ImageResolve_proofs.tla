------------------------- MODULE ImageResolve_proofs -------------------------
(***************************************************************************)
(* Safety of the image cache for every set of processes, projects and      *)
(* Dockerfiles, and for every clock.                                       *)
(***************************************************************************)
EXTENDS ImageResolve, TLAPS

(* Program points at which a process holds a claim of its Dockerfile. *)
Claimed == {"claimRc", "build", "stopRc", "delRcTag", "stopDf", "delDfTag", "setRc", "setDf"}

(* What a process knows about its own lookups: an image it has found was    *)
(* built, it only follows the cache without --rebuild, its tag is the one   *)
(* of the Dockerfile it has planned, and it publishes what it has built.    *)
ProcInv ==
    \A p \in Procs :
        /\ IsImage(found[p]) => docker[found[p]] # "never"
        /\ pc[p] = "link" => IsImage(found[p])
        /\ p \in force => pc[p] \notin {"checkRc", "checkDf", "link"}
        /\ pc[p] \in Claimed => tag[p] # None /\ tag[p].df = df[p]
        /\ pc[p] \in {"setRc", "setDf"} => docker[Image(project[p], df[p])] # "never"

IInv == TypeOK /\ CacheSound /\ ProcInv /\ ResultBuilt


(* Every step keeps the variables in their types. *)
LEMMA TypeStep == TypeOK /\ ProcInv /\ [Next]_vars => TypeOK'
<1> SUFFICES ASSUME TypeOK, ProcInv, [Next]_vars PROVE TypeOK'  OBVIOUS
<1> USE KeysAssumption, TicksAssumption DEF TypeOK, Values, Images, Tags, Keys, None, storeVars, procVars, IsImage,
        IsBuilding, ProcInv
<1>1. ASSUME NEW q \in Procs, GetByProject(q) PROVE TypeOK'
  BY <1>1 DEF GetByProject, Goto, Got, Keep
<1>2. ASSUME NEW q \in Procs, CheckRc(q) PROVE TypeOK'
  BY <1>2 DEF CheckRc, Goto, Usable
<1>3. ASSUME NEW q \in Procs, DeleteRc(q) PROVE TypeOK'
  BY <1>3 DEF DeleteRc, Goto, Put
<1>4. ASSUME NEW q \in Procs, Plan(q) PROVE TypeOK'
  BY <1>4 DEF Plan, Goto
<1>5. ASSUME NEW q \in Procs, PlanFails(q) PROVE TypeOK'
  BY <1>5 DEF PlanFails, Goto
<1>6. ASSUME NEW q \in Procs, GetByDockerfile(q) PROVE TypeOK'
  BY <1>6 DEF GetByDockerfile, Goto, Got, Keep
<1>7. ASSUME NEW q \in Procs, CheckDf(q) PROVE TypeOK'
  BY <1>7, SMTT(60) DEF CheckDf, Goto, Usable
<1>8. ASSUME NEW q \in Procs, Link(q) PROVE TypeOK'
  BY <1>8, SMTT(60) DEF Link, Goto, Put
<1>9. ASSUME NEW q \in Procs, DeleteDf(q) PROVE TypeOK'
  BY <1>9 DEF DeleteDf, Goto, Put
<1>10. ASSUME NEW q \in Procs, Wait(q) PROVE TypeOK'
  BY <1>10 DEF Wait, Goto
<1>11. ASSUME NEW q \in Procs, ClaimDf(q) PROVE TypeOK'
  <2>1. tag' \in [Procs -> Tags \cup {None}]
    <3>1. Building(now, df[q]) \in Tags
      BY DEF Building
    <3>2. QED
      BY <1>11, <3>1 DEF ClaimDf
  <2>2. kv' \in [Keys -> Values]
    BY <1>11, <2>1 DEF ClaimDf, Put
  <2>3. QED
    BY <1>11, <2>1, <2>2 DEF ClaimDf, Goto
<1>12. ASSUME NEW q \in Procs, ClaimRc(q) PROVE TypeOK'
  BY <1>12, SMTT(60) DEF ClaimRc, Goto, Put
<1>13. ASSUME NEW q \in Procs, BuildImage(q) PROVE TypeOK'
  BY <1>13 DEF BuildImage, Goto, Image
<1>14. ASSUME NEW q \in Procs, BuildFails(q) PROVE TypeOK'
  BY <1>14 DEF BuildFails, Goto
<1>15. ASSUME NEW q \in Procs, StopRc(q) PROVE TypeOK'
  BY <1>15 DEF StopRc, Goto, Got
<1>16. ASSUME NEW q \in Procs, DeleteRcTag(q) PROVE TypeOK'
  BY <1>16 DEF DeleteRcTag, Goto, Put
<1>17. ASSUME NEW q \in Procs, StopDf(q) PROVE TypeOK'
  BY <1>17 DEF StopDf, Goto, Got
<1>18. ASSUME NEW q \in Procs, DeleteDfTag(q) PROVE TypeOK'
  BY <1>18 DEF DeleteDfTag, Goto, Put
<1>19. ASSUME NEW q \in Procs, SetRc(q) PROVE TypeOK'
  BY <1>19 DEF SetRc, Goto, Put, Built, Image
<1>20. ASSUME NEW q \in Procs, SetDf(q) PROVE TypeOK'
  <2>1. Built(q) \in Images
    BY DEF Built, Image
  <2>2. QED
    BY <1>20, <2>1 DEF SetDf, Goto, Put
<1>21. ASSUME NEW q \in Procs, Crash(q) PROVE TypeOK'
  BY <1>21 DEF Crash, Running
<1>22. CASE Tick
  BY <1>22 DEF Tick
<1>23. ASSUME NEW i \in Images, RemoveImage(i) PROVE TypeOK'
  BY <1>23 DEF RemoveImage
<1>24. ASSUME NEW r \in Projects, EditProject(r) PROVE TypeOK'
  BY <1>24 DEF EditProject
<1>25. CASE UNCHANGED vars
  BY <1>25 DEF vars
<1>26. QED
  BY <1>1, <1>2, <1>3, <1>4, <1>5, <1>6, <1>7, <1>8, <1>9, <1>10, <1>11, <1>12,
    <1>13, <1>14, <1>15, <1>16, <1>17, <1>18, <1>19, <1>20, <1>21, <1>22, <1>23,
    <1>24, <1>25
  DEF Next, Step

(* No claim, release, expiry or publication makes an entry of the store wrong. *)
LEMMA CacheStep == TypeOK /\ CacheSound /\ ProcInv /\ [Next]_vars => CacheSound'
<1> SUFFICES ASSUME TypeOK, CacheSound, ProcInv, [Next]_vars PROVE CacheSound'  OBVIOUS
<1> USE KeysAssumption, TicksAssumption DEF CacheSound, ProcInv, Claimed, TypeOK, Values, Images, Tags, Keys, None,
        storeVars, procVars, IsImage, IsBuilding
<1>1. ASSUME NEW q \in Procs, GetByProject(q) PROVE CacheSound'
  BY <1>1 DEF GetByProject, Goto, Got, Keep
<1>2. ASSUME NEW q \in Procs, CheckRc(q) PROVE CacheSound'
  BY <1>2 DEF CheckRc, Goto, Usable
<1>3. ASSUME NEW q \in Procs, DeleteRc(q) PROVE CacheSound'
  BY <1>3, SMTT(60) DEF DeleteRc, Goto, Put
<1>4. ASSUME NEW q \in Procs, Plan(q) PROVE CacheSound'
  BY <1>4 DEF Plan, Goto
<1>5. ASSUME NEW q \in Procs, PlanFails(q) PROVE CacheSound'
  BY <1>5 DEF PlanFails, Goto
<1>6. ASSUME NEW q \in Procs, GetByDockerfile(q) PROVE CacheSound'
  BY <1>6 DEF GetByDockerfile, Goto, Got, Keep
<1>7. ASSUME NEW q \in Procs, CheckDf(q) PROVE CacheSound'
  BY <1>7 DEF CheckDf, Goto, Usable
<1>8. ASSUME NEW q \in Procs, Link(q) PROVE CacheSound'
  BY <1>8 DEF Link, Goto, Put
<1>9. ASSUME NEW q \in Procs, DeleteDf(q) PROVE CacheSound'
  BY <1>9, SMTT(60) DEF DeleteDf, Goto, Put
<1>10. ASSUME NEW q \in Procs, Wait(q) PROVE CacheSound'
  BY <1>10 DEF Wait, Goto
<1>11. ASSUME NEW q \in Procs, ClaimDf(q) PROVE CacheSound'
  BY <1>11 DEF ClaimDf, Goto, Put, Building
<1>12. ASSUME NEW q \in Procs, ClaimRc(q) PROVE CacheSound'
  BY <1>12, SMTT(60) DEF ClaimRc, Goto, Put
<1>13. ASSUME NEW q \in Procs, BuildImage(q) PROVE CacheSound'
  BY <1>13 DEF BuildImage, Goto, Image
<1>14. ASSUME NEW q \in Procs, BuildFails(q) PROVE CacheSound'
  BY <1>14 DEF BuildFails, Goto
<1>15. ASSUME NEW q \in Procs, StopRc(q) PROVE CacheSound'
  BY <1>15 DEF StopRc, Goto, Got
<1>16. ASSUME NEW q \in Procs, DeleteRcTag(q) PROVE CacheSound'
  BY <1>16 DEF DeleteRcTag, Goto, Put
<1>17. ASSUME NEW q \in Procs, StopDf(q) PROVE CacheSound'
  BY <1>17 DEF StopDf, Goto, Got
<1>18. ASSUME NEW q \in Procs, DeleteDfTag(q) PROVE CacheSound'
  BY <1>18 DEF DeleteDfTag, Goto, Put
<1>19. ASSUME NEW q \in Procs, SetRc(q) PROVE CacheSound'
  BY <1>19, SMTT(60) DEF SetRc, Goto, Put, Built, Image
<1>20. ASSUME NEW q \in Procs, SetDf(q) PROVE CacheSound'
  BY <1>20, SMTT(60) DEF SetDf, Goto, Put, Built, Image
<1>21. ASSUME NEW q \in Procs, Crash(q) PROVE CacheSound'
  BY <1>21 DEF Crash, Running
<1>22. CASE Tick
  BY <1>22 DEF Tick
<1>23. ASSUME NEW i \in Images, RemoveImage(i) PROVE CacheSound'
  BY <1>23 DEF RemoveImage
<1>24. ASSUME NEW r \in Projects, EditProject(r) PROVE CacheSound'
  BY <1>24 DEF EditProject
<1>25. CASE UNCHANGED vars
  BY <1>25 DEF vars
<1>26. QED
  BY <1>1, <1>2, <1>3, <1>4, <1>5, <1>6, <1>7, <1>8, <1>9, <1>10, <1>11, <1>12,
    <1>13, <1>14, <1>15, <1>16, <1>17, <1>18, <1>19, <1>20, <1>21, <1>22, <1>23,
    <1>24, <1>25
  DEF Next, Step

(* No step of one process falsifies what another one relies on. *)
LEMMA ProcStep == TypeOK /\ CacheSound /\ ProcInv /\ [Next]_vars => ProcInv'
<1> SUFFICES ASSUME TypeOK, CacheSound, ProcInv, [Next]_vars PROVE ProcInv'  OBVIOUS
<1> USE KeysAssumption, TicksAssumption DEF CacheSound, ProcInv, Claimed, Image, Building, TypeOK, Values, Images, Tags,
        Keys, None, storeVars, procVars, IsImage, IsBuilding
<1>1. ASSUME NEW q \in Procs, GetByProject(q) PROVE ProcInv'
  BY <1>1 DEF GetByProject, Goto, Got, Keep
<1>2. ASSUME NEW q \in Procs, CheckRc(q) PROVE ProcInv'
  BY <1>2 DEF CheckRc, Goto, Usable
<1>3. ASSUME NEW q \in Procs, DeleteRc(q) PROVE ProcInv'
  BY <1>3 DEF DeleteRc, Goto, Put
<1>4. ASSUME NEW q \in Procs, Plan(q) PROVE ProcInv'
  BY <1>4 DEF Plan, Goto
<1>5. ASSUME NEW q \in Procs, PlanFails(q) PROVE ProcInv'
  BY <1>5 DEF PlanFails, Goto
<1>6. ASSUME NEW q \in Procs, GetByDockerfile(q) PROVE ProcInv'
  BY <1>6 DEF GetByDockerfile, Goto, Got, Keep
<1>7. ASSUME NEW q \in Procs, CheckDf(q) PROVE ProcInv'
  BY <1>7 DEF CheckDf, Goto, Usable
<1>8. ASSUME NEW q \in Procs, Link(q) PROVE ProcInv'
  BY <1>8 DEF Link, Goto, Put
<1>9. ASSUME NEW q \in Procs, DeleteDf(q) PROVE ProcInv'
  BY <1>9 DEF DeleteDf, Goto, Put
<1>10. ASSUME NEW q \in Procs, Wait(q) PROVE ProcInv'
  BY <1>10 DEF Wait, Goto
<1>11. ASSUME NEW q \in Procs, ClaimDf(q) PROVE ProcInv'
  BY <1>11 DEF ClaimDf, Goto, Put, Building
<1>12. ASSUME NEW q \in Procs, ClaimRc(q) PROVE ProcInv'
  BY <1>12 DEF ClaimRc, Goto, Put
<1>13. ASSUME NEW q \in Procs, BuildImage(q) PROVE ProcInv'
  <2> DEFINE img == Image(project[q], df[q])
  <2>1. img \in Images
    BY DEF Image
  <2>2. \A i \in Images : docker'[i] = IF i = img THEN "ok" ELSE docker[i]
    BY <1>13, <2>1, ZenonT(60) DEF BuildImage
  <2>3. \A p \in Procs : IsImage(found[p]) => found[p] \in Images
    OBVIOUS
  <2>4. \A p \in Procs : Image(project[p], df[p]) \in Images
    BY DEF Image
  <2> HIDE DEF img
  <2>5. QED
    BY <1>13, <2>2, <2>3, <2>4 DEF BuildImage, Goto, img
<1>14. ASSUME NEW q \in Procs, BuildFails(q) PROVE ProcInv'
  BY <1>14 DEF BuildFails, Goto
<1>15. ASSUME NEW q \in Procs, StopRc(q) PROVE ProcInv'
  BY <1>15 DEF StopRc, Goto, Got
<1>16. ASSUME NEW q \in Procs, DeleteRcTag(q) PROVE ProcInv'
  BY <1>16 DEF DeleteRcTag, Goto, Put
<1>17. ASSUME NEW q \in Procs, StopDf(q) PROVE ProcInv'
  BY <1>17 DEF StopDf, Goto, Got
<1>18. ASSUME NEW q \in Procs, DeleteDfTag(q) PROVE ProcInv'
  BY <1>18 DEF DeleteDfTag, Goto, Put
<1>19. ASSUME NEW q \in Procs, SetRc(q) PROVE ProcInv'
  BY <1>19 DEF SetRc, Goto, Put, Built, Image
<1>20. ASSUME NEW q \in Procs, SetDf(q) PROVE ProcInv'
  BY <1>20 DEF SetDf, Goto, Put, Built, Image
<1>21. ASSUME NEW q \in Procs, Crash(q) PROVE ProcInv'
  BY <1>21 DEF Crash, Running
<1>22. CASE Tick
  BY <1>22 DEF Tick
<1>23. ASSUME NEW i \in Images, RemoveImage(i) PROVE ProcInv'
  BY <1>23 DEF RemoveImage
<1>24. ASSUME NEW r \in Projects, EditProject(r) PROVE ProcInv'
  BY <1>24 DEF EditProject
<1>25. CASE UNCHANGED vars
  BY <1>25 DEF vars
<1>26. QED
  BY <1>1, <1>2, <1>3, <1>4, <1>5, <1>6, <1>7, <1>8, <1>9, <1>10, <1>11, <1>12,
    <1>13, <1>14, <1>15, <1>16, <1>17, <1>18, <1>19, <1>20, <1>21, <1>22, <1>23,
    <1>24, <1>25
  DEF Next, Step

(* The result is an image, and stays one that was built. *)
LEMMA ResultStep == TypeOK /\ ProcInv /\ ResultBuilt /\ [Next]_vars => ResultBuilt'
<1> SUFFICES ASSUME TypeOK, ProcInv, ResultBuilt, [Next]_vars PROVE ResultBuilt'  OBVIOUS
<1> USE KeysAssumption, TicksAssumption DEF ResultBuilt, ProcInv, Claimed, Image, Building, TypeOK, Values, Images, Tags,
        Keys, None, storeVars, procVars, IsImage, IsBuilding
<1>1. ASSUME NEW q \in Procs, GetByProject(q) PROVE ResultBuilt'
  BY <1>1 DEF GetByProject, Goto, Got, Keep
<1>2. ASSUME NEW q \in Procs, CheckRc(q) PROVE ResultBuilt'
  <2>1. \A p \in Procs \ {q} : pc'[p] = pc[p] /\ result'[p] = result[p]
    BY <1>2 DEF CheckRc, Goto
  <2>2. UNCHANGED <<docker, force, tag, project>>
    BY <1>2 DEF CheckRc, storeVars
  <2>3. pc'[q] = "done" => IsImage(found[q]) /\ docker[found[q]] = "ok" /\ result'[q] = found[q]
    BY <1>2 DEF CheckRc, Goto, Usable
  <2>4. q \notin force
    BY <1>2 DEF CheckRc, Goto
  <2>5. QED
    BY <2>1, <2>2, <2>3, <2>4
<1>3. ASSUME NEW q \in Procs, DeleteRc(q) PROVE ResultBuilt'
  BY <1>3 DEF DeleteRc, Goto, Put
<1>4. ASSUME NEW q \in Procs, Plan(q) PROVE ResultBuilt'
  BY <1>4 DEF Plan, Goto
<1>5. ASSUME NEW q \in Procs, PlanFails(q) PROVE ResultBuilt'
  BY <1>5 DEF PlanFails, Goto
<1>6. ASSUME NEW q \in Procs, GetByDockerfile(q) PROVE ResultBuilt'
  BY <1>6 DEF GetByDockerfile, Goto, Got, Keep
<1>7. ASSUME NEW q \in Procs, CheckDf(q) PROVE ResultBuilt'
  BY <1>7 DEF CheckDf, Goto, Usable
<1>8. ASSUME NEW q \in Procs, Link(q) PROVE ResultBuilt'
  BY <1>8, ZenonT(60) DEF Link, Goto, Put
<1>9. ASSUME NEW q \in Procs, DeleteDf(q) PROVE ResultBuilt'
  BY <1>9 DEF DeleteDf, Goto, Put
<1>10. ASSUME NEW q \in Procs, Wait(q) PROVE ResultBuilt'
  BY <1>10 DEF Wait, Goto
<1>11. ASSUME NEW q \in Procs, ClaimDf(q) PROVE ResultBuilt'
  BY <1>11 DEF ClaimDf, Goto, Put, Building
<1>12. ASSUME NEW q \in Procs, ClaimRc(q) PROVE ResultBuilt'
  BY <1>12 DEF ClaimRc, Goto, Put
<1>13. ASSUME NEW q \in Procs, BuildImage(q) PROVE ResultBuilt'
  BY <1>13 DEF BuildImage, Goto, Image
<1>14. ASSUME NEW q \in Procs, BuildFails(q) PROVE ResultBuilt'
  BY <1>14 DEF BuildFails, Goto
<1>15. ASSUME NEW q \in Procs, StopRc(q) PROVE ResultBuilt'
  BY <1>15 DEF StopRc, Goto, Got
<1>16. ASSUME NEW q \in Procs, DeleteRcTag(q) PROVE ResultBuilt'
  BY <1>16 DEF DeleteRcTag, Goto, Put
<1>17. ASSUME NEW q \in Procs, StopDf(q) PROVE ResultBuilt'
  BY <1>17 DEF StopDf, Goto, Got
<1>18. ASSUME NEW q \in Procs, DeleteDfTag(q) PROVE ResultBuilt'
  BY <1>18 DEF DeleteDfTag, Goto, Put
<1>19. ASSUME NEW q \in Procs, SetRc(q) PROVE ResultBuilt'
  BY <1>19 DEF SetRc, Goto, Put, Built, Image
<1>20. ASSUME NEW q \in Procs, SetDf(q) PROVE ResultBuilt'
  BY <1>20 DEF SetDf, Goto, Put, Built, Image
<1>21. ASSUME NEW q \in Procs, Crash(q) PROVE ResultBuilt'
  BY <1>21 DEF Crash, Running
<1>22. CASE Tick
  BY <1>22 DEF Tick
<1>23. ASSUME NEW i \in Images, RemoveImage(i) PROVE ResultBuilt'
  BY <1>23 DEF RemoveImage
<1>24. ASSUME NEW r \in Projects, EditProject(r) PROVE ResultBuilt'
  BY <1>24 DEF EditProject
<1>25. CASE UNCHANGED vars
  BY <1>25 DEF vars
<1>26. QED
  BY <1>1, <1>2, <1>3, <1>4, <1>5, <1>6, <1>7, <1>8, <1>9, <1>10, <1>11, <1>12,
    <1>13, <1>14, <1>15, <1>16, <1>17, <1>18, <1>19, <1>20, <1>21, <1>22, <1>23,
    <1>24, <1>25
  DEF Next, Step

(* The initial states, with or without what an earlier mkenv left. *)
LEMMA InitIInv == Init => IInv
<1> SUFFICES ASSUME Init PROVE IInv  OBVIOUS
<1> USE KeysAssumption, TicksAssumption DEF Init, Values, Images, Tags, Keys, None, IsImage
<1>1. TypeOK
  <2>1. kv \in [Keys -> Values]
    OBVIOUS
  <2>2. docker \in [Images -> {"never", "removed", "old", "ok"}]
    OBVIOUS
  <2>3. now \in 0..Horizon
    OBVIOUS
  <2>4. QED
    BY <2>1, <2>2, <2>3 DEF TypeOK
<1>2. CacheSound
  <2>1. CASE kv = [k \in Keys |-> None] /\ docker = [i \in Images |-> "never"]
    BY <2>1 DEF CacheSound
  <2>2. ASSUME NEW i \in Images, NEW s \in {"old", "ok"},
               docker = [j \in Images |-> IF j = i THEN s ELSE "never"],
               kv = [k \in Keys |-> IF k \in {i.rc, i.df} THEN i ELSE None]
        PROVE  CacheSound
    <3>1. \A k \in Keys : kv[k] = i \/ kv[k] = None
      BY <2>2
    <3>2. \A d \in Dockerfiles : kv[d] # None => kv[d] = i /\ d = i.df
      BY <2>2
    <3>3. docker[i] # "never"
      BY <2>2
    <3>4. QED
      BY <3>1, <3>2, <3>3 DEF CacheSound
  <2>3. QED
    <3> HIDE DEF Values, Images, Tags, Keys, None, IsImage
    <3>1. QED
      BY <2>1, <2>2, Zenon
<1>3. ProcInv /\ ResultBuilt
  BY DEF ProcInv, ResultBuilt, Claimed
<1>4. QED
  BY <1>1, <1>2, <1>3 DEF IInv

(* IInv is inductive. *)
THEOREM Inductive == Spec => []IInv
<1>1. IInv /\ [Next]_vars => IInv'
  BY TypeStep, CacheStep, ProcStep, ResultStep DEF IInv
<1>2. QED
  BY InitIInv, <1>1, PTL DEF Spec

(* Type correctness of ResolveImageID, its store and its claims. *)
THEOREM TypeCorrect == Spec => []TypeOK
<1>1. IInv => TypeOK
  BY DEF IInv
<1>2. QED
  BY Inductive, <1>1, PTL

(* However many mkenv processes race on the store, an image it names was    *)
(* built, and built from the Dockerfile it is filed under.                  *)
THEOREM CacheNeverLies == Spec => []CacheSound
<1>1. IInv => CacheSound
  BY DEF IInv
<1>2. QED
  BY Inductive, <1>1, PTL

(* ResolveImageID returns an image that was built, with --rebuild its own. *)
THEOREM ResultIsBuilt == Spec => []ResultBuilt
<1>1. IInv => ResultBuilt
  BY DEF IInv
<1>2. QED
  BY Inductive, <1>1, PTL
=============================================================================
