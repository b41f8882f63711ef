------------------------------ MODULE MCStartup ------------------------------
(***************************************************************************)
(* Instances for TLC of what a start of mkenv does besides building and    *)
(* running: the version check, the extraction of the agent, the lock of    *)
(* its daemon, the detection of languages, the filter of the output.  They *)
(* share no state, so each is explored on its own: `part` says which.      *)
(***************************************************************************)
EXTENDS VersionCheck, AgentDist, DaemonLock, MCDetect

VARIABLE part

allVars == <<part, checkVars, agentVars, lockVars, detectVars>>

Init ==
    /\ part \in {"check", "agent", "lock", "detect"}
    /\ CheckInit /\ AgentInit /\ LockInit
    /\ part # "check" => \A p \in Users : own[p].build = "stable"
    /\ part # "agent" => \A p \in Procs : carries[p] = CHOOSE e \in Embedded : TRUE
    /\ IF part = "detect" THEN MCDetectInit
       ELSE /\ lang = "golang" /\ project = Empty /\ results = <<>> /\ outcome = Pending
            /\ stream = <<>> /\ pos = 0 /\ held = <<>> /\ shown = <<>>

CheckPart == part = "check" /\ CheckNext /\ UNCHANGED <<part, agentVars, lockVars, detectVars>>
AgentPart == part = "agent" /\ AgentNext /\ UNCHANGED <<part, checkVars, lockVars, detectVars>>
LockPart == part = "lock" /\ LockNext /\ UNCHANGED <<part, checkVars, agentVars, detectVars>>
DetectPart == part = "detect" /\ MCDetectNext /\ UNCHANGED <<part, checkVars, agentVars, lockVars>>

Next == CheckPart \/ AgentPart \/ LockPart \/ DetectPart

Spec == Init /\ [][Next]_allVars /\ CheckFairness
=============================================================================
