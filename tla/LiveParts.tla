-------------------------------- MODULE LiveParts --------------------------------
(***************************************************************************)
(* Parts of the program that share no state, like those of Parts, but      *)
(* promise something that has to happen: the initial state says which of   *)
(* them takes steps, and that one is fair as its module says.              *)
(***************************************************************************)
EXTENDS StatusMap

CONSTANTS
    MaxVersions,  \* NodeListers
    Pods, Kind    \* NodeDrain

VARIABLES
    part,
    versions, store,                                \* NodeListers
    unschedulable, known, pod, drainPC, todo, quiet \* NodeDrain

Lister == INSTANCE NodeListers
Drain == INSTANCE NodeDrain WITH pc <- drainPC

ASSUME LivePartsAssumption == Lister!ListersConstants /\ Drain!DrainConstants

listerVars == <<versions, store>>
drainVars == <<unschedulable, known, pod, drainPC, todo, quiet>>
allVars == <<part, vars, listerVars, drainVars>>

PartsInit ==
    /\ part \in {"map", "listers", "drain"}
    /\ Init /\ Lister!Init /\ Drain!Init

PartsNext ==
    /\ IF part = "map" THEN Next ELSE UNCHANGED vars
    /\ IF part = "listers" THEN Lister!Next ELSE UNCHANGED listerVars
    /\ IF part = "drain" THEN Drain!Next ELSE UNCHANGED drainVars
    /\ UNCHANGED part

\* The fairness of each part, for the one that takes steps.
PartsFairness ==
    /\ \A w \in Writers : /\ WF_vars(part = "map" /\ WriterStep(w))
                          /\ WF_vars(part = "map" /\ Call(w))
    /\ \A l \in Lister!Listers :
          WF_listerVars(part = "listers" /\ Lister!Reflect(l))
    /\ WF_drainVars(part = "drain" /\ Drain!CallStep)
    /\ \A p \in Pods : WF_drainVars(part = "drain" /\ Drain!Stop(p))

PartsSpec == PartsInit /\ [][PartsNext]_allVars /\ PartsFairness

-----------------------------------------------------------------------------
(* The properties of the parts; their modules say what they mean.          *)

\* Again and again a writer that lost a race or a request gets through.
WriterGetsThrough == part = "map" => SomeWriterGetsThrough

\* The readiness of a node does not depend on the order of what is said of it.
ReadinessOfSets == Lister!ReadinessOfSets

\* A node that stays not ready comes to the list of the repair loop.
NotReadyIsListed == part = "listers" => Lister!NotReadyIsListed

\* After a quiet drain no pod was overlooked, and none slips in.
NothingSlipsIn == Drain!NothingSlipsIn

\* After a quiet drain only pods of daemon sets are left.
NothingStays == Drain!NothingStays
=============================================================================
