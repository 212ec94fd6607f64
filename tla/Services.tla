------------------------------ MODULE Services ------------------------------
(***************************************************************************)
(* What the program does around its downloads: the door a message comes    *)
(* through and the admin's panel, which share bans, settings and prompts   *)
(* and are composed in Admission; and five parts that share no state with  *)
(* them or with each other: the YouTube card, the checklist of test links, *)
(* the users' accounts, the life of a process, the dashboard's sessions.   *)
(*                                                                         *)
(* Interleaving parts without shared state adds no behaviour to any of     *)
(* them, so a behaviour of this specification runs one, chosen at the      *)
(* start, and the others stay in their initial state.                      *)
(***************************************************************************)
EXTENDS Admission, YouTubeCard, Checklist, Accounts, Lifecycle, DashAuth

VARIABLE scope

frontVars == <<panelVars, doorVars, scenario, chances>>
vars == <<scope, frontVars, cardVars, checkVars, accountVars, lifeVars, dashVars>>

Parties == {"panel", "door", "card", "checklist", "accounts", "lifecycle", "dashboard"}

(* The variables of every component have their types. *)
TypeOK ==
    /\ scope \in Parties
    /\ AdminPanelTypeOK /\ AdmissionTypeOK /\ YouTubeCardTypeOK /\ ChecklistTypeOK
    /\ AccountsTypeOK /\ LifecycleTypeOK /\ DashAuthTypeOK

(* Only the door has messages, only a process may find an old queue. *)
Init ==
    /\ scope \in Parties
    /\ AdmissionInit /\ (scope = "door" <=> Msgs # {})
    /\ AdminPanelInit(scenario.banned, scenario.prompt)
    /\ YouTubeCardInit /\ ChecklistInit /\ AccountsInit /\ DashAuthInit
    /\ LifecycleInit /\ (scope = "lifecycle" \/ \A i \in QueueIds : queued[i] = "new")

FrontNext ==
    /\ \/ scope = "panel" /\ AdminPanelNext /\ UNCHANGED <<doorVars, scenario, chances>>
       \/ scope = "door" /\ AdmissionNext
    /\ UNCHANGED <<cardVars, checkVars, accountVars, lifeVars, dashVars>>

CardNext ==
    /\ scope = "card" /\ YouTubeCardNext
    /\ UNCHANGED <<frontVars, checkVars, accountVars, lifeVars, dashVars>>

CheckNext ==
    /\ scope = "checklist" /\ ChecklistNext
    /\ UNCHANGED <<frontVars, cardVars, accountVars, lifeVars, dashVars>>

AccountNext ==
    /\ scope = "accounts" /\ AccountsNext
    /\ UNCHANGED <<frontVars, cardVars, checkVars, lifeVars, dashVars>>

LifeNext ==
    /\ scope = "lifecycle" /\ LifecycleNext
    /\ UNCHANGED <<frontVars, cardVars, checkVars, accountVars, dashVars>>

DashNext ==
    /\ scope = "dashboard" /\ DashAuthNext
    /\ UNCHANGED <<frontVars, cardVars, checkVars, accountVars, lifeVars>>

Next ==
    /\ FrontNext \/ CardNext \/ CheckNext \/ AccountNext \/ LifeNext \/ DashNext
    /\ UNCHANGED scope

(* The runner's loop ticks every 15 seconds, every run ends by its timeout,  *)
(* and time passes.                                                          *)
CheckFairness ==
    /\ WF_checkVars(scope = "checklist" /\ Aging)
    /\ \A r \in Runners : /\ WF_checkVars(scope = "checklist" /\ drainTestURLs(r))
                          /\ WF_checkVars(scope = "checklist" /\ runTestURL(r))

(* The goroutines of a process run, and the supervisor starts a process that *)
(* has ended again.                                                          *)
LifeFairness ==
    /\ WF_lifeVars(scope = "lifecycle" /\ (Supervise \/ RunFleet \/ Select))
    /\ WF_lifeVars(scope = "lifecycle" /\ (LRange \/ recoverNext \/ GetTaskInfo \/ LRem \/ Del))
    /\ WF_lifeVars(scope = "lifecycle" /\ runPart("worker"))

Spec == Init /\ [][Next]_vars /\ CheckFairness /\ LifeFairness
=============================================================================
