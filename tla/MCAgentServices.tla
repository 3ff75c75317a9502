-------------------------- MODULE MCAgentServices ---------------------------
(***************************************************************************)
(* What carries an agent's work in and out: the app backends (chats, the   *)
(* app builder's records, social posts), the media bridge, the uploaded    *)
(* files and the event logs their pages follow.  Each is a process or a    *)
(* schema of its own, so each is explored while the others have not begun. *)
(***************************************************************************)
EXTENDS AgentChat, AppRecords, MediaBridge, UserFiles, EventLogs, TLC

\* Requests, shims and uploads are told apart by nothing but their names, nor are
\* configurations.  Only one component moves at a time, so the first three share their
\* names, and one symmetry serves them all.
MCSymmetry == Permutations(Requests \cup Shims \cup Uploads) \cup Permutations(Configs)

AppsRest == Init /\ BundleInit /\ PostInit
CarriersRest == BridgeInit /\ FilesInit

AppNext ==
    \/ BundleInit /\ PostInit /\ Next /\ UNCHANGED recordVars
    \/ Init /\ PostInit /\ BundleNext /\ UNCHANGED <<vars, postVars>>
    \/ Init /\ BundleInit /\ PostNext /\ UNCHANGED <<vars, bundleVars>>

CarrierNext ==
    \/ FilesInit /\ BridgeNext /\ UNCHANGED fileVars
    \/ BridgeInit /\ FilesNext /\ UNCHANGED bridgeVars

Quiet(p) == \A k \in Polls : poll'[p][k].at = "idle"

\* The two kinds of log share nothing, and neither do the two pages.
LogsStep ==
    /\ LogsNext
    /\ \/ /\ drawn'["network"] = 0 /\ walk'.at = "none"
          /\ \/ Quiet("chat") /\ shows' = 0
             \/ Quiet("conversation")
       \/ drawn'["agent"] = 0 /\ UNCHANGED <<view, poll>>

MCInit == AppsRest /\ CarriersRest /\ LogsInit
MCSpec ==
    /\ MCInit
    /\ [][\/ CarriersRest /\ LogsInit /\ AppNext /\ UNCHANGED <<bridgeVars, fileVars, logVars>>
          \/ AppsRest /\ LogsInit /\ CarrierNext /\ UNCHANGED <<vars, recordVars, logVars>>
          \/ AppsRest /\ CarriersRest /\ LogsStep
             /\ UNCHANGED <<vars, recordVars, bridgeVars, fileVars>>
         ]_<<vars, recordVars, bridgeVars, fileVars, logVars>>
=============================================================================
