---------------------------- MODULE ToolConnections ----------------------------
(***************************************************************************)
(* One OAuth tool's stored connection: tool calls load it, refresh its     *)
(* access token at the provider, check whose account it is and act, while  *)
(* the operator connects and disconnects. Every load, save and clear is a  *)
(* transaction of its own; between them stand round trips to the provider. *)
(* tool is the package: x (twitter/), google (Gmail and Calendar),         *)
(* instagram or linkedin.                                                  *)
(*                                                                         *)
(* A secret is named by the grant it came from and the count of refreshes  *)
(* since. X spends a refresh token when it is used; Google's stays; an     *)
(* Instagram token is refreshed by itself; LinkedIn has none.              *)
(***************************************************************************)
EXTENDS Naturals

CONSTANTS
    Tools,         \* the packages, among "x", "google", "instagram", "linkedin"
    Accounts,      \* the operator's accounts at the provider
    Grants,        \* consents the operator may give: bounds the connects
    MaxRefreshes,  \* bound on the refreshes of one grant
    Calls          \* concurrent tool calls

ASSUME ToolsAssumption == Tools \subseteq {"x", "google", "instagram", "linkedin"}
ASSUME RefreshesAssumption == MaxRefreshes \in Nat

None == [none |-> TRUE]

ASSUME NoneAssumption == None \notin Accounts \cup Grants

Ages == {"fresh", "late", "expired"}    \* "late": inside Instagram's refresh threshold
Versions == 0..MaxRefreshes
Credentials == [account : Accounts, grant : Grants, n : Versions, refresh : Grants \cup {None}]

VARIABLES
    tool,      \* the tool package
    row,       \* the tool_credentials row, or None
    owner,     \* provider: the account that gave each grant, or None
    revoked,   \* provider: grants a disconnect has withdrawn
    issued,    \* provider: refreshes of each grant
    age,       \* of each token, by grant and count
    toolCall,      \* per call: where it stands and what it has read
    operator,  \* the operator's connect or disconnect
    reviewed   \* the account named in the approval the operator decided, or None

provider == <<owner, revoked, issued>>
connectionVars == <<tool, row, owner, revoked, issued, age, toolCall, operator, reviewed>>

Idle == [at |-> "idle", kind |-> "read", loaded |-> None, got |-> None, token |-> None,
         who |-> None, approved |-> None]
Rest == [at |-> "rest", grant |-> None, existing |-> None, refresh |-> None]

ConnectionsTypeOK ==
    /\ tool \in Tools
    /\ row \in Credentials \cup {None}
    /\ owner \in [Grants -> Accounts \cup {None}]
    /\ revoked \subseteq Grants
    /\ issued \in [Grants -> Versions]
    /\ age \in [Grants \X Versions -> Ages]
    /\ toolCall \in [Calls -> [
           at : {"idle", "load", "refresh", "compare", "save", "compare_clear", "clear",
                 "identify", "lookup", "touch", "decide", "act"},
           kind : {"read", "propose", "approved"},
           loaded : Credentials \cup {None},
           got : Credentials \cup {None},
           token : Grants \cup {None},
           who : Accounts \cup {None},
           approved : Accounts \cup {None}]]
    /\ operator \in [
           at : {"rest", "exchanged", "store", "revoke", "remove"},
           grant : Grants \cup {None},
           existing : Credentials \cup {None},
           refresh : Grants \cup {None}]
    /\ reviewed \in Accounts \cup {None}

ConnectionsInit ==
    /\ tool \in Tools
    /\ row = None
    /\ owner = [g \in Grants |-> None]
    /\ revoked = {}
    /\ issued = [g \in Grants |-> 0]
    /\ age = [t \in Grants \X Versions |-> "fresh"]
    /\ toolCall = [c \in Calls |-> Idle]
    /\ operator = Rest
    /\ reviewed = None

-----------------------------------------------------------------------------
(* The secret's life at the provider. *)

AgeOf(credential) == age[<<credential.grant, credential.n>>]

\* Time passes over the stored token.
TimePasses ==
    /\ row # None
    /\ AgeOf(row) # "expired"
    /\ age' = [age EXCEPT ![<<row.grant, row.n>>] =
                  IF @ = "fresh" /\ tool = "instagram" THEN "late" ELSE "expired"]
    /\ UNCHANGED <<tool, row, provider, toolCall, operator, reviewed>>

\* The provider takes the refresh token (Instagram: the token) it is shown.
Accepts(credential) ==
    /\ (IF tool = "google" THEN credential.refresh ELSE credential.grant) \notin revoked
    /\ tool = "x" => credential.n = issued[credential.grant]

-----------------------------------------------------------------------------
(* access_token: the token a call uses, refreshed when it has aged. *)

XPlan(credential) == IF AgeOf(credential) = "expired" THEN "refresh" ELSE "use"

GooglePlan(credential) ==
    IF AgeOf(credential) = "fresh" THEN "use"
    ELSE IF credential.refresh = None THEN "clear" ELSE "refresh"

InstagramPlan(credential) ==
    CASE AgeOf(credential) = "fresh" -> "use"
      [] AgeOf(credential) = "late" -> "refresh"
      [] OTHER -> "compare_clear"

LinkedInPlan(credential) ==
    IF AgeOf(credential) = "expired" THEN "compare_clear" ELSE "use"

Plan(credential) ==
    CASE tool = "x" -> XPlan(credential)
      [] tool = "google" -> GooglePlan(credential)
      [] tool = "instagram" -> InstagramPlan(credential)
      [] OTHER -> LinkedInPlan(credential)

Ends(c) == toolCall' = [toolCall EXCEPT ![c] = Idle]
CallGoes(c, place) == toolCall' = [toolCall EXCEPT ![c].at = place]

\* With its token, a read makes its request and ends; a proposal or an approved
\* action first asks the provider whose token it is.
Uses(c, credential) ==
    IF toolCall[c].kind = "read"
    THEN Ends(c)
    ELSE toolCall' = [toolCall EXCEPT ![c].token = credential.grant, ![c].got = None,
                              ![c].loaded = None, ![c].at = "identify"]

Start(c, kind) ==
    /\ toolCall[c].at = "idle"
    /\ kind = "approved" => reviewed # None
    /\ toolCall' = [toolCall EXCEPT ![c].at = "load", ![c].kind = kind,
                            ![c].approved = IF kind = "approved" THEN reviewed ELSE None]
    /\ UNCHANGED <<tool, row, provider, age, operator, reviewed>>

Load(c) ==
    /\ toolCall[c].at = "load"
    /\ \/ row = None /\ Ends(c)
       \/ /\ row # None
          /\ LET plan == Plan(row)
             IN  IF plan = "use"
                 THEN Uses(c, row)
                 ELSE toolCall' = [toolCall EXCEPT ![c].loaded = row, ![c].at = plan]
    /\ UNCHANGED <<tool, row, provider, age, operator, reviewed>>

\* The payload of a refresh: Google keeps the refresh token it has; X returns
\* the next one with the access token.
Refreshed(credential) == [credential EXCEPT !.n = issued[credential.grant] + 1]

RefreshAnswered(c) ==
    LET loaded == toolCall[c].loaded
    IN  /\ toolCall[c].at = "refresh"
        /\ Accepts(loaded)
        /\ issued[loaded.grant] < MaxRefreshes
        /\ issued' = [issued EXCEPT ![loaded.grant] = @ + 1]
        /\ toolCall' = [toolCall EXCEPT ![c].got = Refreshed(loaded),
                                ![c].at = IF tool = "google" THEN "save" ELSE "compare"]
        /\ UNCHANGED <<tool, row, owner, revoked, age, operator, reviewed>>

\* The round trip fails, before or after the provider handled it. Instagram's
\* refresh is best effort: the call goes on with the token it has.
RefreshLost(c) ==
    LET loaded == toolCall[c].loaded
    IN  /\ toolCall[c].at = "refresh"
        /\ \/ UNCHANGED issued
           \/ /\ Accepts(loaded)
              /\ issued[loaded.grant] < MaxRefreshes
              /\ issued' = [issued EXCEPT ![loaded.grant] = @ + 1]
        /\ IF tool = "instagram" THEN Uses(c, loaded) ELSE Ends(c)
        /\ UNCHANGED <<tool, row, owner, revoked, age, operator, reviewed>>

\* invalid_grant: X clears what it loaded, Google clears whatever is stored.
RefreshRefused(c) ==
    /\ toolCall[c].at = "refresh"
    /\ ~ Accepts(toolCall[c].loaded)
    /\ CASE tool = "x" -> CallGoes(c, "compare_clear")
         [] tool = "google" -> CallGoes(c, "clear")
         [] OTHER -> Uses(c, toolCall[c].loaded)
    /\ UNCHANGED <<tool, row, provider, age, operator, reviewed>>

\* save_if_still_connected: one transaction compares, the next one saves.
Compare(c) ==
    /\ toolCall[c].at = "compare"
    /\ IF row = toolCall[c].loaded THEN CallGoes(c, "save") ELSE Ends(c)
    /\ UNCHANGED <<tool, row, provider, age, operator, reviewed>>

Save(c) ==
    /\ toolCall[c].at = "save"
    /\ row' = toolCall[c].got
    /\ Uses(c, toolCall[c].got)
    /\ UNCHANGED <<tool, provider, age, operator, reviewed>>

\* clear_if_still_loaded: one transaction compares, the next one deletes.
CompareClear(c) ==
    /\ toolCall[c].at = "compare_clear"
    /\ IF row = toolCall[c].loaded THEN CallGoes(c, "clear") ELSE Ends(c)
    /\ UNCHANGED <<tool, row, provider, age, operator, reviewed>>

Clear(c) ==
    /\ toolCall[c].at = "clear"
    /\ row' = None
    /\ Ends(c)
    /\ UNCHANGED <<tool, provider, age, operator, reviewed>>

-----------------------------------------------------------------------------
(* refresh_identity, and what the call is for. *)

Identify(c) ==
    /\ toolCall[c].at = "identify"
    /\ IF row = None
       THEN Ends(c)
       ELSE toolCall' = [toolCall EXCEPT ![c].loaded = row, ![c].at = "lookup"]
    /\ UNCHANGED <<tool, row, provider, age, operator, reviewed>>

\* A wrong reading: the stored account is taken for the token's, with no lookup.
LookupStored(c) ==
    /\ toolCall[c].at = "lookup"
    /\ toolCall' = [toolCall EXCEPT ![c].who = toolCall[c].loaded.account, ![c].loaded = None,
                            ![c].at = "decide"]
    /\ UNCHANGED <<tool, row, provider, age, operator, reviewed>>

\* The provider names the account of the token in hand; the row was loaded a
\* second time and may be another connection's by now.
Lookup(c) ==
    LET who == owner[toolCall[c].token]
    IN  /\ toolCall[c].at = "lookup"
        /\ toolCall[c].token \notin revoked
        /\ IF who = toolCall[c].loaded.account
           THEN toolCall' = [toolCall EXCEPT ![c].who = who, ![c].loaded = IF tool = "google" THEN @ ELSE None,
                                     ![c].at = IF tool = "google" THEN "touch" ELSE "decide"]
           ELSE CASE tool = "x" -> CallGoes(c, "compare_clear")
                  [] tool = "google" -> CallGoes(c, "clear")
                  [] OTHER -> Ends(c)
        /\ UNCHANGED <<tool, row, provider, age, operator, reviewed>>

LookupFails(c) ==
    /\ toolCall[c].at = "lookup"
    /\ Ends(c)
    /\ UNCHANGED <<tool, row, provider, age, operator, reviewed>>

\* Google records when it checked, saving the whole credential it loaded.
Touch(c) ==
    /\ toolCall[c].at = "touch"
    /\ row' = toolCall[c].loaded
    /\ toolCall' = [toolCall EXCEPT ![c].loaded = None, ![c].at = "decide"]
    /\ UNCHANGED <<tool, provider, age, operator, reviewed>>

\* A proposal names the account in its approval; the operator reviews it. An
\* approved action goes on only for the account that was reviewed.
ProposeCall(c) ==
    /\ toolCall[c].at = "decide"
    /\ toolCall[c].kind = "propose"
    /\ reviewed' = toolCall[c].who
    /\ Ends(c)
    /\ UNCHANGED <<tool, row, provider, age, operator>>

ExecuteApproved(c) ==
    /\ toolCall[c].at = "decide"
    /\ toolCall[c].kind = "approved"
    /\ IF toolCall[c].approved = toolCall[c].who THEN CallGoes(c, "act") ELSE Ends(c)
    /\ UNCHANGED <<tool, row, provider, age, operator, reviewed>>

\* The approved request with the token; whether the provider honours it is not told apart.
Act(c) ==
    /\ toolCall[c].at = "act"
    /\ Ends(c)
    /\ UNCHANGED <<tool, row, provider, age, operator, reviewed>>

-----------------------------------------------------------------------------
(* The operator. *)

\* complete_connect up to the identity of the new grant; Google may send no
\* refresh token with it.
Exchange(g, account) ==
    /\ operator.at = "rest"
    /\ owner[g] = None
    /\ owner' = [owner EXCEPT ![g] = account]
    /\ \E refresh \in (CASE tool = "x" -> {g}
                         [] tool = "google" -> {g, None}
                         [] OTHER -> {None}) :
           operator' = [operator EXCEPT !.at = "exchanged", !.grant = g, !.refresh = refresh]
    /\ UNCHANGED <<tool, row, revoked, issued, age, toolCall, reviewed>>

\* Google's fallback refresh token: the stored one, of the same account.
Fallback(account) ==
    IF row # None /\ row.account = account THEN row.refresh ELSE None

\* existing = load(): with no refresh token at all, Google's connect fails.
ConnectLoad ==
    LET refresh == IF operator.refresh = None /\ tool = "google"
                   THEN Fallback(owner[operator.grant])
                   ELSE operator.refresh
    IN  /\ operator.at = "exchanged"
        /\ operator' = IF tool = "google" /\ refresh = None
                       THEN Rest
                       ELSE [operator EXCEPT !.at = "store", !.refresh = refresh]
        /\ UNCHANGED <<tool, row, provider, age, toolCall, reviewed>>

ConnectSave ==
    /\ operator.at = "store"
    /\ row' = [account |-> owner[operator.grant], grant |-> operator.grant, n |-> 0,
               refresh |-> operator.refresh]
    /\ operator' = Rest
    /\ UNCHANGED <<tool, provider, age, toolCall, reviewed>>

\* disconnect: only X and Google have a revocation to ask for.
DisconnectLoad ==
    /\ operator.at = "rest"
    /\ operator' = IF tool \in {"x", "google"} /\ row # None
                   THEN [operator EXCEPT !.at = "revoke", !.existing = row]
                   ELSE [operator EXCEPT !.at = "remove"]
    /\ UNCHANGED <<tool, row, provider, age, toolCall, reviewed>>

\* A revocation that fails is ignored; X honours no spent token.
Revoke ==
    LET existing == operator.existing
    IN  /\ operator.at = "revoke"
        /\ \/ UNCHANGED revoked
           \/ /\ tool = "x" => existing.n = issued[existing.grant]
              /\ revoked' = revoked \cup {existing.refresh}
        /\ operator' = [operator EXCEPT !.at = "remove", !.existing = None]
        /\ UNCHANGED <<tool, row, owner, issued, age, toolCall, reviewed>>

DisconnectClear ==
    /\ operator.at = "remove"
    /\ row' = None
    /\ operator' = Rest
    /\ UNCHANGED <<tool, provider, age, toolCall, reviewed>>

-----------------------------------------------------------------------------
Step(c) ==
    \/ \E kind \in {"read", "propose", "approved"} : Start(c, kind)
    \/ Load(c)
    \/ RefreshAnswered(c)
    \/ RefreshLost(c)
    \/ RefreshRefused(c)
    \/ Compare(c)
    \/ Save(c)
    \/ CompareClear(c)
    \/ Clear(c)
    \/ Identify(c)
    \/ Lookup(c)
    \/ LookupFails(c)
    \/ Touch(c)
    \/ ProposeCall(c)
    \/ ExecuteApproved(c)
    \/ Act(c)

ConnectionsNext ==
    \/ TimePasses
    \/ \E c \in Calls : Step(c)
    \/ \E g \in Grants, account \in Accounts : Exchange(g, account)
    \/ ConnectLoad
    \/ ConnectSave
    \/ DisconnectLoad
    \/ Revoke
    \/ DisconnectClear

ConnectionsSpec == ConnectionsInit /\ [][ConnectionsNext]_connectionVars

-----------------------------------------------------------------------------
(* What must hold. *)

\* An approved action is carried out with a token of the account the operator
\* reviewed, though the operator may connect another account between any two of
\* its reads (execute_approved of every package).
ActsAsReviewed ==
    \A c \in Calls :
        toolCall[c].at = "act" => owner[toolCall[c].token] = toolCall[c].approved

=============================================================================
