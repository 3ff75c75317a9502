-------------------------- MODULE ApprovedChange --------------------------
(***************************************************************************)
(* Approved changes to what lives at a provider: Gmail drafts, labels and  *)
(* messages, Google Calendar events, posts on X and LinkedIn.  The tool    *)
(* looks the target up when it proposes; the operator decides on that      *)
(* look; the package looks again before it writes.  Meanwhile the account's *)
(* owner edits the same things, another approval may change them first,    *)
(* and another account may be connected.  How an approval is queued,       *)
(* decided once and recovered is ToolApprovals.                            *)
(***************************************************************************)
EXTENDS Naturals, FiniteSets

CONSTANTS
  Change,           \* bound: the changes ever asked for
  Object, KindOf,   \* "draft", "label", "event" or "post"
  Account, AccountOf,
  Requests,         \* bound: tool inputs the agent sends
  MaxEdits          \* bound: edits made elsewhere

NoObject == "none"

ASSUME ChangeConstants ==
  /\ KindOf \in [Object -> {"draft", "label", "event", "post"}]
  /\ AccountOf \in [Object -> Account]
  /\ NoObject \notin Object
  /\ \A r \in Requests : r.target \in Object \cup {NoObject}
  /\ MaxEdits \in Nat

VARIABLES
  object,    \* at the provider: how each object looks, and whether it is there
  connected, \* the account of the stored connection
  edits,     \* edits made elsewhere
  change,    \* each change: its place, request, what was shown, the token's account
  seen,      \* history: how each change's target looked since the decision
  done       \* history: changes the provider carried out, with their account

changeVars == <<object, connected, edits, change, seen, done>>

-----------------------------------------------------------------------------
(* What each tool accepts; r.fields are the inputs given beside the target *)

Has(r, f) == f \in r.fields
Targeted(r) == r.target # NoObject
Aims(r, kind) == Targeted(r) /\ KindOf[r.target] = kind
Letter == {"to", "subject", "blocks"}

SendShape(r) == r.fields = Letter /\ ~Targeted(r)

DraftShape(r) ==
  \/ r.op = "create" /\ r.fields = Letter /\ ~Targeted(r)
  \/ r.op = "update" /\ r.fields = Letter /\ Aims(r, "draft")
  \/ r.op \in {"send", "delete"} /\ r.fields = {} /\ Aims(r, "draft")

Color(r) == Has(r, "background_color") <=> Has(r, "text_color")

LabelShape(r) ==
  /\ r.fields \subseteq {"name", "background_color", "text_color"}
  /\ Color(r)
  /\ \/ r.op = "create" /\ Has(r, "name") /\ ~Targeted(r)
     \/ r.op = "update" /\ r.fields # {} /\ Aims(r, "label")
     \/ r.op = "delete" /\ Aims(r, "label")

(* The messages themselves never change; the labels put on them may.       *)
MessageShape(r) ==
  /\ Has(r, "message_ids") /\ r.fields \subseteq {"message_ids", "more"}
  /\ \/ r.op \in {"archive", "mark_read", "mark_unread", "star", "unstar"} /\ ~Targeted(r)
     \/ r.op \in {"add_labels", "remove_labels"} /\ Aims(r, "label")
     \/ r.op \in {"trash", "untrash"} /\ ~Has(r, "more") /\ ~Targeted(r)

Times == {"start_time", "end_time"}
EventFields == Times \cup {"summary", "description", "location"}

EventShape(r) ==
  /\ r.fields \subseteq EventFields \cup {"time_zone"}
  /\ \/ r.op = "create" /\ Times \cup {"summary"} \subseteq r.fields /\ ~Targeted(r)
     \/ r.op = "update" /\ r.fields \cap EventFields # {} /\ Aims(r, "event")
     \/ r.op = "delete" /\ r.fields = {} /\ Aims(r, "event")
  /\ Has(r, "time_zone") => r.fields \cap Times # {}

PostShape(r) ==
  /\ Has(r, "text") /\ r.fields \subseteq {"text", "in_reply_to_tweet_id", "quote_tweet_id"}
  /\ Cardinality(r.fields) <= 2
  /\ Cardinality(r.fields) = 2 <=> Aims(r, "post")
  /\ Targeted(r) => Aims(r, "post")

LinkedInShape(r) == Has(r, "text") /\ r.fields \subseteq {"text", "visibility"} /\ ~Targeted(r)

-----------------------------------------------------------------------------
(* Looking the target up                                                   *)

Unseen == [look |-> 0, there |-> FALSE]

(* A cancelled event can still be read; a label list just lacks what is    *)
(* gone; a draft, a label or a post that is gone is an error.              *)
Found(r, acct) == Targeted(r) =>
  /\ object[r.target].there \/ r.tool \in {"event_change", "message_action"}
  /\ AccountOf[r.target] = acct \/ KindOf[r.target] = "post"

Look(r) == IF Targeted(r) THEN object[r.target] ELSE Unseen

(* execute, in each package: the input is well formed, and the target is   *)
(* found with the token of the connected account.                          *)
GmailProposes(r, acct) ==
  /\ \/ r.tool = "send_email" /\ SendShape(r)
     \/ r.tool = "draft_action" /\ DraftShape(r)
     \/ r.tool = "label_action" /\ LabelShape(r)
     \/ r.tool = "message_action" /\ MessageShape(r)
  /\ Found(r, acct)

CalendarProposes(r, acct) == r.tool = "event_change" /\ EventShape(r) /\ Found(r, acct)
XProposes(r, acct) == r.tool = "post_tweet" /\ PostShape(r) /\ Found(r, acct)
LinkedInProposes(r) == r.tool = "create_post" /\ LinkedInShape(r)

(* A draft by its message id: every edit gives it a new one.               *)
DraftMatches(r, shown) == object[r.target].there /\ object[r.target].look = shown.look
(* A label by name, type and color: one that was renamed back matches.     *)
LabelMatches(r, shown) == object[r.target].there /\ object[r.target].look = shown.look
(* The labels of a message action by name only; a missing one is named by  *)
(* its id, then as now.                                                    *)
NamesMatch(r, shown) ==
  object[r.target].there = shown.there /\ (shown.there => object[r.target].look = shown.look)
EventMatches(r, shown) == object[r.target].there /\ object[r.target].look = shown.look
PostMatches(r) == object[r.target].there

(* Wrong: what goes away need not be looked at.                            *)
MatchesUnlessDeleting(r, shown) == Targeted(r) /\ r.op # "delete" =>
  \/ r.tool = "draft_action" /\ DraftMatches(r, shown)
  \/ r.tool = "label_action" /\ LabelMatches(r, shown)
  \/ r.tool = "message_action" /\ NamesMatch(r, shown)
  \/ r.tool = "event_change" /\ EventMatches(r, shown)
  \/ r.tool = "post_tweet" /\ PostMatches(r)

(* Rule 8: the target is still what the operator was shown.                *)
StillMatches(r, shown) == Targeted(r) =>
  \/ r.tool = "draft_action" /\ DraftMatches(r, shown)
  \/ r.tool = "label_action" /\ LabelMatches(r, shown)
  \/ r.tool = "message_action" /\ NamesMatch(r, shown)
  \/ r.tool = "event_change" /\ EventMatches(r, shown)
  \/ r.tool = "post_tweet" /\ PostMatches(r)

-----------------------------------------------------------------------------
NoChange == [pc |-> "absent", request |-> [tool |-> "none", op |-> "none", fields |-> {}, target |-> NoObject],
             shown |-> Unseen, account |-> {}, token |-> {}]

ChangeInit ==
  /\ object = [x \in Object |-> [look |-> 0, there |-> TRUE]]
  /\ connected \in Account
  /\ edits = 0
  /\ change = [n \in Change |-> NoChange]
  /\ seen = [n \in Change |-> {}]
  /\ done = [n \in Change |-> {}]

Place(n) == change[n].pc
Goes(n, pc) == change' = [change EXCEPT ![n].pc = pc]

Proposed(n, r) == [pc |-> "pending", request |-> r, shown |-> Look(r),
                   account |-> {connected}, token |-> {}]

(* Shape, token, identity and preview, then the approval.  A call          *)
(* that fails on the way leaves nothing behind.                            *)
AskChange(n, r) ==
  /\ Place(n) = "absent"
  /\ \A m \in Change : m < n => Place(m) # "absent"
  /\ \/ GmailProposes(r, connected) \/ CalendarProposes(r, connected)
     \/ XProposes(r, connected) \/ LinkedInProposes(r)
  /\ change' = [change EXCEPT ![n] = Proposed(n, r)]
  /\ UNCHANGED <<object, connected, edits, seen, done>>

(* The operator's decision; from here on the history is kept.              *)
DecideChange(n) ==
  /\ Place(n) = "pending"
  /\ \/ Goes(n, "token") /\ seen' = [seen EXCEPT ![n] = {Look(change[n].request)}]
     \/ Goes(n, "ended") /\ UNCHANGED seen
  /\ UNCHANGED <<object, connected, edits, done>>

(* execute_approved: the connection of this moment gives the token.        *)
TakeToken(n) ==
  /\ Place(n) = "token"
  /\ change' = [change EXCEPT ![n].pc = "identity", ![n].token = {connected}]
  /\ UNCHANGED <<object, connected, edits, seen, done>>

SameAccount(n) == change[n].token = change[n].account

CheckAccount(n) ==
  /\ Place(n) = "identity"
  /\ Goes(n, IF SameAccount(n) THEN "verify" ELSE "ended")
  /\ UNCHANGED <<object, connected, edits, seen, done>>

CheckTarget(n) ==
  LET r == change[n].request IN
  /\ Place(n) = "verify"
  /\ \/ Goes(n, IF StillMatches(r, change[n].shown) THEN "write" ELSE "ended")
     \/ Goes(n, "ended")
  /\ UNCHANGED <<object, connected, edits, seen, done>>

-----------------------------------------------------------------------------
(* The provider                                                            *)

Relabelled(o) == [o EXCEPT !.look = 1 - @]
Revised(o) == [o EXCEPT !.look = @ + 1]
Gone(o) == [o EXCEPT !.there = FALSE]

DraftWrite(r, o) == IF r.op = "update" THEN Revised(o) ELSE Gone(o)
LabelWrite(r, o) == IF r.op = "update" THEN Relabelled(o) ELSE Gone(o)
EventWrite(r, o) == IF r.op = "update" THEN Revised(o) ELSE Gone(o)

(* What a change makes of its target; a post answers it, and a message     *)
(* action puts the label on.                                               *)
Effect(r, o) ==
  CASE r.tool = "draft_action" -> DraftWrite(r, o)
    [] r.tool = "label_action" -> LabelWrite(r, o)
    [] r.tool = "event_change" -> EventWrite(r, o)
    [] OTHER -> o

(* Every change under decision sees how its target looks after a step.     *)
Witnessed(after) ==
  seen' = [n \in Change |->
             LET r == change[n].request
             IN  IF Place(n) \in {"token", "identity", "verify", "write"} /\ Targeted(r)
                   THEN seen[n] \cup {after[r.target]} ELSE seen[n]]

(* The one request that changes anything.  It may be refused, and the      *)
(* answer may be lost after it took effect: the outcome says failed.       *)
ChangeWrite(n) ==
  LET r == change[n].request
      after == IF Targeted(r) THEN [object EXCEPT ![r.target] = Effect(r, @)] ELSE object IN
  /\ Place(n) = "write"
  /\ Goes(n, "ended")
  /\ \/ /\ Targeted(r) => object[r.target].there
        /\ object' = after
        /\ Witnessed(after)
        /\ done' = [done EXCEPT ![n] = change[n].token]
     \/ UNCHANGED <<object, seen, done>>
  /\ UNCHANGED <<connected, edits>>

(* The account's owner, elsewhere.                                         *)
EditElsewhere(x) ==
  LET after == [object EXCEPT ![x] = IF KindOf[x] = "label" THEN Relabelled(@) ELSE Revised(@)] IN
  /\ edits < MaxEdits /\ object[x].there /\ KindOf[x] # "post"
  /\ edits' = edits + 1
  /\ object' = after /\ Witnessed(after)
  /\ UNCHANGED <<connected, change, done>>

RemoveElsewhere(x) ==
  LET after == [object EXCEPT ![x] = Gone(@)] IN
  /\ edits < MaxEdits /\ object[x].there
  /\ edits' = edits + 1
  /\ object' = after /\ Witnessed(after)
  /\ UNCHANGED <<connected, change, done>>

(* The operator connects another account.                                  *)
ConnectOther(a) ==
  /\ a # connected
  /\ connected' = a
  /\ UNCHANGED <<object, edits, change, seen, done>>

ChangeNext ==
  \/ \E n \in Change :
       \/ \E r \in Requests : AskChange(n, r)
       \/ DecideChange(n) \/ TakeToken(n) \/ CheckAccount(n) \/ CheckTarget(n) \/ ChangeWrite(n)
  \/ \E x \in Object : EditElsewhere(x) \/ RemoveElsewhere(x)
  \/ \E a \in Account : ConnectOther(a)

-----------------------------------------------------------------------------
(* Whatever was carried out was carried out in the account the operator    *)
(* was shown, on a target that looked as it was shown at some moment since *)
(* the decision: an edit elsewhere, a second approval of the same target   *)
(* or another connection ends the approval instead.  (The moments between  *)
(* the last look and the write are the provider's.)                        *)
ActsOnWhatWasShown ==
  \A n \in Change : done[n] # {} =>
    /\ done[n] = change[n].account
    /\ Targeted(change[n].request) => change[n].shown \in seen[n]
=============================================================================
