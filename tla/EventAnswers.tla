---------------------------- MODULE EventAnswers ----------------------------
(***************************************************************************)
(* What the worker serves of an event: Event, GetMissingEvents and State   *)
(* of internal/matrixstate, with visibility.go, acl.go, store/event.go,    *)
(* store/redaction.go and store/redactionauth.go.                          *)
(*                                                                         *)
(* A remote server asks for an event, the original, and for a redaction of *)
(* it.  An answer takes many queries, and Synapse may write between any    *)
(* two: a redaction or a late event arrives, the sender is banned, unbanned*)
(* or erased, the server leaves the room or is shut out of it.  Requests   *)
(* come one after another: all they share is the parsed ACLs.              *)
(*                                                                         *)
(* Facts that never change are fields of `world', those Synapse may write  *)
(* are fields of `db'.  The three endpoints run the same steps in an order *)
(* of their own, Script.  A glob list, a room's history and an event's     *)
(* content are reduced to what the rules ask of them.                      *)
(*                                                                         *)
(* A definition named X_Y is X with a fault, for showing that a property   *)
(* notices it; nothing uses it.                                            *)
(***************************************************************************)
EXTENDS Integers, Sequences, FiniteSets

CONSTANTS
  MaxOdd,       \* how many fields of world differ from the common case
  MaxChanges,   \* how often Synapse writes
  MaxRequests

ASSUME BoundAssumption == {MaxOdd, MaxChanges, MaxRequests} \subseteq Nat

VARIABLES
  world,     \* the two events and the server that asks
  db,        \* what Synapse may change
  changes,   \* how often it has
  acls,      \* server_acl events whose parsed form is cached
  req,       \* the request being answered
  requests,  \* how many there were
  told,      \* history: /get_missing_events has served the redaction
  always,    \* history: what was so at every moment of the request
  ever       \* history: what was so at some moment of it

vars == <<world, db, changes, acls, req, requests, told, always, ever>>

Events == {"original", "redaction"}

(* acl.go: an ACL event is [allowIPLiterals, allow, deny], a glob list     *)
(* being here the servers it matches: the one that asks, or others.        *)
AclEvents ==
  [open     |-> [literals |-> TRUE,  allow |-> {"asker", "other"}, deny |-> {}],
   denied   |-> [literals |-> TRUE,  allow |-> {"asker", "other"}, deny |-> {"asker"}],
   unlisted |-> [literals |-> TRUE,  allow |-> {"other"},          deny |-> {}],
   named    |-> [literals |-> FALSE, allow |-> {"asker", "other"}, deny |-> {"other"}]]

(* "none": no such event; "broken": not parsed, and so no restriction.     *)
AclIds == DOMAIN AclEvents \cup {"none", "broken"}

NoBan == -1   \* no row; 0 is a row without redact_end_ordering

(* What Synapse stores of a redaction twice: in the `redactions' row, that *)
(* getRedactions and shouldRedact read, and in the event with its internal *)
(* metadata, that WithheldRedactions reads.                                *)
Records == {"row", "event"}

WorldType ==
  [type       : {"message", "state", "create"},
   rejected   : BOOLEAN,
   deep       : BOOLEAN,            \* depth outside the canonical range
   ordering   : {-1, 1},            \* stream_ordering; negative when backfilled
   local      : BOOLEAN,            \* its sender is ours
   visibility : {"unknown", "unset", "shared", "invited", "joined"},
   member     : {"none", "invite", "join"},   \* the asker's users at the event
   literal    : BOOLEAN,            \* the asker's name is an IP literal
   blank      : SUBSET Records,     \* where the redaction has lost its `redacts'
   gone       : BOOLEAN,            \* its row is there and the event is not
   unauthed   : BOOLEAN,            \* it was rejected
   elsewhere  : BOOLEAN,            \* it is in another room than the original
   foreign    : BOOLEAN,            \* and from another server
   recheck    : SUBSET Records]     \* where it is to be authorised on read

Common ==
  [type |-> "message", rejected |-> FALSE, deep |-> FALSE, ordering |-> 1,
   local |-> FALSE, visibility |-> "shared", member |-> "join", literal |-> FALSE,
   blank |-> {}, gone |-> FALSE, unauthed |-> FALSE, elsewhere |-> FALSE,
   foreign |-> FALSE, recheck |-> {}]

Odd(w) == {f \in DOMAIN Common : w[f] # Common[f]}

DbType ==
  [original : BOOLEAN, redaction : BOOLEAN, ban : NoBan .. 2, erased : BOOLEAN,
   partial : BOOLEAN, member : BOOLEAN, acl : AclIds]

Idle ==
  [endpoint |-> "none", status |-> "idle", at |-> 1, asked |-> {}, loaded |-> {},
   marked |-> FALSE, row |-> FALSE, partial |-> FALSE, withheld |-> FALSE,
   erased |-> FALSE, visible |-> TRUE, guessed |-> FALSE, told |-> FALSE,
   form |-> [e \in Events |-> "none"]]

Init ==
  /\ world \in {w \in WorldType : Cardinality(Odd(w)) <= MaxOdd}
  /\ \E late, banned, partial \in BOOLEAN :
       /\ Cardinality(Odd(world)) + Cardinality({b \in {1} : late}) + Cardinality({b \in {1} : banned})
            + Cardinality({b \in {1} : partial}) <= MaxOdd
       /\ db = [original |-> ~late, redaction |-> FALSE, ban |-> IF banned THEN 0 ELSE NoBan,
                erased |-> FALSE, partial |-> partial, member |-> TRUE, acl |-> "open"]
  /\ changes = 0
  /\ acls = {}
  /\ req = Idle
  /\ requests = 0
  /\ told = FALSE
  /\ always = {} /\ ever = {}

-----------------------------------------------------------------------------
(* The rules.                                                              *)

Held(d) ==
  {e \in Events : \/ e = "original" /\ d.original
                  \/ e = "redaction" /\ d.redaction /\ ~world.gone}

(* ServerACL.Allowed, of the parsed event or of none.                      *)
Allowed(id) ==
  \/ id \in {"none", "broken"}
  \/ LET acl == AclEvents[id] IN
     /\ ~(world.literal /\ ~acl.literals)
     /\ "asker" \notin acl.deny
     /\ "asker" \in acl.allow

(* shouldRedact, of a row that names the original.                         *)
ShouldRedact ==
  \/ "row" \notin world.recheck
  \/ ~world.gone /\ ~world.unauthed /\ ~world.elsewhere /\ ~world.foreign

BanAppliesTo_Through(ban) ==
  ban # NoBan /\ world.type # "create" /\ ~(ban # 0 /\ world.ordering > ban)

BanAppliesTo(ban) ==
  ban # NoBan /\ world.type # "create" /\ ~(ban # 0 /\ world.ordering >= ban)

(* applyRedactions, with the rows of both tables as they were read.        *)
IsRedacted(row, ban) ==
  \/ row /\ world.type # "create" /\ ShouldRedact
  \/ BanAppliesTo(ban)

(* WithheldRedactions: its five rules.                                     *)
Withheld_NotRechecked(d) ==
  "event" \in world.blank \/ ~d.original \/ world.type = "create" \/ world.elsewhere

Withheld(d) ==
  \/ "event" \in world.blank
  \/ ~d.original
  \/ world.type = "create"
  \/ world.elsewhere
  \/ "event" \in world.recheck /\ world.foreign

(* eventVisibleToServer.                                                   *)
VisibleToServer_AnyMember(visibility) ==
  /\ ~req.erased
  /\ ~(req.partial /\ ~world.local)
  /\ visibility \in {"invited", "joined"} => world.member \in {"join", "invite"}

VisibleToServer(visibility) ==
  /\ ~req.erased
  /\ ~(req.partial /\ ~world.local)
  /\ \/ visibility \notin {"invited", "joined"}
     \/ world.member = "invite" /\ visibility = "invited"
     \/ world.member = "join"

(* visibilityAt: what is not known counts as shared.                       *)
VisibilityAt == IF world.visibility \in {"unknown", "unset"} THEN "shared" ELSE world.visibility

-----------------------------------------------------------------------------
(* What a request is measured against: what holds of the database.         *)

Facts(d) ==
  {f \in {"redacted", "banned", "erased", "hidden", "partial", "member", "allowed"} :
     CASE f = "redacted" -> d.redaction /\ "row" \notin world.blank /\ world.type # "create"
                            /\ ShouldRedact
       [] f = "banned"   -> world.type # "create" /\ d.ban # NoBan
                            /\ (d.ban = 0 \/ world.ordering < d.ban)
       [] f = "erased"   -> d.erased
       [] f = "hidden"   -> d.partial /\ ~world.local
       [] f = "partial"  -> d.partial
       [] f = "member"   -> d.member
       [] f = "allowed"  -> Allowed(d.acl)}

(* Synapse, between two of our queries.                                    *)
Write(d) ==
  /\ changes < MaxChanges
  /\ d # db
  /\ db' = d
  /\ changes' = changes + 1
  /\ IF req.status = "running"
     THEN always' = always \cap Facts(d) /\ ever' = ever \cup Facts(d)
     ELSE UNCHANGED <<always, ever>>
  /\ UNCHANGED <<world, acls, req, requests, told>>

OriginalArrives == Write([db EXCEPT !.original = TRUE])

(* The event and its row in `redactions', in one transaction.              *)
RedactionArrives == Write([db EXCEPT !.redaction = TRUE])

Ban == Write([db EXCEPT !.ban = 0])

(* The position where the ban ends is after all there is, before all that  *)
(* is to come.                                                             *)
Unban ==
  /\ db.ban = 0
  /\ \E end \in 1 .. 2 :
       /\ world.ordering > 0 => (db.original <=> world.ordering < end)
       /\ Write([db EXCEPT !.ban = end])

Erase == Write([db EXCEPT !.erased = ~@])

FullState == Write([db EXCEPT !.partial = FALSE])

JoinOrLeave == Write([db EXCEPT !.member = ~@])

ChangeACL == \E id \in AclIds : Write([db EXCEPT !.acl = id])

-----------------------------------------------------------------------------
(* A request.  State streams two lists of events, the state and its auth   *)
(* chain, the same way.                                                    *)

Script ==
  [event   |-> <<"load", "redactions", "bans", "partial", "member", "erased", "visible", "serve">>,
   missing |-> <<"acl", "member", "partial", "load", "redactions", "bans", "withheld",
                 "erased", "visible", "serve">>,
   state   |-> <<"partial", "member", "acl", "load", "redactions", "bans", "serve",
                 "load", "redactions", "bans", "serve">>]

(* What may be asked for: one event; events of one room; state events,     *)
(* which a redaction is not.                                               *)
MayAsk(endpoint) ==
  CASE endpoint = "event"   -> {{"original"}, {"redaction"}}
    [] endpoint = "missing" -> IF world.elsewhere THEN {{"original"}, {"redaction"}}
                               ELSE {{"original"}, {"redaction"}, Events}
    [] endpoint = "state"   -> IF world.type = "message" THEN {} ELSE {{"original"}, {}}

Begin ==
  /\ req.status # "running" /\ requests < MaxRequests
  /\ \E endpoint \in DOMAIN Script : \E asked \in MayAsk(endpoint) :
       req' = [Idle EXCEPT !.endpoint = endpoint, !.status = "running", !.asked = asked,
                           !.told = told]
  /\ requests' = requests + 1
  /\ always' = Facts(db) /\ ever' = Facts(db)
  /\ UNCHANGED <<world, db, changes, acls, told>>

Doing(step) == req.status = "running" /\ Script[req.endpoint][req.at] = step

Goes(r) == req' = [r EXCEPT !.at = @ + 1]

(* No event is served: an error, a 404, or it is left to Synapse.          *)
Ends == req' = Idle

Rest == <<world, db, changes, requests, told, always, ever>>

(* Any query may fail.                                                     *)
Fail ==
  /\ req.status = "running"
  /\ Ends
  /\ UNCHANGED <<Rest, acls>>

(* IsPartialStateRoom: refused, but for /get_missing_events.               *)
CheckPartial ==
  /\ Doing("partial")
  /\ IF db.partial /\ req.endpoint # "missing"
     THEN Ends
     ELSE Goes([req EXCEPT !.partial = db.partial])
  /\ UNCHANGED <<Rest, acls>>

(* IsHostInRoom.                                                           *)
CheckMember ==
  /\ Doing("member")
  /\ IF db.member THEN Goes(req) ELSE Ends
  /\ UNCHANGED <<Rest, acls>>

(* serverACL asks which event is current and parses each event once.       *)
CheckACL_ParsedPerRoom ==
  /\ Doing("acl")
  /\ \E id \in IF acls = {} THEN {db.acl} ELSE acls :
       /\ IF Allowed(id) THEN Goes(req) ELSE Ends
       /\ acls' = IF acls = {} THEN {id} \ {"none"} ELSE acls
  /\ UNCHANGED Rest

CheckACL ==
  /\ Doing("acl")
  /\ IF Allowed(db.acl) THEN Goes(req) ELSE Ends
  /\ acls' = acls \cup ({db.acl} \ {"none"})
  /\ UNCHANGED Rest

(* getEventsRaw.  The event cache makes no difference here, stored events  *)
(* never changing.  /event of an event we do not hold is a 404.            *)
Load ==
  LET found == req.asked \cap Held(db) IN
  /\ Doing("load")
  /\ IF req.endpoint = "event" /\ found = {} THEN Ends ELSE Goes([req EXCEPT !.loaded = found])
  /\ UNCHANGED <<Rest, acls>>

(* getRedactions.                                                          *)
ReadRedactions ==
  /\ Doing("redactions")
  /\ Goes([req EXCEPT !.row = db.redaction /\ "row" \notin world.blank /\ "original" \in req.loaded])
  /\ UNCHANGED <<Rest, acls>>

(* getBanRedactions, and applyRedactions.                                  *)
ApplyRedactions_RowsOnly ==
  /\ Doing("bans")
  /\ Goes([req EXCEPT !.row = FALSE, !.marked =
       "original" \in req.loaded /\ req.row /\ IsRedacted(TRUE, NoBan)])
  /\ UNCHANGED <<Rest, acls>>

ApplyRedactions ==
  /\ Doing("bans")
  /\ Goes([req EXCEPT !.row = FALSE, !.marked =
       "original" \in req.loaded /\ IsRedacted(req.row, db.ban)])
  /\ UNCHANGED <<Rest, acls>>

FindWithheld ==
  /\ Doing("withheld")
  /\ Goes([req EXCEPT !.withheld = Withheld(db)])
  /\ UNCHANGED <<Rest, acls>>

CheckErased ==
  /\ Doing("erased")
  /\ Goes([req EXCEPT !.erased = db.erased])
  /\ UNCHANGED <<Rest, acls>>

(* visibilityAt: a history_visibility event that cannot be read, for any   *)
(* reason, counts as absent.                                               *)
CheckVisible ==
  /\ Doing("visible")
  /\ \/ Goes([req EXCEPT !.erased = FALSE, !.visible = VisibleToServer(VisibilityAt)])
     \/ /\ VisibilityAt # "shared"
        /\ Goes([req EXCEPT !.erased = FALSE, !.visible = VisibleToServer("shared"), !.guessed = TRUE])
  /\ UNCHANGED <<Rest, acls>>

(* The body: whole or pruned, or the event is left out.  Of the redaction  *)
(* only that is followed: whether it is served.                            *)
LeftOut(e) ==
  \/ e \notin req.loaded
  \/ /\ req.endpoint # "event"
     /\ \/ e = "original" /\ (world.rejected \/ world.deep)
        \/ e = "redaction" /\ (world.unauthed \/ req.withheld)

Form(e) ==
  CASE LeftOut(e)                                        -> "left out"
    [] e = "original" /\ (req.marked \/ ~req.visible)    -> "pruned"
    [] OTHER                                             -> "whole"

Serve ==
  LET form == [e \in Events |-> IF e \in req.asked THEN Form(e) ELSE req.form[e]] IN
  /\ Doing("serve")
  /\ IF req.at = Len(Script[req.endpoint])
     THEN req' = [Idle EXCEPT !.endpoint = req.endpoint, !.status = "answered", !.form = form,
                                    !.told = req.told, !.guessed = req.guessed]
     ELSE \E asked \in SUBSET {"original"} :    \* on to the auth chain
            Goes([req EXCEPT !.form = form, !.asked = asked])
  /\ told' = (told \/ (req.endpoint = "missing" /\ form["redaction"] = "whole"))
  /\ UNCHANGED <<world, db, changes, requests, always, ever, acls>>

Answer ==
  \/ Begin \/ CheckPartial \/ CheckMember \/ CheckACL \/ Load \/ ReadRedactions \/ ApplyRedactions
  \/ FindWithheld \/ CheckErased \/ CheckVisible \/ Serve

Next ==
  \/ Answer \/ Fail
  \/ OriginalArrives \/ RedactionArrives \/ Ban \/ Unban \/ Erase \/ FullState \/ JoinOrLeave
  \/ ChangeACL

Spec == Init /\ [][Next]_vars

-----------------------------------------------------------------------------
(* Type invariant.                                                         *)
TypeOK ==
  /\ world \in WorldType
  /\ db \in DbType
  /\ acls \subseteq AclIds
  /\ req.status \in {"idle", "running", "answered"}
  /\ req.form \in [Events -> {"none", "left out", "pruned", "whole"}]

(* "an event that has been redacted must never be served with its original *)
(* content": if the event was redacted, or covered by its sender's ban,    *)
(* from the first query of the request to the last, no endpoint serves it  *)
(* whole.                                                                  *)
RedactionHonoured ==
  req.form["original"] = "whole" => always \cap {"redacted", "banned"} = {}

(* And it is not pruned without a reason that held during the request:     *)
(* "Events at or after" the end of a ban "are not redacted", a redaction   *)
(* that is not authorised redacts nothing, a server sees what it may see.  *)
PrunedForAReason ==
  req.form["original"] = "pruned" =>
    \/ ever \cap {"redacted", "banned"} # {}
    \/ /\ req.endpoint # "state"
       /\ \/ ever \cap {"erased", "hidden"} # {}
          \/ world.visibility = "joined" /\ world.member # "join"
          \/ world.visibility = "invited" /\ world.member = "none"

(* History a server may not see is pruned by the two endpoints that look   *)
(* at visibility: an erased sender's, a remote sender's in a room we have  *)
(* in part, and what was restricted when none of its users was there.  The *)
(* exception is a setting that could not be read, which event.go:161 takes *)
(* for open.                                                               *)
PrivacyKept ==
  req.form["original"] = "whole" /\ req.endpoint \in {"event", "missing"} =>
    /\ always \cap {"erased", "hidden"} = {}
    /\ \/ req.guessed
       \/ world.visibility \notin {"invited", "joined"}
       \/ world.member = "join"
       \/ world.member = "invite" /\ world.visibility = "invited"

(* Nothing is served to a server that at no moment of the request was in   *)
(* the room, nor, but for /event, to one the ACL shut out all along, nor,  *)
(* but for /get_missing_events, from a room we had in part all along.      *)
AccessWasGranted ==
  \A e \in Events : req.form[e] \in {"whole", "pruned"} =>
    /\ "member" \in ever
    /\ req.endpoint # "event" => "allowed" \in ever
    /\ req.endpoint # "missing" => "partial" \notin always

(* What the row asks for, or lacks, the event's own record does too.       *)
RecordsAgree ==
  /\ "row" \in world.recheck => "event" \in world.recheck
  /\ "row" \in world.blank => "event" \in world.blank

(* A redaction that /get_missing_events lets through is one that we honour:*)
(* having served it, neither the same answer nor any later one, on any     *)
(* endpoint, holds the original whole.  WithheldRedactions and             *)
(* applyRedactions decide the two apart, from queries at different times   *)
(* and from different records: it is so where RecordsAgree.  Where only    *)
(* the row's recheck is set, WithheldRedactions lets a foreign redaction   *)
(* through that shouldRedact then does not apply.                          *)
NoWholeAfterRedaction ==
  RecordsAgree /\ req.form["original"] = "whole" =>
    /\ ~req.told
    /\ ~(req.endpoint = "missing" /\ req.form["redaction"] = "whole")
=============================================================================
