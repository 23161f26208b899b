------------------------- MODULE EventAnswersProofs -------------------------
(***************************************************************************)
(* What is served of an event honours redactions, bans, visibility and     *)
(* access, whatever Synapse writes between two queries and however often,  *)
(* for any number of requests: proofs checked by TLAPS.                    *)
(***************************************************************************)
EXTENDS EventAnswers, TLAPS

FactNames == {"redacted", "banned", "erased", "hidden", "partial", "member", "allowed"}
Forms == {"none", "left out", "pruned", "whole"}

ReqType ==
  [endpoint : {"none", "event", "missing", "state"}, status : {"idle", "running", "answered"},
   at : Nat, asked : SUBSET Events, loaded : SUBSET Events, marked : BOOLEAN, row : BOOLEAN,
   partial : BOOLEAN, withheld : BOOLEAN, erased : BOOLEAN, visible : BOOLEAN,
   guessed : BOOLEAN, told : BOOLEAN, form : [Events -> Forms]]

Shapes ==
  /\ world \in WorldType /\ db \in DbType /\ req \in ReqType /\ told \in BOOLEAN
  /\ always \subseteq FactNames /\ ever \subseteq FactNames

(* The places of a request where the answer to a query is in hand.         *)
In(r, event, missing, state) ==
  \/ r.endpoint = "event" /\ r.at \in event
  \/ r.endpoint = "missing" /\ r.at \in missing
  \/ r.endpoint = "state" /\ r.at \in state

PastLoad(r)     == In(r, 2 .. 8, 5 .. 10, (5 .. 7) \cup (9 .. 11))
AtBans(r)       == In(r, {3}, {6}, {6, 10})
PastBans(r)     == In(r, 4 .. 8, 7 .. 10, {7, 11})
PastPartial(r)  == In(r, 5 .. 8, 4 .. 10, 2 .. 11)
PastMember(r)   == In(r, 6 .. 8, 3 .. 10, 3 .. 11)
PastAcl(r)      == In(r, {}, 2 .. 10, 4 .. 11)
PastWithheld(r) == In(r, {}, 8 .. 10, {})
AtVisible(r)    == In(r, {7}, {9}, {})
PastVisible(r)  == In(r, {8}, {10}, {})

(* The original is redacted by what nothing can take back.                 *)
Redacts == db.redaction /\ "row" \notin world.blank /\ world.type # "create" /\ ShouldRedact
Heeded  == "row" \notin world.blank /\ world.type # "create" /\ ShouldRedact

(* What was read of the two events and of the rows against them.           *)
LoadOK(r) == PastLoad(r) /\ "redaction" \in r.loaded => db.redaction /\ ~world.gone

RowOK(r) ==
  AtBans(r) =>
    /\ "original" \in r.loaded /\ "redacted" \in always => r.row
    /\ Events \subseteq r.loaded /\ "row" \notin world.blank => r.row
    /\ r.row /\ world.type # "create" /\ ShouldRedact => "redacted" \in ever

MarkOK(r) ==
  PastBans(r) =>
    /\ "original" \in r.loaded /\ always \cap {"redacted", "banned"} # {} => r.marked
    /\ Events \subseteq r.loaded /\ Heeded => r.marked
    /\ r.marked => ever \cap {"redacted", "banned"} # {}

(* What was read of the room and of the asker.                             *)
RoomOK(r) ==
  /\ PastPartial(r) =>
       /\ "hidden" \in always => r.partial /\ ~world.local
       /\ r.partial /\ ~world.local => "hidden" \in ever
       /\ r.endpoint # "missing" => "partial" \notin always
  /\ PastMember(r) => "member" \in ever
  /\ PastAcl(r) => "allowed" \in ever

WithheldOK(r) ==
  PastWithheld(r) /\ ~r.withheld =>
    /\ "event" \notin world.blank /\ world.type # "create" /\ ~world.elsewhere
    /\ ~("event" \in world.recheck /\ world.foreign)

(* What was concluded of visibility.                                       *)
Restricted ==
  \/ world.visibility = "joined" /\ world.member # "join"
  \/ world.visibility = "invited" /\ world.member = "none"

VisibleOK(r) ==
  /\ AtVisible(r) => ("erased" \in always => r.erased) /\ (r.erased => "erased" \in ever)
  /\ PastVisible(r) =>
       /\ r.visible => always \cap {"erased", "hidden"} = {} /\ (r.guessed \/ ~Restricted)
       /\ ~r.visible => ever \cap {"erased", "hidden"} # {} \/ Restricted
  /\ ~PastVisible(r) => r.visible

(* A request under way.                                                    *)
Place(r) == In(r, 1 .. 8, 1 .. 10, 1 .. 11)
Blank(r) == r.endpoint # "state" => \A e \in Events : r.form[e] = "none"

Progress(r) ==
  r.status = "running" =>
    /\ Place(r) /\ Blank(r) /\ LoadOK(r) /\ RowOK(r) /\ MarkOK(r)
    /\ RoomOK(r) /\ WithheldOK(r) /\ VisibleOK(r)

(* The history variables are about the request that runs.                  *)
Moments == req.status = "running" => always \subseteq Facts(db) /\ Facts(db) \subseteq ever

(* A redaction that was served is one that is heeded from then on, where   *)
(* its two records agree.                                                  *)
ToldOK == RecordsAgree => (told => Redacts) /\ (req.told => "redacted" \in always)

Promises ==
  RedactionHonoured /\ PrunedForAReason /\ PrivacyKept /\ AccessWasGranted /\ NoWholeAfterRedaction

(* The inductive invariant.                                                *)
IInv == Shapes /\ Progress(req) /\ Moments /\ ToldOK /\ Promises

-----------------------------------------------------------------------------
(* The operators of the model.                                             *)

(* What each fact about the database says.                                 *)
LEMMA FactsMean ==
  ASSUME NEW d
  PROVE  /\ Facts(d) \subseteq FactNames
         /\ "redacted" \in Facts(d) <=>
              d.redaction /\ "row" \notin world.blank /\ world.type # "create" /\ ShouldRedact
         /\ "banned" \in Facts(d) <=>
              world.type # "create" /\ d.ban # NoBan /\ (d.ban = 0 \/ world.ordering < d.ban)
         /\ "erased" \in Facts(d) <=> d.erased
         /\ "hidden" \in Facts(d) <=> d.partial /\ ~world.local
         /\ "partial" \in Facts(d) <=> d.partial
         /\ "member" \in Facts(d) <=> d.member
         /\ "allowed" \in Facts(d) <=> Allowed(d.acl)
<1>1. Facts(d) \subseteq FactNames
  BY DEF Facts, FactNames
<1>2. "redacted" \in Facts(d) <=>
        d.redaction /\ "row" \notin world.blank /\ world.type # "create" /\ ShouldRedact
  BY DEF Facts
<1>3. "banned" \in Facts(d) <=>
        world.type # "create" /\ d.ban # NoBan /\ (d.ban = 0 \/ world.ordering < d.ban)
  BY DEF Facts
<1>4. "erased" \in Facts(d) <=> d.erased
  BY DEF Facts
<1>5. "hidden" \in Facts(d) <=> d.partial /\ ~world.local
  BY DEF Facts
<1>6. "partial" \in Facts(d) <=> d.partial
  BY DEF Facts
<1>7. "member" \in Facts(d) <=> d.member
  BY DEF Facts
<1>8. "allowed" \in Facts(d) <=> Allowed(d.acl)
  BY DEF Facts
<1> QED
  BY <1>1, <1>2, <1>3, <1>4, <1>5, <1>6, <1>7, <1>8

(* The endpoints.                                                          *)
LEMMA ScriptNames == DOMAIN Script = {"event", "missing", "state"}
BY DEF Script

(* Where a request is when it does a step.                                 *)
LEMMA WhereItIs ==
  ASSUME Place(req), NEW step, Doing(step)
  PROVE  /\ step = "load" => In(req, {1}, {4}, {4, 8})
         /\ step = "redactions" => In(req, {2}, {5}, {5, 9})
         /\ step = "bans" => In(req, {3}, {6}, {6, 10})
         /\ step = "partial" => In(req, {4}, {3}, {1})
         /\ step = "member" => In(req, {5}, {2}, {2})
         /\ step = "acl" => In(req, {}, {1}, {3})
         /\ step = "withheld" => In(req, {}, {7}, {})
         /\ step = "erased" => In(req, {6}, {8}, {})
         /\ step = "visible" => In(req, {7}, {9}, {})
         /\ step = "serve" => In(req, {8}, {10}, {7, 11})
<1>1. step = Script[req.endpoint][req.at]
  BY DEF Doing
<1>2. CASE req.endpoint = "event"
  <2>1. Script["event"] = <<"load", "redactions", "bans", "partial", "member", "erased", "visible", "serve">>
    BY DEF Script
  <2>2. req.at \in 1 .. 8
    BY <1>2 DEF Place, In
  <2> QED
    BY <1>1, <1>2, <2>1, <2>2 DEF In
<1>3. CASE req.endpoint = "missing"
  <2>1. Script["missing"] = <<"acl", "member", "partial", "load", "redactions", "bans", "withheld",
                              "erased", "visible", "serve">>
    BY DEF Script
  <2>2. req.at \in 1 .. 10
    BY <1>3 DEF Place, In
  <2> QED
    BY <1>1, <1>3, <2>1, <2>2 DEF In
<1>4. CASE req.endpoint = "state"
  <2>1. Script["state"] = <<"partial", "member", "acl", "load", "redactions", "bans", "serve",
                            "load", "redactions", "bans", "serve">>
    BY DEF Script
  <2>2. req.at \in 1 .. 11
    BY <1>4 DEF Place, In
  <2> QED
    BY <1>1, <1>4, <2>1, <2>2 DEF In
<1> QED
  BY <1>2, <1>3, <1>4 DEF Place, In

(* The number of steps of each endpoint.                                   *)
LEMMA Lengths ==
  Len(Script["event"]) = 8 /\ Len(Script["missing"]) = 10 /\ Len(Script["state"]) = 11
BY DEF Script

(* A request that has not begun.                                           *)
LEMMA IdleType == Idle \in ReqType /\ Idle.status = "idle" /\ \A e \in Events : Idle.form[e] = "none"
BY DEF Idle, ReqType, Forms, Events

-----------------------------------------------------------------------------
(* The invariant is inductive.                                             *)

(* Synapse's writes: what was so all along is so of less, what was so once *)
(* of more, and a redaction is never taken back.                           *)
LEMMA WriteStep ==
  ASSUME IInv, NEW d \in DbType, db.redaction => d.redaction, Write(d)
  PROVE  IInv'
<1>0. Shapes /\ Progress(req) /\ Moments /\ ToldOK /\ Promises
  BY DEF IInv
<1>1. db' = d /\ UNCHANGED <<world, req, told>>
  BY DEF Write
<1>2. /\ always' \subseteq always /\ ever \subseteq ever'
      /\ always' \subseteq FactNames /\ ever' \subseteq FactNames
  BY <1>0, FactsMean DEF Write, Shapes
<1>3. Moments'
  <2> SUFFICES ASSUME req.status = "running" PROVE always' \subseteq Facts(d)' /\ Facts(d)' \subseteq ever'
    BY <1>1 DEF Moments
  <2>1. Facts(d)' = Facts(d)
    BY <1>1 DEF Facts, ShouldRedact, Allowed
  <2> QED
    BY <2>1 DEF Write
<1>4. ToldOK'
  <2> SUFFICES ASSUME RecordsAgree PROVE (told => Redacts') /\ (req.told => "redacted" \in always')
    BY <1>1 DEF ToldOK, RecordsAgree
  <2>1. told => d.redaction /\ Heeded
    BY <1>0 DEF ToldOK, Redacts, Heeded
  <2>2. ASSUME req.told PROVE "redacted" \in always'
    <3>1. "redacted" \in always
      BY <1>0, <2>2 DEF ToldOK
    <3>2. CASE req.status = "running"
      <4>1. "redacted" \in Facts(db)
        BY <1>0, <3>1, <3>2 DEF Moments
      <4>2. "redacted" \in Facts(d)
        BY <4>1, FactsMean
      <4> QED
        BY <3>1, <3>2, <4>2 DEF Write
    <3>3. CASE req.status # "running"
      BY <3>1, <3>3 DEF Write
    <3> QED
      BY <3>2, <3>3
  <2> QED
    BY <1>1, <2>1, <2>2 DEF ToldOK, Redacts, Heeded, ShouldRedact
<1>5. Promises'
  <2>1. RedactionHonoured'
    BY <1>0, <1>1, <1>2 DEF Promises, RedactionHonoured
  <2>2. PrunedForAReason'
    BY <1>0, <1>1, <1>2 DEF Promises, PrunedForAReason
  <2>3. PrivacyKept'
    BY <1>0, <1>1, <1>2 DEF Promises, PrivacyKept
  <2>4. AccessWasGranted'
    BY <1>0, <1>1, <1>2 DEF Promises, AccessWasGranted
  <2>5. NoWholeAfterRedaction'
    BY <1>0, <1>1, <1>2 DEF Promises, NoWholeAfterRedaction, RecordsAgree
  <2> QED
    BY <2>1, <2>2, <2>3, <2>4, <2>5 DEF Promises
<1>6. Progress(req)'
  <2> SUFFICES ASSUME req.status = "running"
               PROVE  /\ LoadOK(req)' /\ RowOK(req)' /\ MarkOK(req)'
                      /\ RoomOK(req)' /\ WithheldOK(req)' /\ VisibleOK(req)'
    BY <1>0, <1>1 DEF Progress, Place, Blank, In
  <2>0. LoadOK(req) /\ RowOK(req) /\ MarkOK(req) /\ RoomOK(req) /\ WithheldOK(req) /\ VisibleOK(req)
    BY <1>0 DEF Progress
  <2>1. LoadOK(req)'
    BY <1>1, <2>0 DEF LoadOK, PastLoad, In
  <2>2. RowOK(req)'
    BY <1>1, <1>2, <2>0 DEF RowOK, AtBans, In, ShouldRedact
  <2>3. MarkOK(req)'
    BY <1>1, <1>2, <2>0 DEF MarkOK, PastBans, In, Heeded, ShouldRedact
  <2>4. RoomOK(req)'
    BY <1>1, <1>2, <2>0 DEF RoomOK, PastPartial, PastMember, PastAcl, In
  <2>5. WithheldOK(req)'
    BY <1>1, <2>0 DEF WithheldOK, PastWithheld, In
  <2>6. VisibleOK(req)'
    BY <1>1, <1>2, <2>0 DEF VisibleOK, AtVisible, PastVisible, In, Restricted
  <2> QED
    BY <2>1, <2>2, <2>3, <2>4, <2>5, <2>6
<1>7. Shapes'
  BY <1>0, <1>1, <1>2 DEF Shapes
<1> QED
  BY <1>3, <1>4, <1>5, <1>6, <1>7 DEF IInv

(* Synapse's writes: facts come and go, and the request's record of them.  *)
LEMMA SynapseWrites ==
  ASSUME IInv,
         \/ OriginalArrives \/ RedactionArrives \/ Ban \/ Unban \/ Erase \/ FullState \/ JoinOrLeave
         \/ ChangeACL
  PROVE  IInv'
<1>0. db \in DbType
  BY DEF IInv, Shapes
<1> SUFFICES \E d \in DbType : (db.redaction => d.redaction) /\ Write(d)
  BY WriteStep
<1>1. CASE OriginalArrives
  BY <1>0, <1>1 DEF OriginalArrives, DbType
<1>2. CASE RedactionArrives
  BY <1>0, <1>2 DEF RedactionArrives, DbType
<1>3. CASE Ban
  BY <1>0, <1>3 DEF Ban, DbType, NoBan
<1>4. CASE Unban
  <2>1. PICK end \in 1 .. 2 : Write([db EXCEPT !.ban = end])
    BY <1>4 DEF Unban
  <2>2. [db EXCEPT !.ban = end] \in DbType /\ [db EXCEPT !.ban = end].redaction = db.redaction
    BY <1>0 DEF DbType, NoBan
  <2> QED
    BY <2>1, <2>2
<1>5. CASE Erase
  BY <1>0, <1>5 DEF Erase, DbType
<1>6. CASE FullState
  BY <1>0, <1>6 DEF FullState, DbType
<1>7. CASE JoinOrLeave
  BY <1>0, <1>7 DEF JoinOrLeave, DbType
<1>8. CASE ChangeACL
  <2>1. PICK id \in AclIds : Write([db EXCEPT !.acl = id])
    BY <1>8 DEF ChangeACL
  <2>2. [db EXCEPT !.acl = id] \in DbType /\ [db EXCEPT !.acl = id].redaction = db.redaction
    BY <1>0 DEF DbType
  <2> QED
    BY <2>1, <2>2
<1> QED
  BY <1>1, <1>2, <1>3, <1>4, <1>5, <1>6, <1>7, <1>8

(* A request that ends without an answer promises nothing.                 *)
LEMMA NothingServed ==
  ASSUME IInv, req' = Idle, UNCHANGED <<world, db, told, always, ever>>
  PROVE  IInv'
<1>1. req'.status = "idle" /\ ~req'.told /\ \A e \in Events : req'.form[e] = "none"
  BY DEF Idle
<1>2. Shapes'
  BY IdleType DEF IInv, Shapes
<1>3. Promises'
  BY <1>1 DEF Promises, RedactionHonoured, PrunedForAReason, PrivacyKept, AccessWasGranted,
              NoWholeAfterRedaction, Events
<1>4. Progress(req)' /\ Moments'
  BY <1>1 DEF Progress, Moments
<1>5. ToldOK'
  BY <1>1 DEF IInv, ToldOK, Redacts, ShouldRedact, RecordsAgree
<1> QED
  BY <1>2, <1>3, <1>4, <1>5 DEF IInv

(* A step of the request: one place further.                               *)
LEMMA GoesOn ==
  ASSUME NEW r \in ReqType, Goes(r)
  PROVE  /\ req' \in ReqType /\ req'.at = r.at + 1 /\ r.at \in Nat
         /\ req'.endpoint = r.endpoint /\ req'.status = r.status /\ req'.asked = r.asked
         /\ req'.loaded = r.loaded /\ req'.marked = r.marked /\ req'.row = r.row
         /\ req'.partial = r.partial /\ req'.withheld = r.withheld /\ req'.erased = r.erased
         /\ req'.visible = r.visible /\ req'.guessed = r.guessed /\ req'.told = r.told
         /\ req'.form = r.form
BY DEF Goes, ReqType

(* A step that serves nothing keeps what was promised.                     *)
LEMMA StepOn ==
  ASSUME IInv, req' \in ReqType, req.status = "running",
         req'.status = "running", req'.endpoint = req.endpoint, req'.told = req.told,
         req'.form = req.form, UNCHANGED <<world, db, told, always, ever>>,
         Place(req)', LoadOK(req)', RowOK(req)', MarkOK(req)', RoomOK(req)', WithheldOK(req)',
         VisibleOK(req)'
  PROVE  IInv'
<1>0. Shapes /\ Progress(req) /\ Moments /\ ToldOK /\ Promises
  BY DEF IInv
<1>1. Shapes'
  BY <1>0 DEF Shapes
<1>2. Moments'
  <2>1. Facts(db)' = Facts(db)
    BY DEF Facts, ShouldRedact, Allowed
  <2> QED
    BY <1>0, <2>1 DEF Moments
<1>3. ToldOK'
  BY <1>0 DEF ToldOK, Redacts, ShouldRedact, RecordsAgree
<1>4. Blank(req) /\ Blank(req)'
  BY <1>0 DEF Progress, Blank
<1>5. Promises'
  <2>1. RedactionHonoured' /\ PrunedForAReason'
    BY <1>0 DEF Promises, RedactionHonoured, PrunedForAReason
  <2>2. AccessWasGranted' /\ NoWholeAfterRedaction'
    BY <1>0 DEF Promises, AccessWasGranted, NoWholeAfterRedaction, RecordsAgree
  <2>3. PrivacyKept'
    BY <1>4 DEF PrivacyKept, Blank, Events
  <2> QED
    BY <2>1, <2>2, <2>3 DEF Promises
<1>6. Progress(req)'
  BY <1>4 DEF Progress
<1> QED
  BY <1>1, <1>2, <1>3, <1>5, <1>6 DEF IInv

(* The parts of Progress that a step leaves alone.                         *)
LEMMA Carried ==
  ASSUME UNCHANGED <<world, db, always, ever>>,
         req.at \in Nat, req'.at = req.at + 1, req'.endpoint = req.endpoint
  PROVE  /\ (LoadOK(req) /\ req'.loaded = req.loaded /\ ~In(req, {1}, {4}, {4, 8})) => LoadOK(req)'
         /\ (~In(req, {2}, {5}, {5, 9})) => RowOK(req)'
         /\ (MarkOK(req) /\ req'.loaded = req.loaded /\ req'.marked = req.marked
             /\ ~In(req, {3}, {6}, {6, 10})) => MarkOK(req)'
         /\ (RoomOK(req) /\ req'.partial = req.partial /\ ~In(req, {4}, {3}, {1})
             /\ ~In(req, {5}, {2}, {2}) /\ ~In(req, {}, {1}, {3})) => RoomOK(req)'
         /\ (WithheldOK(req) /\ req'.withheld = req.withheld /\ ~In(req, {}, {7}, {})) => WithheldOK(req)'
         /\ (VisibleOK(req) /\ req'.erased = req.erased /\ req'.visible = req.visible
             /\ req'.guessed = req.guessed
             /\ ~In(req, {6}, {8}, {}) /\ ~In(req, {7}, {9}, {}) /\ ~In(req, {8}, {10}, {})) => VisibleOK(req)'
         /\ (Place(req) /\ ~In(req, {8}, {10}, {11})) => Place(req)'
<1>1. (LoadOK(req) /\ req'.loaded = req.loaded /\ ~In(req, {1}, {4}, {4, 8})) => LoadOK(req)'
  BY DEF LoadOK, PastLoad, In
<1>2. (~In(req, {2}, {5}, {5, 9})) => RowOK(req)'
  BY DEF RowOK, AtBans, In
<1>3. (MarkOK(req) /\ req'.loaded = req.loaded /\ req'.marked = req.marked
       /\ ~In(req, {3}, {6}, {6, 10})) => MarkOK(req)'
  BY DEF MarkOK, PastBans, In, Heeded, ShouldRedact
<1>4. (RoomOK(req) /\ req'.partial = req.partial /\ ~In(req, {4}, {3}, {1})
       /\ ~In(req, {5}, {2}, {2}) /\ ~In(req, {}, {1}, {3})) => RoomOK(req)'
  BY DEF RoomOK, PastPartial, PastMember, PastAcl, In
<1>5. (WithheldOK(req) /\ req'.withheld = req.withheld /\ ~In(req, {}, {7}, {})) => WithheldOK(req)'
  BY DEF WithheldOK, PastWithheld, In
<1>6. (VisibleOK(req) /\ req'.erased = req.erased /\ req'.visible = req.visible
       /\ req'.guessed = req.guessed
       /\ ~In(req, {6}, {8}, {}) /\ ~In(req, {7}, {9}, {}) /\ ~In(req, {8}, {10}, {})) => VisibleOK(req)'
  <2> SUFFICES ASSUME VisibleOK(req), req'.erased = req.erased, req'.visible = req.visible,
                      req'.guessed = req.guessed, ~In(req, {6}, {8}, {}), ~In(req, {7}, {9}, {}),
                      ~In(req, {8}, {10}, {})
               PROVE  VisibleOK(req)'
    OBVIOUS
  <2>1. ~AtVisible(req)' /\ ~PastVisible(req)' /\ ~PastVisible(req)
    BY DEF AtVisible, PastVisible, In
  <2>2. req.visible
    BY <2>1 DEF VisibleOK
  <2> QED
    BY <2>1, <2>2 DEF VisibleOK
<1>7. (Place(req) /\ ~In(req, {8}, {10}, {11})) => Place(req)'
  BY DEF Place, In
<1> QED
  BY <1>1, <1>2, <1>3, <1>4, <1>5, <1>6, <1>7

(* The membership check.                                                   *)
LEMMA MemberStep == IInv /\ CheckMember => IInv'
<1> SUFFICES ASSUME IInv, CheckMember PROVE IInv'
  OBVIOUS
<1>0. /\ req \in ReqType /\ req.status = "running" /\ Progress(req)
      /\ UNCHANGED <<world, db, told, always, ever>>
  BY DEF IInv, Shapes, CheckMember, Doing, Rest
<1>1. CASE ~db.member
  BY <1>0, <1>1, NothingServed DEF CheckMember, Ends
<1>2. CASE db.member
  <2>1. Goes(req)
    BY <1>2 DEF CheckMember
  <2>2. In(req, {5}, {2}, {2})
    BY <1>0, WhereItIs DEF CheckMember, Progress
  <2>3. "member" \in ever
    BY <1>0, <1>2, FactsMean DEF IInv, Moments
  <2>4. RoomOK(req)'
    BY <1>0, <2>1, <2>2, <2>3, GoesOn DEF Progress, RoomOK, PastPartial, PastMember, PastAcl, In
  <2>5. /\ Place(req)' /\ LoadOK(req)' /\ RowOK(req)' /\ MarkOK(req)' /\ WithheldOK(req)' /\ VisibleOK(req)'
    BY <1>0, <2>1, <2>2, GoesOn, Carried DEF Progress, In
  <2> QED
    BY <1>0, <2>1, <2>4, <2>5, GoesOn, StepOn
<1> QED
  BY <1>1, <1>2

(* The partial state check.                                                *)
LEMMA PartialStep == IInv /\ CheckPartial => IInv'
<1> SUFFICES ASSUME IInv, CheckPartial PROVE IInv'
  OBVIOUS
<1>0. /\ req \in ReqType /\ req.status = "running" /\ Progress(req) /\ db \in DbType
      /\ UNCHANGED <<world, db, told, always, ever>>
  BY DEF IInv, Shapes, CheckPartial, Doing, Rest
<1>1. CASE db.partial /\ req.endpoint # "missing"
  BY <1>0, <1>1, NothingServed DEF CheckPartial, Ends
<1>2. CASE ~(db.partial /\ req.endpoint # "missing")
  <2> DEFINE r == [req EXCEPT !.partial = db.partial]
  <2>1. Goes(r)
    BY <1>2 DEF CheckPartial
  <2>2. /\ r \in ReqType /\ r.partial = db.partial
        /\ r.endpoint = req.endpoint /\ r.status = req.status /\ r.at = req.at
        /\ r.loaded = req.loaded /\ r.marked = req.marked /\ r.withheld = req.withheld
        /\ r.erased = req.erased /\ r.visible = req.visible /\ r.guessed = req.guessed
        /\ r.told = req.told /\ r.form = req.form
    BY <1>0 DEF ReqType, DbType
  <2> HIDE DEF r
  <2>3. In(req, {4}, {3}, {1})
    BY <1>0, WhereItIs DEF CheckPartial, Progress
  <2>4. /\ "hidden" \in always => db.partial /\ ~world.local
        /\ db.partial /\ ~world.local => "hidden" \in ever
        /\ req.endpoint # "missing" => "partial" \notin always
    BY <1>0, <1>2, FactsMean DEF IInv, Moments
  <2>5. RoomOK(req)'
    BY <1>0, <2>1, <2>2, <2>3, <2>4, GoesOn DEF Progress, RoomOK, PastPartial, PastMember, PastAcl, In
  <2>6. /\ Place(req)' /\ LoadOK(req)' /\ RowOK(req)' /\ MarkOK(req)' /\ WithheldOK(req)' /\ VisibleOK(req)'
    BY <1>0, <2>1, <2>2, <2>3, GoesOn, Carried DEF Progress, In
  <2> QED
    BY <1>0, <2>1, <2>2, <2>5, <2>6, GoesOn, StepOn
<1> QED
  BY <1>1, <1>2

(* The ACL check, of a parsed ACL or a new one.                            *)
LEMMA AclStep == IInv /\ CheckACL => IInv'
<1> SUFFICES ASSUME IInv, CheckACL PROVE IInv'
  OBVIOUS
<1>0. /\ req \in ReqType /\ req.status = "running" /\ Progress(req)
      /\ UNCHANGED <<world, db, told, always, ever>>
  BY DEF IInv, Shapes, CheckACL, Doing, Rest
<1>1. CASE ~Allowed(db.acl)
  BY <1>0, <1>1, NothingServed DEF CheckACL, Ends
<1>2. CASE Allowed(db.acl)
  <2>1. Goes(req)
    BY <1>2 DEF CheckACL
  <2>2. In(req, {}, {1}, {3})
    BY <1>0, WhereItIs DEF CheckACL, Progress
  <2>3. "allowed" \in ever
    BY <1>0, <1>2, FactsMean DEF IInv, Moments
  <2>4. RoomOK(req)'
    BY <1>0, <2>1, <2>2, <2>3, GoesOn DEF Progress, RoomOK, PastPartial, PastMember, PastAcl, In
  <2>5. /\ Place(req)' /\ LoadOK(req)' /\ RowOK(req)' /\ MarkOK(req)' /\ WithheldOK(req)' /\ VisibleOK(req)'
    BY <1>0, <2>1, <2>2, GoesOn, Carried DEF Progress, In
  <2> QED
    BY <1>0, <2>1, <2>4, <2>5, GoesOn, StepOn
<1> QED
  BY <1>1, <1>2

(* Reading the events.                                                     *)
LEMMA LoadStep == IInv /\ Load => IInv'
<1> SUFFICES ASSUME IInv, Load PROVE IInv'
  OBVIOUS
<1> DEFINE found == req.asked \cap Held(db)
<1>0. /\ req \in ReqType /\ req.status = "running" /\ Progress(req)
      /\ UNCHANGED <<world, db, told, always, ever>>
  BY DEF IInv, Shapes, Load, Doing, Rest
<1>1. CASE req.endpoint = "event" /\ found = {}
  BY <1>0, <1>1, NothingServed DEF Load, Ends
<1>2. CASE ~(req.endpoint = "event" /\ found = {})
  <2> DEFINE r == [req EXCEPT !.loaded = found]
  <2>1. Goes(r)
    BY <1>2 DEF Load
  <2>2. /\ r \in ReqType /\ r.loaded = found
        /\ r.endpoint = req.endpoint /\ r.status = req.status /\ r.at = req.at
        /\ r.marked = req.marked /\ r.withheld = req.withheld /\ r.partial = req.partial
        /\ r.erased = req.erased /\ r.visible = req.visible /\ r.guessed = req.guessed
        /\ r.told = req.told /\ r.form = req.form
    BY <1>0 DEF ReqType
  <2>3. In(req, {1}, {4}, {4, 8})
    BY <1>0, WhereItIs DEF Load, Progress
  <2>4. "redaction" \in found => db.redaction /\ ~world.gone
    BY DEF Held
  <2> HIDE DEF r, found
  <2>5. LoadOK(req)'
    BY <1>0, <2>1, <2>2, <2>4, GoesOn DEF LoadOK
  <2>6. MarkOK(req)'
    BY <1>0, <2>1, <2>2, <2>3, GoesOn DEF MarkOK, PastBans, In
  <2>7. /\ Place(req)' /\ RowOK(req)' /\ RoomOK(req)' /\ WithheldOK(req)' /\ VisibleOK(req)'
    BY <1>0, <2>1, <2>2, <2>3, GoesOn, Carried DEF Progress, In
  <2> QED
    BY <1>0, <2>1, <2>2, <2>5, <2>6, <2>7, GoesOn, StepOn
<1> QED
  BY <1>1, <1>2

(* Reading the redactions.                                                 *)
LEMMA RedactionsStep == IInv /\ ReadRedactions => IInv'
<1> SUFFICES ASSUME IInv, ReadRedactions PROVE IInv'
  OBVIOUS
<1> DEFINE row == db.redaction /\ "row" \notin world.blank /\ "original" \in req.loaded
           r == [req EXCEPT !.row = row]
<1>0. /\ req \in ReqType /\ req.status = "running" /\ Progress(req)
      /\ UNCHANGED <<world, db, told, always, ever>>
  BY DEF IInv, Shapes, ReadRedactions, Doing, Rest
<1>1. Goes(r)
  BY DEF ReadRedactions
<1>2. /\ r \in ReqType /\ r.row = row
      /\ r.endpoint = req.endpoint /\ r.status = req.status /\ r.at = req.at
      /\ r.loaded = req.loaded /\ r.marked = req.marked /\ r.withheld = req.withheld
      /\ r.partial = req.partial
      /\ r.erased = req.erased /\ r.visible = req.visible /\ r.guessed = req.guessed
      /\ r.told = req.told /\ r.form = req.form
  BY <1>0 DEF ReqType
<1>3. In(req, {2}, {5}, {5, 9})
  BY <1>0, WhereItIs DEF ReadRedactions, Progress
<1>4. /\ "original" \in req.loaded /\ "redacted" \in always => row
      /\ row /\ world.type # "create" /\ ShouldRedact => "redacted" \in ever
  BY <1>0, FactsMean DEF IInv, Moments
<1>5. Events \subseteq req.loaded /\ "row" \notin world.blank => row
  BY <1>0, <1>3 DEF Progress, LoadOK, PastLoad, In, Events
<1> HIDE DEF r, row
<1>6. RowOK(req)'
  <2>1. req'.row = row /\ req'.loaded = req.loaded
    BY <1>1, <1>2, GoesOn
  <2>2. ShouldRedact' = ShouldRedact /\ UNCHANGED <<world, always, ever>>
    BY <1>0 DEF ShouldRedact
  <2> QED
    BY <1>4, <1>5, <2>1, <2>2 DEF RowOK, Events
<1>7. /\ Place(req)' /\ LoadOK(req)' /\ MarkOK(req)' /\ RoomOK(req)' /\ WithheldOK(req)' /\ VisibleOK(req)'
  BY <1>0, <1>1, <1>2, <1>3, GoesOn, Carried DEF Progress, In
<1> QED
  BY <1>0, <1>1, <1>2, <1>6, <1>7, GoesOn, StepOn

(* Reading the bans and marking what is to be pruned.                      *)
LEMMA BansStep == IInv /\ ApplyRedactions => IInv'
<1> SUFFICES ASSUME IInv, ApplyRedactions PROVE IInv'
  OBVIOUS
<1> DEFINE marked == "original" \in req.loaded /\ IsRedacted(req.row, db.ban)
           r == [req EXCEPT !.row = FALSE, !.marked = marked]
<1>0. /\ req \in ReqType /\ req.status = "running" /\ Progress(req) /\ db \in DbType /\ world \in WorldType
      /\ UNCHANGED <<world, db, told, always, ever>>
  BY DEF IInv, Shapes, ApplyRedactions, Doing, Rest
<1>1. Goes(r)
  BY DEF ApplyRedactions
<1>2. marked \in BOOLEAN
  BY DEF IsRedacted
<1> HIDE DEF marked
<1>3. /\ r \in ReqType /\ r.marked = marked
      /\ r.endpoint = req.endpoint /\ r.status = req.status /\ r.at = req.at
      /\ r.loaded = req.loaded /\ r.withheld = req.withheld
      /\ r.partial = req.partial
      /\ r.erased = req.erased /\ r.visible = req.visible /\ r.guessed = req.guessed
      /\ r.told = req.told /\ r.form = req.form
  BY <1>0, <1>2 DEF ReqType
<1> HIDE DEF r
<1>4. In(req, {3}, {6}, {6, 10})
  BY <1>0, WhereItIs DEF ApplyRedactions, Progress
<1>5. RowOK(req) /\ AtBans(req)
  BY <1>0, <1>4 DEF Progress, AtBans
<1>6. "banned" \in Facts(db) <=> BanAppliesTo(db.ban)
  <2>1. db.ban \in Int /\ world.ordering \in Int
    BY <1>0 DEF DbType, WorldType, NoBan
  <2> QED
    BY <2>1, FactsMean DEF BanAppliesTo
<1>7. "original" \in req.loaded /\ always \cap {"redacted", "banned"} # {} => marked
  <2> SUFFICES ASSUME "original" \in req.loaded, always \cap {"redacted", "banned"} # {}
               PROVE  IsRedacted(req.row, db.ban)
    BY DEF marked
  <2>1. CASE "redacted" \in always
    <3>1. req.row
      BY <1>5, <2>1 DEF RowOK
    <3>2. world.type # "create" /\ ShouldRedact
      BY <1>0, <2>1, FactsMean DEF IInv, Moments
    <3> QED
      BY <3>1, <3>2 DEF IsRedacted
  <2>2. CASE "banned" \in always
    BY <1>0, <1>6, <2>2 DEF IInv, Moments, IsRedacted
  <2> QED
    BY <2>1, <2>2
<1>8. Events \subseteq req.loaded /\ Heeded => marked
  BY <1>5 DEF RowOK, Heeded, marked, IsRedacted, Events
<1>9. marked => ever \cap {"redacted", "banned"} # {}
  <2> SUFFICES ASSUME IsRedacted(req.row, db.ban) PROVE ever \cap {"redacted", "banned"} # {}
    BY DEF marked
  <2>1. CASE req.row /\ world.type # "create" /\ ShouldRedact
    BY <1>5, <2>1 DEF RowOK
  <2>2. CASE BanAppliesTo(db.ban)
    BY <1>0, <1>6, <2>2 DEF IInv, Moments
  <2> QED
    BY <2>1, <2>2 DEF IsRedacted
<1>10. MarkOK(req)'
  <2>1. req'.marked = marked /\ req'.loaded = req.loaded
    BY <1>1, <1>3, GoesOn
  <2>2. Heeded' = Heeded /\ UNCHANGED <<always, ever>>
    BY <1>0 DEF Heeded, ShouldRedact
  <2> QED
    BY <1>7, <1>8, <1>9, <2>1, <2>2 DEF MarkOK, Events
<1>11. /\ Place(req)' /\ LoadOK(req)' /\ RowOK(req)' /\ RoomOK(req)' /\ WithheldOK(req)' /\ VisibleOK(req)'
  BY <1>0, <1>1, <1>3, <1>4, GoesOn, Carried DEF Progress, In
<1> QED
  BY <1>0, <1>1, <1>3, <1>10, <1>11, GoesOn, StepOn

(* Finding the redactions to withhold.                                     *)
LEMMA WithheldStep == IInv /\ FindWithheld => IInv'
<1> SUFFICES ASSUME IInv, FindWithheld PROVE IInv'
  OBVIOUS
<1> DEFINE r == [req EXCEPT !.withheld = Withheld(db)]
<1>0. /\ req \in ReqType /\ req.status = "running" /\ Progress(req)
      /\ UNCHANGED <<world, db, told, always, ever>>
  BY DEF IInv, Shapes, FindWithheld, Doing, Rest
<1>1. Goes(r)
  BY DEF FindWithheld
<1>2. Withheld(db) \in BOOLEAN
  BY DEF Withheld
<1>3. /\ r \in ReqType /\ r.withheld = Withheld(db)
      /\ r.endpoint = req.endpoint /\ r.status = req.status /\ r.at = req.at
      /\ r.loaded = req.loaded /\ r.marked = req.marked /\ r.partial = req.partial
      /\ r.erased = req.erased /\ r.visible = req.visible /\ r.guessed = req.guessed
      /\ r.told = req.told /\ r.form = req.form
  BY <1>0, <1>2 DEF ReqType
<1> HIDE DEF r
<1>4. In(req, {}, {7}, {})
  BY <1>0, WhereItIs DEF FindWithheld, Progress
<1>5. WithheldOK(req)'
  <2>1. req'.withheld = Withheld(db) /\ world' = world
    BY <1>0, <1>1, <1>3, GoesOn
  <2> QED
    BY <2>1 DEF WithheldOK, Withheld
<1>6. /\ Place(req)' /\ LoadOK(req)' /\ RowOK(req)' /\ MarkOK(req)' /\ RoomOK(req)' /\ VisibleOK(req)'
  BY <1>0, <1>1, <1>3, <1>4, GoesOn, Carried DEF Progress, In
<1> QED
  BY <1>0, <1>1, <1>3, <1>5, <1>6, GoesOn, StepOn

(* Reading whether the sender was erased.                                  *)
LEMMA ErasedStep == IInv /\ CheckErased => IInv'
<1> SUFFICES ASSUME IInv, CheckErased PROVE IInv'
  OBVIOUS
<1> DEFINE r == [req EXCEPT !.erased = db.erased]
<1>0. /\ req \in ReqType /\ req.status = "running" /\ Progress(req) /\ db \in DbType
      /\ UNCHANGED <<world, db, told, always, ever>>
  BY DEF IInv, Shapes, CheckErased, Doing, Rest
<1>1. Goes(r)
  BY DEF CheckErased
<1>2. /\ r \in ReqType /\ r.erased = db.erased
      /\ r.endpoint = req.endpoint /\ r.status = req.status /\ r.at = req.at
      /\ r.loaded = req.loaded /\ r.marked = req.marked /\ r.partial = req.partial
      /\ r.withheld = req.withheld /\ r.visible = req.visible /\ r.guessed = req.guessed
      /\ r.told = req.told /\ r.form = req.form
  BY <1>0 DEF ReqType, DbType
<1> HIDE DEF r
<1>3. In(req, {6}, {8}, {})
  BY <1>0, WhereItIs DEF CheckErased, Progress
<1>4. ("erased" \in always => db.erased) /\ (db.erased => "erased" \in ever)
  BY <1>0, FactsMean DEF IInv, Moments
<1>5. VisibleOK(req)'
  <2>1. /\ req'.erased = db.erased /\ req'.visible = req.visible /\ UNCHANGED <<always, ever>>
        /\ req'.endpoint = req.endpoint /\ req'.at = req.at + 1
    BY <1>0, <1>1, <1>2, GoesOn
  <2>2. ~PastVisible(req) /\ ~PastVisible(req)'
    BY <1>3, <2>1 DEF PastVisible, In
  <2>3. req.visible
    BY <1>0, <2>2 DEF Progress, VisibleOK
  <2> QED
    BY <1>4, <2>1, <2>2, <2>3 DEF VisibleOK
<1>6. /\ Place(req)' /\ LoadOK(req)' /\ RowOK(req)' /\ MarkOK(req)' /\ RoomOK(req)' /\ WithheldOK(req)'
  BY <1>0, <1>1, <1>2, <1>3, GoesOn, Carried DEF Progress, In
<1> QED
  BY <1>0, <1>1, <1>2, <1>5, <1>6, GoesOn, StepOn

(* The setting as it is, or taken for open.                                *)
LEMMA VisibilityRule ==
  ASSUME world \in WorldType, NEW v \in {VisibilityAt, "shared"}
  PROVE  /\ VisibleToServer(v) \in BOOLEAN
         /\ VisibleToServer(v) => /\ ~req.erased /\ ~(req.partial /\ ~world.local)
                                  /\ v # VisibilityAt \/ ~Restricted
         /\ ~VisibleToServer(v) => req.erased \/ (req.partial /\ ~world.local) \/ Restricted
<1>1. /\ world.visibility \in {"unknown", "unset", "shared", "invited", "joined"}
      /\ world.member \in {"none", "invite", "join"}
  BY DEF WorldType
<1>2. VisibleToServer(v) \in BOOLEAN
  BY DEF VisibleToServer
<1> QED
  BY <1>1, <1>2 DEF VisibleToServer, VisibilityAt, Restricted

(* Deciding what the server may see.                                       *)
LEMMA VisibleStep == IInv /\ CheckVisible => IInv'
<1> SUFFICES ASSUME IInv, CheckVisible PROVE IInv'
  OBVIOUS
<1>0. /\ req \in ReqType /\ req.status = "running" /\ Progress(req) /\ world \in WorldType
      /\ UNCHANGED <<world, db, told, always, ever>>
  BY DEF IInv, Shapes, CheckVisible, Doing, Rest
<1>1. PICK v \in {VisibilityAt, "shared"}, g \in BOOLEAN :
        /\ Goes([req EXCEPT !.erased = FALSE, !.visible = VisibleToServer(v), !.guessed = g])
        /\ v # VisibilityAt => g
  <2>1. CASE Goes([req EXCEPT !.erased = FALSE, !.visible = VisibleToServer(VisibilityAt)])
    <3>1. [req EXCEPT !.erased = FALSE, !.visible = VisibleToServer(VisibilityAt)]
            = [req EXCEPT !.erased = FALSE, !.visible = VisibleToServer(VisibilityAt), !.guessed = req.guessed]
      BY <1>0 DEF ReqType
    <3>2. req.guessed \in BOOLEAN
      BY <1>0 DEF ReqType
    <3> QED
      BY <2>1, <3>1, <3>2
  <2>2. CASE Goes([req EXCEPT !.erased = FALSE, !.visible = VisibleToServer("shared"), !.guessed = TRUE])
    BY <2>2
  <2> QED
    BY <2>1, <2>2 DEF CheckVisible
<1> DEFINE seen == VisibleToServer(v)
           r == [req EXCEPT !.erased = FALSE, !.visible = seen, !.guessed = g]
<1>2. /\ seen \in BOOLEAN
      /\ seen => ~req.erased /\ ~(req.partial /\ ~world.local) /\ (v # VisibilityAt \/ ~Restricted)
      /\ ~seen => req.erased \/ (req.partial /\ ~world.local) \/ Restricted
  BY <1>0, VisibilityRule
<1>3. Goes(r)
  BY <1>1
<1> HIDE DEF seen
<1>4. /\ r \in ReqType /\ r.visible = seen /\ r.guessed = g
      /\ r.endpoint = req.endpoint /\ r.status = req.status /\ r.at = req.at
      /\ r.loaded = req.loaded /\ r.marked = req.marked /\ r.partial = req.partial
      /\ r.withheld = req.withheld
      /\ r.told = req.told /\ r.form = req.form
  BY <1>0, <1>2 DEF ReqType
<1> HIDE DEF r
<1>5. In(req, {7}, {9}, {})
  BY <1>0, WhereItIs DEF CheckVisible, Progress
<1>6. /\ ("erased" \in always => req.erased) /\ (req.erased => "erased" \in ever)
      /\ ("hidden" \in always => req.partial /\ ~world.local)
      /\ (req.partial /\ ~world.local => "hidden" \in ever)
  <2>1. AtVisible(req) /\ PastPartial(req)
    BY <1>5 DEF AtVisible, PastPartial, In
  <2> QED
    BY <1>0, <2>1 DEF Progress, VisibleOK, RoomOK
<1>7. VisibleOK(req)'
  <2>1. /\ req'.visible = seen /\ req'.guessed = g /\ UNCHANGED <<world, always, ever>>
        /\ req'.endpoint = req.endpoint /\ req'.at = req.at + 1
    BY <1>0, <1>3, <1>4, GoesOn
  <2>2. ~AtVisible(req)' /\ PastVisible(req)'
    BY <1>5, <2>1 DEF AtVisible, PastVisible, In
  <2>3. seen => always \cap {"erased", "hidden"} = {} /\ (g \/ ~Restricted)
    BY <1>1, <1>2, <1>6
  <2>4. ~seen => ever \cap {"erased", "hidden"} # {} \/ Restricted
    BY <1>2, <1>6
  <2>5. Restricted' = Restricted
    BY <2>1 DEF Restricted
  <2> QED
    BY <2>1, <2>2, <2>3, <2>4, <2>5 DEF VisibleOK
<1>8. /\ Place(req)' /\ LoadOK(req)' /\ RowOK(req)' /\ MarkOK(req)' /\ RoomOK(req)' /\ WithheldOK(req)'
  BY <1>0, <1>3, <1>4, <1>5, GoesOn, Carried DEF Progress, In
<1> QED
  BY <1>0, <1>3, <1>4, <1>7, <1>8, GoesOn, StepOn

(* A request begins.                                                       *)
LEMMA BeginStep == IInv /\ Begin => IInv'
<1> SUFFICES ASSUME IInv, Begin PROVE IInv'
  OBVIOUS
<1>0. Shapes /\ ToldOK /\ UNCHANGED <<world, db, told>> /\ always' = Facts(db) /\ ever' = Facts(db)
  BY DEF IInv, Begin
<1>1. PICK endpoint \in DOMAIN Script : \E asked \in MayAsk(endpoint) :
        req' = [Idle EXCEPT !.endpoint = endpoint, !.status = "running", !.asked = asked, !.told = told]
  BY DEF Begin
<1>2. PICK asked \in MayAsk(endpoint) :
        req' = [Idle EXCEPT !.endpoint = endpoint, !.status = "running", !.asked = asked, !.told = told]
  BY <1>1
<1>3. endpoint \in {"event", "missing", "state"} /\ asked \in SUBSET Events
  <2>1. endpoint \in {"event", "missing", "state"}
    BY ScriptNames
  <2> QED
    BY <2>1 DEF MayAsk, Events
<1>4. /\ req' \in ReqType /\ req'.status = "running" /\ req'.endpoint = endpoint /\ req'.at = 1
      /\ req'.told = told /\ req'.visible /\ \A e \in Events : req'.form[e] = "none"
  BY <1>0, <1>2, <1>3 DEF Shapes, Idle, ReqType, Forms
<1>5. Shapes'
  BY <1>0, <1>4, FactsMean DEF Shapes
<1>6. Moments'
  <2>1. Facts(db)' = Facts(db)
    BY <1>0 DEF Facts, ShouldRedact, Allowed
  <2> QED
    BY <1>0, <2>1 DEF Moments
<1>7. ToldOK'
  <2>1. RecordsAgree /\ told => "redacted" \in Facts(db)
    BY <1>0, FactsMean DEF ToldOK, Redacts
  <2> QED
    BY <1>0, <1>4, <2>1 DEF ToldOK, Redacts, ShouldRedact, RecordsAgree
<1>8. Promises'
  BY <1>4 DEF Promises, RedactionHonoured, PrunedForAReason, PrivacyKept, AccessWasGranted,
              NoWholeAfterRedaction, Events
<1>9. Progress(req)'
  <2>1. Place(req)' /\ Blank(req)' /\ LoadOK(req)' /\ RowOK(req)' /\ MarkOK(req)' /\ WithheldOK(req)'
    BY <1>3, <1>4 DEF Place, Blank, LoadOK, PastLoad, RowOK, AtBans, MarkOK, PastBans, WithheldOK,
                      PastWithheld, In
  <2>2. RoomOK(req)'
    BY <1>3, <1>4 DEF RoomOK, PastPartial, PastMember, PastAcl, In
  <2>3. ~AtVisible(req)' /\ ~PastVisible(req)'
    BY <1>3, <1>4 DEF AtVisible, PastVisible, In
  <2>4. VisibleOK(req)'
    BY <1>4, <2>3 DEF VisibleOK
  <2> QED
    BY <2>1, <2>2, <2>4 DEF Progress
<1> QED
  BY <1>5, <1>6, <1>7, <1>8, <1>9 DEF IInv

(* The forms served now, and the one the first list of State left.         *)
ServedForm == [e \in Events |-> IF e \in req.asked THEN Form(e) ELSE req.form[e]]

(* Why an event is served in the form it is.                               *)
LEMMA FormFacts ==
  ASSUME IInv, Doing("serve")
  PROVE  /\ ServedForm \in [Events -> Forms]
         /\ ServedForm["original"] = "whole" =>
              \/ "original" \in req.loaded /\ ~req.marked /\ req.visible
              \/ req.endpoint = "state" /\ req.form["original"] = "whole"
         /\ ServedForm["original"] = "pruned" =>
              \/ req.marked \/ ~req.visible
              \/ req.endpoint = "state" /\ req.form["original"] = "pruned"
         /\ req.endpoint = "missing" /\ ServedForm["redaction"] = "whole" =>
              "redaction" \in req.loaded /\ ~world.unauthed /\ ~req.withheld
         /\ req.endpoint = "missing" /\ ServedForm["original"] = "whole" =>
              "original" \in req.loaded /\ ~req.marked
<1>0. /\ req \in ReqType /\ req.form \in [Events -> Forms]
      /\ req.endpoint # "state" => \A e \in Events : req.form[e] = "none"
  BY DEF IInv, Shapes, ReqType, Doing, Progress, Blank
<1>1. ASSUME NEW e \in Events PROVE Form(e) \in {"left out", "pruned", "whole"}
  BY DEF Form
<1>2. ASSUME Form("original") = "whole" PROVE "original" \in req.loaded /\ ~req.marked /\ req.visible
  BY <1>2 DEF Form, LeftOut
<1>3. ASSUME Form("original") = "pruned" PROVE req.marked \/ ~req.visible
  BY <1>3 DEF Form
<1>4. ASSUME Form("redaction") = "whole", req.endpoint = "missing"
      PROVE  "redaction" \in req.loaded /\ ~world.unauthed /\ ~req.withheld
  BY <1>4 DEF Form, LeftOut
<1>5. \A e \in Events : ServedForm[e] = IF e \in req.asked THEN Form(e) ELSE req.form[e]
  BY DEF ServedForm
<1>6. ServedForm \in [Events -> Forms]
  BY <1>0, <1>1 DEF ServedForm, Forms
<1>7. ServedForm["original"] = "whole" =>
        \/ "original" \in req.loaded /\ ~req.marked /\ req.visible
        \/ req.endpoint = "state" /\ req.form["original"] = "whole"
  BY <1>0, <1>2, <1>5 DEF Events
<1>8. ServedForm["original"] = "pruned" =>
        \/ req.marked \/ ~req.visible
        \/ req.endpoint = "state" /\ req.form["original"] = "pruned"
  BY <1>0, <1>3, <1>5 DEF Events
<1>9. req.endpoint = "missing" /\ ServedForm["redaction"] = "whole" =>
        "redaction" \in req.loaded /\ ~world.unauthed /\ ~req.withheld
  BY <1>0, <1>4, <1>5 DEF Events
<1> QED
  BY <1>6, <1>7, <1>8, <1>9

(* Serving.                                                                *)
LEMMA ServeStep == IInv /\ Serve => IInv'
<1> SUFFICES ASSUME IInv, Serve PROVE IInv'
  OBVIOUS
<1>0. /\ Shapes /\ Progress(req) /\ Moments /\ ToldOK /\ Promises /\ req \in ReqType
      /\ req.status = "running" /\ Doing("serve")
      /\ UNCHANGED <<world, db, always, ever>>
  BY DEF IInv, Shapes, Serve, Doing
<1>1. In(req, {8}, {10}, {7, 11})
  BY <1>0, WhereItIs DEF Progress
<1>2. /\ LoadOK(req) /\ MarkOK(req) /\ RoomOK(req) /\ WithheldOK(req) /\ VisibleOK(req)
      /\ PastLoad(req) /\ PastBans(req) /\ PastPartial(req) /\ PastMember(req)
      /\ req.endpoint # "event" => PastAcl(req)
      /\ req.endpoint = "missing" => PastWithheld(req)
      /\ req.endpoint # "state" => PastVisible(req)
      /\ req.endpoint = "state" => ~PastVisible(req)
  BY <1>0, <1>1 DEF Progress, PastLoad, PastBans, PastPartial, PastMember, PastAcl, PastWithheld,
                    PastVisible, In
<1>3. told' = (told \/ (req.endpoint = "missing" /\ ServedForm["redaction"] = "whole"))
  BY DEF Serve, ServedForm
<1>4. \/ req' = [Idle EXCEPT !.endpoint = req.endpoint, !.status = "answered", !.form = ServedForm,
                             !.told = req.told, !.guessed = req.guessed]
      \/ /\ req.at # Len(Script[req.endpoint])
         /\ \E asked \in SUBSET {"original"} :
              Goes([req EXCEPT !.form = ServedForm, !.asked = asked])
  BY DEF Serve, ServedForm
<1>5. ServedForm \in [Events -> Forms]
  BY <1>0, FormFacts
<1>6. /\ req' \in ReqType /\ req'.endpoint = req.endpoint /\ req'.form = ServedForm
      /\ req'.told = req.told /\ req'.guessed = req.guessed
      /\ \/ req'.status = "answered"
         \/ /\ req.endpoint = "state" /\ req'.at = 8
            /\ req'.visible = req.visible /\ req'.partial = req.partial
  <2>1. CASE req' = [Idle EXCEPT !.endpoint = req.endpoint, !.status = "answered", !.form = ServedForm,
                                 !.told = req.told, !.guessed = req.guessed]
    BY <1>0, <1>5, <2>1 DEF Idle, ReqType
  <2>2. CASE /\ req.at # Len(Script[req.endpoint])
             /\ \E asked \in SUBSET {"original"} :
                  Goes([req EXCEPT !.form = ServedForm, !.asked = asked])
    <3>1. PICK asked \in SUBSET {"original"} : Goes([req EXCEPT !.form = ServedForm, !.asked = asked])
      BY <2>2
    <3> DEFINE r == [req EXCEPT !.form = ServedForm, !.asked = asked]
    <3>2. /\ r \in ReqType /\ r.form = ServedForm /\ r.endpoint = req.endpoint /\ r.told = req.told
          /\ r.guessed = req.guessed /\ r.visible = req.visible /\ r.partial = req.partial
          /\ r.at = req.at
      BY <1>0, <1>5 DEF ReqType, Events
    <3>3. Goes(r)
      BY <3>1
    <3> HIDE DEF r
    <3>4. req.endpoint = "state" /\ req.at = 7
      BY <1>1, <2>2, Lengths DEF In
    <3> QED
      BY <3>2, <3>3, <3>4, GoesOn
  <2> QED
    BY <1>4, <2>1, <2>2
<1>7. Promises'
  <2>1. RedactionHonoured'
    <3>1. ServedForm["original"] = "whole" => always \cap {"redacted", "banned"} = {}
      BY <1>0, <1>2, FormFacts DEF MarkOK, Promises, RedactionHonoured
    <3> QED
      BY <1>0, <1>6, <3>1 DEF RedactionHonoured
  <2>2. PrunedForAReason'
    <3> SUFFICES ASSUME ServedForm["original"] = "pruned"
                 PROVE  \/ ever \cap {"redacted", "banned"} # {}
                        \/ /\ req.endpoint # "state"
                           /\ ever \cap {"erased", "hidden"} # {} \/ Restricted
      BY <1>0, <1>6 DEF PrunedForAReason, Restricted
    <3>1. CASE req.marked
      BY <1>2, <3>1 DEF MarkOK
    <3>2. CASE ~req.visible
      BY <1>2, <3>2 DEF VisibleOK
    <3>3. CASE req.endpoint = "state" /\ req.form["original"] = "pruned"
      BY <1>0, <3>3 DEF Promises, PrunedForAReason
    <3> QED
      BY <1>0, <3>1, <3>2, <3>3, FormFacts
  <2>3. PrivacyKept'
    <3> SUFFICES ASSUME ServedForm["original"] = "whole", req.endpoint \in {"event", "missing"}
                 PROVE  always \cap {"erased", "hidden"} = {} /\ (req.guessed \/ ~Restricted)
      <4>1. ~Restricted => \/ world.visibility \notin {"invited", "joined"}
                           \/ world.member = "join"
                           \/ world.member = "invite" /\ world.visibility = "invited"
        <5>1. world.member \in {"none", "invite", "join"}
          BY <1>0 DEF Shapes, WorldType
        <5> QED
          BY <5>1 DEF Restricted
      <4> QED
        BY <1>0, <1>6, <4>1 DEF PrivacyKept
    <3>1. req.visible
      BY <1>0, FormFacts
    <3> QED
      BY <1>2, <3>1 DEF VisibleOK
  <2>4. AccessWasGranted'
    BY <1>0, <1>2, <1>6 DEF AccessWasGranted, RoomOK
  <2>5. NoWholeAfterRedaction'
    <3> SUFFICES ASSUME RecordsAgree, ServedForm["original"] = "whole"
                 PROVE  ~req.told /\ ~(req.endpoint = "missing" /\ ServedForm["redaction"] = "whole")
      BY <1>0, <1>6 DEF NoWholeAfterRedaction, RecordsAgree
    <3>1. ~req.told
      BY <1>0, <1>6, <2>1 DEF ToldOK, RedactionHonoured
    <3>2. ASSUME req.endpoint = "missing", ServedForm["redaction"] = "whole" PROVE FALSE
      <4>1. /\ Events \subseteq req.loaded /\ ~req.marked /\ ~world.unauthed /\ ~req.withheld
        BY <1>0, <3>2, FormFacts DEF Events
      <4>2. Heeded
        BY <1>2, <3>2, <4>1 DEF Heeded, WithheldOK, ShouldRedact, LoadOK, Events, RecordsAgree
      <4> QED
        BY <1>2, <4>1, <4>2 DEF MarkOK
    <3> QED
      BY <3>1, <3>2
  <2> QED
    BY <2>1, <2>2, <2>3, <2>4, <2>5 DEF Promises
<1>8. ToldOK'
  <2>1. ASSUME RecordsAgree, req.endpoint = "missing", ServedForm["redaction"] = "whole" PROVE Redacts
    <3>1. "redaction" \in req.loaded /\ ~world.unauthed /\ ~req.withheld
      BY <1>0, <2>1, FormFacts
    <3> QED
      BY <1>2, <2>1, <3>1 DEF Redacts, WithheldOK, ShouldRedact, LoadOK, RecordsAgree
  <2>2. Redacts' = Redacts /\ RecordsAgree' = RecordsAgree
    BY <1>0 DEF Redacts, ShouldRedact, RecordsAgree
  <2> QED
    BY <1>0, <1>3, <1>6, <2>1, <2>2 DEF ToldOK
<1>9. Shapes'
  <2>1. told' \in BOOLEAN
    BY <1>3
  <2> QED
    BY <1>0, <1>6, <2>1 DEF Shapes
<1>10. Moments'
  <2>1. Facts(db)' = Facts(db)
    BY <1>0 DEF Facts, ShouldRedact, Allowed
  <2> QED
    BY <1>0, <2>1 DEF Moments
<1>11. Progress(req)'
  <2>1. CASE req'.status = "answered"
    BY <2>1 DEF Progress
  <2>2. CASE /\ req.endpoint = "state" /\ req'.at = 8
             /\ req'.visible = req.visible /\ req'.partial = req.partial
    <3>1. Place(req)' /\ Blank(req)' /\ LoadOK(req)' /\ RowOK(req)' /\ MarkOK(req)' /\ WithheldOK(req)'
      BY <1>6, <2>2 DEF Place, Blank, LoadOK, PastLoad, RowOK, AtBans, MarkOK, PastBans, WithheldOK,
                        PastWithheld, In
    <3>2. RoomOK(req)'
      BY <1>0, <1>2, <1>6, <2>2 DEF RoomOK, PastPartial, PastMember, PastAcl, In
    <3>3. ~AtVisible(req)' /\ ~PastVisible(req)' /\ req.visible
      BY <1>2, <1>6, <2>2 DEF AtVisible, PastVisible, VisibleOK, In
    <3>4. VisibleOK(req)'
      BY <2>2, <3>3 DEF VisibleOK
    <3> QED
      BY <3>1, <3>2, <3>4 DEF Progress
  <2> QED
    BY <1>6, <2>1, <2>2
<1> QED
  BY <1>7, <1>8, <1>9, <1>10, <1>11 DEF IInv

(* The invariant holds at the start.                                       *)
LEMMA InitIInv == Init => IInv
<1> SUFFICES ASSUME Init PROVE IInv
  OBVIOUS
<1>1. Shapes
  <2>1. world \in WorldType /\ req \in ReqType /\ told \in BOOLEAN /\ always = {} /\ ever = {}
    BY IdleType DEF Init
  <2>2. db \in DbType
    <3>1. PICK late \in BOOLEAN, banned \in BOOLEAN, partial \in BOOLEAN :
            db = [original |-> ~late, redaction |-> FALSE, ban |-> IF banned THEN 0 ELSE NoBan,
                  erased |-> FALSE, partial |-> partial, member |-> TRUE, acl |-> "open"]
      BY DEF Init
    <3>2. "open" \in AclIds
      BY DEF AclIds, AclEvents
    <3> QED
      BY <3>1, <3>2 DEF DbType, NoBan
  <2> QED
    BY <2>1, <2>2 DEF Shapes
<1>2. req.status = "idle" /\ ~req.told /\ ~told /\ \A e \in Events : req.form[e] = "none"
  BY DEF Init, Idle
<1>3. Promises
  BY <1>2 DEF Promises, RedactionHonoured, PrunedForAReason, PrivacyKept, AccessWasGranted,
              NoWholeAfterRedaction, Events
<1>4. Progress(req) /\ Moments /\ ToldOK
  BY <1>2 DEF Progress, Moments, ToldOK
<1> QED
  BY <1>1, <1>3, <1>4 DEF IInv

(* What the proofs carry along, in every reachable state.                  *)
LEMMA Inductive == Spec => []IInv
<1>1. ASSUME IInv, [Next]_vars PROVE IInv'
  <2>1. CASE UNCHANGED vars
    <3>0. UNCHANGED <<world, db, req, told, always, ever>>
      BY <2>1 DEF vars
    <3>1. Facts(db)' = Facts(db) /\ Redacts' = Redacts /\ Heeded' = Heeded /\ ShouldRedact' = ShouldRedact
      BY <3>0 DEF Facts, Redacts, Heeded, ShouldRedact, Allowed
    <3>2. Shapes' /\ Moments' /\ ToldOK'
      BY <1>1, <3>0, <3>1 DEF IInv, Shapes, Moments, ToldOK, RecordsAgree
    <3>3. Promises'
      BY <1>1, <3>0 DEF IInv, Promises, RedactionHonoured, PrunedForAReason, PrivacyKept,
                        AccessWasGranted, NoWholeAfterRedaction, RecordsAgree
    <3>4. Progress(req)'
      <4>1. Place(req)' = Place(req) /\ Blank(req)' = Blank(req) /\ LoadOK(req)' = LoadOK(req)
        BY <3>0 DEF Place, Blank, LoadOK, PastLoad, In
      <4>2. RowOK(req)' = RowOK(req) /\ MarkOK(req)' = MarkOK(req) /\ RoomOK(req)' = RoomOK(req)
        BY <3>0, <3>1 DEF RowOK, AtBans, MarkOK, PastBans, RoomOK, PastPartial, PastMember, PastAcl, In
      <4>3. WithheldOK(req)' = WithheldOK(req) /\ VisibleOK(req)' = VisibleOK(req)
        BY <3>0 DEF WithheldOK, PastWithheld, VisibleOK, AtVisible, PastVisible, Restricted, In
      <4> QED
        BY <1>1, <3>0, <4>1, <4>2, <4>3 DEF IInv, Progress
    <3> QED
      BY <3>2, <3>3, <3>4 DEF IInv
  <2>2. CASE Fail
    BY <1>1, <2>2, NothingServed DEF Fail, Ends, Rest
  <2> QED
    BY <1>1, <2>1, <2>2, BeginStep, PartialStep, MemberStep, AclStep, LoadStep, RedactionsStep,
       BansStep, WithheldStep, ErasedStep, VisibleStep, ServeStep, SynapseWrites
    DEF Next, Answer
<1> QED
  BY InitIInv, <1>1, PTL DEF Spec

-----------------------------------------------------------------------------
(* applyRedactions and BanAppliesTo, over rows and bans read at two        *)
(* different moments: an event that was redacted or covered by a ban for   *)
(* the whole of the request is served whole by no endpoint.                *)
THEOREM RedactionsAreHonoured == Spec => []RedactionHonoured
<1>1. IInv => RedactionHonoured
  BY DEF IInv, Promises
<1> QED
  BY Inductive, <1>1, PTL

(* The same and eventVisibleToServer: nothing is pruned but for a reason   *)
(* that held while the request ran.                                        *)
THEOREM PruningHasAReason == Spec => []PrunedForAReason
<1>1. IInv => PrunedForAReason
  BY DEF IInv, Promises
<1> QED
  BY Inductive, <1>1, PTL

(* eventVisibleToServer, fed by queries made before it: an erased sender's *)
(* event, or one the server may not see, is not served whole by /event or  *)
(* /get_missing_events, but where the room's setting could not be read.    *)
THEOREM PrivacyIsKept == Spec => []PrivacyKept
<1>1. IInv => PrivacyKept
  BY DEF IInv, Promises
<1> QED
  BY Inductive, <1>1, PTL

(* The checks of Event, GetMissingEvents and State come before anything is *)
(* served: access was granted at some moment of the request.               *)
THEOREM AccessIsChecked == Spec => []AccessWasGranted
<1>1. IInv => AccessWasGranted
  BY DEF IInv, Promises
<1> QED
  BY Inductive, <1>1, PTL

(* WithheldRedactions against applyRedactions: once /get_missing_events    *)
(* has let a redaction through, the original is served whole neither with  *)
(* it nor in any later answer, provided the row's recheck (redaction.go:43)*)
(* is set only where the event's is (redactionauth.go:102), and `redacts'  *)
(* lost in the row only where it is in the event.                          *)
THEOREM ServedRedactionsHold == Spec => []NoWholeAfterRedaction
<1>1. IInv => NoWholeAfterRedaction
  BY DEF IInv, Promises
<1> QED
  BY Inductive, <1>1, PTL
=============================================================================
