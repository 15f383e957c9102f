---------------------------- MODULE Announcements ----------------------------
(***************************************************************************)
(* One announcement, and the notifications of the users it is for: how the *)
(* services that notify rely on the deduplication of the dispatcher.       *)
(*   apps/api/src/announcements/announcements.service.ts                   *)
(*   apps/api/src/notifications/notification-event.service.ts              *)
(*   apps/api/src/notifications/notification-recipient-resolver.service.ts *)
(*   apps/api/src/notifications/notification-dispatch.service.ts           *)
(*                                                                         *)
(* Nothing is in a transaction: every operation reads, then writes by id,  *)
(* and then notifies one user after the other, all in the request itself.  *)
(***************************************************************************)
EXTENDS Integers, FiniteSets

CONSTANTS
    User,       \* the users
    Request,    \* requests that can be in progress at the same time
    MaxInbox,   \* bound: notifications of one user
    MaxAltered, \* bound: users whose account or roles change
    None        \* no user

VARIABLES
    item,       \* the announcement: status ("NONE": no row), deleted and audience
    active,     \* the users whose account is ACTIVE
    teachers,   \* the users with a role of the audience "TEACHERS"
    inbox,      \* the number of notifications of each user with its dedupeKey
    req,        \* the state of each request
    altered,    \* history: users who have been inactive or whose roles have changed
    added,      \* history: users added to the audience by an edit that notified
                \* nobody, since the last publication
    broken      \* history: a request has failed while it notified, since the last
                \* publication was written

vars == <<item, active, teachers, inbox, req, altered, added, broken>>

(* The audiences that go by a role (STUDENTS, PARENTS, TEACHERS, STAFF) are*)
(* alike: TEACHERS stands for them.                                        *)
Audience == {"ALL", "TEACHERS"}

(* announcementAudienceUsers, but for the check that they are active.      *)
AudienceUsers(audience) == IF audience = "ALL" THEN User ELSE teachers

Idle == [at |-> "idle", to |-> "NONE", audience |-> "NONE", deletes |-> FALSE,
         foundPublished |-> FALSE, todo |-> {}, next |-> None]

Finish(q) == req' = [req EXCEPT ![q] = Idle]

Notifying(q) == req[q].at \in {"resolve", "select", "find", "create"}

-----------------------------------------------------------------------------
CreateAnnouncement(q, status, audience) ==
    /\ req[q] = Idle
    /\ item.status = "NONE"
    /\ item' = [item EXCEPT !.status = status, !.audience = audience]
    /\ req' = IF status = "PUBLISHED"
              THEN [req EXCEPT ![q] = [Idle EXCEPT !.at = "resolve", !.audience = audience]]
              ELSE req
    /\ UNCHANGED <<active, teachers, inbox, altered, added, broken>>

(* The status an operation writes; "NONE": an update without a status.     *)
Writes ==
    [publish |-> {"PUBLISHED"}, archive |-> {"ARCHIVED"}, delete |-> {"ARCHIVED"},
     update |-> {"NONE", "DRAFT", "PUBLISHED", "ARCHIVED"}]

(* findById and the check of the status; an update may write a status and  *)
(* an audience, or leave them.  (A field that is not given keeps its column*)
(* or takes the default of the schema it is partial to, DRAFT or ALL: both *)
(* are among the inputs.)                                                  *)
Read(q, op, to, audience) ==
    /\ req[q] = Idle
    /\ item.status # "NONE" /\ ~item.deleted
    /\ op \in {"publish", "archive"} => item.status # to
    /\ audience # "NONE" => op = "update"
    /\ req' = [req EXCEPT ![q] = [Idle EXCEPT !.at = "write", !.to = to,
                              !.audience = audience, !.deletes = (op = "delete"),
                              !.foundPublished = (item.status = "PUBLISHED")]]
    /\ UNCHANGED <<item, active, teachers, inbox, altered, added, broken>>

(* The row is written by id; an update notifies if the row it gets back is *)
(* PUBLISHED and the one it has read was not, as publish always finds it.  *)
(* A new audience of a row that was PUBLISHED is told nothing.             *)
Write(q) ==
    /\ req[q].at = "write"
    /\ item' = [status |-> IF req[q].to = "NONE" THEN item.status ELSE req[q].to,
                deleted |-> item.deleted \/ req[q].deletes,
                audience |-> IF req[q].audience = "NONE" THEN item.audience ELSE req[q].audience]
    /\ IF item'.status = "PUBLISHED" /\ ~req[q].foundPublished
       THEN /\ req' = [req EXCEPT ![q] = [Idle EXCEPT !.at = "resolve",
                                                      !.audience = item'.audience]]
            /\ added' = {} /\ broken' = FALSE
       ELSE /\ Finish(q)
            /\ added' = added \cup (AudienceUsers(item'.audience) \ AudienceUsers(item.audience))
            /\ UNCHANGED broken
    /\ UNCHANGED <<active, teachers, inbox, altered>>

-----------------------------------------------------------------------------
(* announcementPublished: the active users of the audience of the row the  *)
(* request has written, whatever it has become meanwhile, ...              *)
Resolve(q) ==
    /\ req[q].at = "resolve"
    /\ req' = [req EXCEPT ![q] = [Idle EXCEPT
         !.at = "select", !.todo = active \cap AudienceUsers(req[q].audience)]]
    /\ UNCHANGED <<item, active, teachers, inbox, altered, added, broken>>

(* ... of whom notifyUsers takes those who still are, ...                  *)
SelectActive(q) ==
    /\ req[q].at = "select"
    /\ req' = [req EXCEPT ![q] = IF req[q].todo \cap active = {} THEN Idle
                                 ELSE [req[q] EXCEPT !.at = "find", !.todo = @ \cap active]]
    /\ UNCHANGED <<item, active, teachers, inbox, altered, added, broken>>

(* Variant with a defect: a notification that exists is not looked for.    *)
FindNotification_Always(q, u) ==
    /\ req[q].at = "find"
    /\ u \in req[q].todo
    /\ req' = [req EXCEPT ![q].at = "create", ![q].next = u]
    /\ UNCHANGED <<item, active, teachers, inbox, altered, added, broken>>

(* ... and looks for a notification with the same dedupeKey: the user who  *)
(* has one is skipped.                                                     *)
FindNotification(q, u) ==
    /\ req[q].at = "find"
    /\ u \in req[q].todo
    /\ req' = [req EXCEPT ![q] =
         IF inbox[u] = 0 THEN [req[q] EXCEPT !.at = "create", !.next = u]
         ELSE IF req[q].todo = {u} THEN Idle
         ELSE [req[q] EXCEPT !.todo = @ \ {u}]]
    /\ UNCHANGED <<item, active, teachers, inbox, altered, added, broken>>

(* Others get one, whatever another request has created meanwhile.         *)
CreateNotification(q) == LET u == req[q].next IN
    /\ req[q].at = "create"
    /\ inbox[u] < MaxInbox
    /\ inbox' = [inbox EXCEPT ![u] = @ + 1]
    /\ req' = [req EXCEPT ![q] =
         IF req[q].todo = {u} THEN Idle
         ELSE [req[q] EXCEPT !.at = "find", !.todo = @ \ {u}, !.next = None]]
    /\ UNCHANGED <<item, active, teachers, altered, added, broken>>

(* A statement fails or the process stops: what is written stays.          *)
Abandon(q) ==
    /\ req[q] # Idle
    /\ broken' = (broken \/ Notifying(q))
    /\ Finish(q)
    /\ UNCHANGED <<item, active, teachers, inbox, altered, added>>

-----------------------------------------------------------------------------
(* users.service update: an account is made INACTIVE, or ACTIVE again.     *)
SetActive(u) ==
    /\ Cardinality(altered \cup {u}) <= MaxAltered
    /\ active' = IF u \in active THEN active \ {u} ELSE active \cup {u}
    /\ altered' = altered \cup {u}
    /\ UNCHANGED <<item, teachers, inbox, req, added, broken>>

(* replaceUserRoles: a user becomes a teacher, or is one no more.          *)
SetRoles(u) ==
    /\ Cardinality(altered \cup {u}) <= MaxAltered
    /\ teachers' = IF u \in teachers THEN teachers \ {u} ELSE teachers \cup {u}
    /\ altered' = altered \cup {u}
    /\ UNCHANGED <<item, active, inbox, req, added, broken>>

Init ==
    /\ item = [status |-> "NONE", deleted |-> FALSE, audience |-> "ALL"]
    /\ active = User
    /\ teachers \in SUBSET User
    /\ inbox = [u \in User |-> 0]
    /\ req = [q \in Request |-> Idle]
    /\ altered = {} /\ added = {}
    /\ broken = FALSE

Notify(q) ==
    \/ Resolve(q) \/ SelectActive(q)
    \/ \E u \in User : FindNotification(q, u)
    \/ CreateNotification(q)

Next ==
    \/ \E q \in Request :
         \/ \E status \in {"DRAFT", "PUBLISHED", "ARCHIVED"}, audience \in Audience :
               CreateAnnouncement(q, status, audience)
         \/ \E op \in DOMAIN Writes : \E to \in Writes[op], audience \in Audience \cup {"NONE"} :
               Read(q, op, to, audience)
         \/ Write(q) \/ Notify(q) \/ Abandon(q)
    \/ \E u \in User : SetActive(u) \/ SetRoles(u)

Spec == Init /\ [][Next]_vars

-----------------------------------------------------------------------------
TypeOK ==
    /\ item \in [status : {"NONE", "DRAFT", "PUBLISHED", "ARCHIVED"}, deleted : BOOLEAN,
                 audience : Audience]
    /\ active \subseteq User /\ teachers \subseteq User
    /\ inbox \in [User -> 0..MaxInbox]
    /\ \A q \in Request :
         /\ req[q].at \in {"idle", "write", "resolve", "select", "find", "create"}
         /\ req[q].todo \subseteq User
         /\ req[q].at = "resolve" => req[q].audience \in Audience
         /\ req[q].next \in User \cup {None}
         /\ req[q].at = "create" => req[q].next \in req[q].todo
         /\ req[q].at = "find" => req[q].todo # {}
    /\ altered \subseteq User /\ added \subseteq User
    /\ User \ active \subseteq altered
    /\ broken \in BOOLEAN

(* However often an announcement is published, archived and edited, a user *)
(* has no more notifications of it than requests notified at the same time;*)
(* and when it is PUBLISHED and nobody is notifying any more, everyone of  *)
(* its audience has one, unless a request failed while it notified: the    *)
(* next publication reaches those it left out (publish, update,            *)
(* notifyUsers; an update may find the row published by another request).  *)
(* Users whose account or roles have changed meanwhile are not promised    *)
(* one; nor are those an edit of the audience has added since the last     *)
(* publication: an update of a PUBLISHED row notifies nobody.              *)
AnnouncedOnce ==
    /\ \A u \in User : inbox[u] <= Cardinality(Request)
    /\ item.status = "PUBLISHED" /\ ~broken /\ (\A q \in Request : ~Notifying(q)) =>
          \A u \in AudienceUsers(item.audience) \ (altered \cup added) : inbox[u] > 0
=============================================================================
