--------------------------------- MODULE Api ---------------------------------
(***************************************************************************)
(* The typed endpoints of the browser's API client (frontend/src/lib/      *)
(* api.ts), one record per group.  A request is abstracted to the tables   *)
(* of the server it reads and the tables it changes: what the cache of     *)
(* the dashboard (Screens, QueryCache) has to keep up with.  An endpoint   *)
(* whose list comes back through DRF's LimitOffsetPagination has the shape *)
(* "page", one that answers a bare array or an object the shape "plain".   *)
(***************************************************************************)

Reads(tables)    == [reads |-> tables, changes |-> {}, shape |-> "plain"]
Lists(tables)    == [reads |-> tables, changes |-> {}, shape |-> "page"]
Changes(tables)  == [reads |-> {}, changes |-> tables, shape |-> "plain"]

(* Personal access tokens; a token is deleted by its id.                   *)
tokens ==
  [list   |-> Lists({"tokens"}),
   create |-> Changes({"tokens"}),
   remove |-> Changes({"tokens"})]

(* An organization, its members and its invites.  The list of              *)
(* organizations carries the caller's own role, so changing a member's     *)
(* role changes it; inviting an address again re-issues its invite; an     *)
(* accepted invite adds a member and an organization.                      *)
orgs ==
  [list         |-> Lists({"orgs", "roles"}),
   create       |-> Changes({"orgs"}),
   update       |-> Changes({"orgs"}),
   usage        |-> Reads({"usage"}),
   members      |-> Reads({"members", "roles"}),
   updateMember |-> Changes({"roles"}),
   invites      |-> Reads({"invites"}),
   invite       |-> Changes({"invites"}),
   acceptInvite |-> Changes({"invites", "members", "orgs"})]

(* Source control.  Removing an integration removes its repositories;      *)
(* sync writes the repositories it finds and answers with them.            *)
integrations ==
  [list         |-> Lists({"integrations"}),
   create       |-> Changes({"integrations"}),
   remove       |-> Changes({"integrations", "repositories"}),
   sync         |-> Changes({"repositories"}),
   repositories |-> Reads({"repositories"})]

(* Notification channels and the rules that use them: the rules of a       *)
(* channel are deleted with it.                                            *)
channels ==
  [list   |-> Lists({"channels"}),
   create |-> Changes({"channels"}),
   remove |-> Changes({"channels", "rules"})]

alertRules ==
  [list   |-> Lists({"rules"}),
   create |-> Changes({"rules"}),
   update |-> Changes({"rules"}),
   remove |-> Changes({"rules"})]

(* A replay is only queued: it is a worker that delivers it, later, and    *)
(* logs that.                                                              *)
notificationLogs ==
  [list   |-> Lists({"deliveries"}),
   replay |-> Changes({})]

(* The AI agents of an organization and the history of their runs.         *)
aiConfigs ==
  [list   |-> Lists({"agents"}),
   create |-> Changes({"agents"}),
   update |-> Changes({"agents"}),
   remove |-> Changes({"agents"})]

autofixRuns == [list |-> Lists({"runs"})]

(* Traces, AI insights and logs (api.performance, api.insights, api.logs)  *)
(* only read tables that no other endpoint writes: they are left out.      *)

(* A project is listed with its open issues; its statistics are keyed by   *)
(* the projects there are.                                                 *)
projects ==
  [list   |-> Lists({"projects", "issues"}),
   create |-> Changes({"projects"}),
   stats  |-> Reads({"projects", "events"})]

(* Issues.  A list row has the caller's own read mark and bookmark; GET of *)
(* one issue marks it read, so a read changes what the lists show.         *)
issues ==
  [list         |-> Lists({"issues", "seen", "bookmarks"}),
   get          |-> [reads |-> {"issues", "bookmarks", "autofix"},
                     changes |-> {"seen"}, shape |-> "plain"],
   resolve      |-> Changes({"issues"}),
   unresolve    |-> Changes({"issues"}),
   ignore       |-> Changes({"issues"}),
   archive      |-> Changes({"issues"}),
   bookmark     |-> Changes({"bookmarks"}),
   assign       |-> Changes({"issues"}),
   setPriority  |-> Changes({"issues"}),
   bulk         |-> Changes({"issues"}),
   merge        |-> Changes({"issues", "events"}),
   trends       |-> Reads({"events"}),
   series       |-> Reads({"events"}),
   events       |-> Lists({"events"}),
   event        |-> Reads({"events"}),
   comments     |-> Lists({"comments"}),
   addComment   |-> Changes({"comments"})]

(* The issue's other resources: its repositories and tracker issues, and   *)
(* its automatic fixes.  Linking or creating a tracker issue adds a link;  *)
(* a fix adds a run, and the state of the issue follows it.                *)
issueTracker ==
  [repositories         |-> Reads({"integrations", "repositories"}),
   externalIssues       |-> Reads({"links"}),
   searchExternalIssues |-> Reads({"tracker"}),
   createExternalIssue  |-> Changes({"links", "tracker"}),
   linkExternalIssue    |-> Changes({"links"})]

issueAutofix ==
  [autofix |-> Changes({"runs", "autofix"}), autofixRuns |-> Reads({"runs"})]
==============================================================================
