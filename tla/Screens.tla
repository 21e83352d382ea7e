------------------------------- MODULE Screens -------------------------------
(***************************************************************************)
(* The screens of the dashboard that write, one operator per component:    *)
(* the queries it shows (TanStack Query keys) and the mutations it offers, *)
(* each with the keys its onSuccess invalidates or refetches.  The tabs    *)
(* inside a page are taken as open together.  A query is                   *)
(* stored in the cache as its queryFn returns it: "rows" when that unwraps *)
(* the list, "answer" when it keeps the answer of the server.  The cache   *)
(* itself is QueryCache.  Keys carry the ids of what is selected: a key    *)
(* below stands for its entry in one organization or project.              *)
(***************************************************************************)
EXTENDS Sequences, FiniteSets
E == INSTANCE Api

(* A query: its key, the endpoint it calls, the form it keeps, and those   *)
(* its component can read: that one; or either, if it unwraps what it      *)
(* reads.  An endpoint that answers a bare array is the same in both forms. *)
Query(key, endpoint, form) ==
  [key |-> key, reads |-> endpoint.reads, form |-> form, takes |-> {form}]
Unwrapped(key, endpoint) == Query(key, endpoint, "rows")
Raw(key, endpoint) ==
  Query(key, endpoint, IF endpoint.shape = "page" THEN "answer" ELSE "rows")
unwrapList(query) == [query EXCEPT !.takes = {"rows", "answer"}]

(* A mutation: its name, its endpoint and the keys its onSuccess           *)
(* invalidates; or the ones it has refetched without calling them invalid. *)
Mutation(name, endpoint, invalidated) ==
  [name |-> name, changes |-> endpoint.changes, invalidated |-> invalidated,
   refetched |-> {}]
Refetching(name, endpoint, keys) ==
  [Mutation(name, endpoint, {}) EXCEPT !.refetched = keys]

Screen(queries, mutations) == [queries |-> queries, mutations |-> mutations]

(* Every page stands in the shell: the organizations, the projects of the  *)
(* current one, and the switcher that creates an organization.             *)
OrgProvider     == {Unwrapped("organizations", E!orgs.list)}
ProjectProvider == {Unwrapped("projects", E!projects.list)}
Shell == Screen(OrgProvider \cup ProjectProvider,
                {Mutation("create_org", E!orgs.create, {"organizations"})})

-----------------------------------------------------------------------------
(* The tabs of the settings.                                               *)
RetentionCard ==
  {Refetching("set_retention", E!orgs.update, {"organizations"})}
OrganizationTab ==
  Screen({}, {Refetching("rename", E!orgs.update, {"organizations"})}
             \cup RetentionCard)

\* another key than the list is kept under
McpTabOtherKey ==
  Screen({Raw("api-tokens", E!tokens.list)},
         {Mutation("create_token", E!tokens.create, {"tokens"}),
          Mutation("remove_token", E!tokens.remove, {"tokens"})})
McpTab == Screen({Raw("api-tokens", E!tokens.list)},
                 {Mutation("create_token", E!tokens.create, {"api-tokens"}),
                  Mutation("remove_token", E!tokens.remove, {"api-tokens"})})

\* the invites are not refreshed
InviteDialogQuiet == Mutation("invite", E!orgs.invite, {})
InviteDialog == Mutation("invite", E!orgs.invite, {"invites"})
MembersTab ==
  Screen({Raw("members", E!orgs.members), Raw("invites", E!orgs.invites)},
         {InviteDialog,
          Mutation("update_role", E!orgs.updateMember, {"members"}),
          Mutation("resend", E!orgs.invite, {"invites"})})

IntegrationsTab ==
  Screen({Unwrapped("integrations", E!integrations.list)},
         {Mutation("connect", E!integrations.create, {"integrations"}),
          Mutation("sync", E!integrations.sync, {}),
          Mutation("disconnect", E!integrations.remove, {"integrations"})})

DeliveryLog ==
  Screen({unwrapList(Raw("notification-logs", E!notificationLogs.list))},
         {Mutation("replay", E!notificationLogs.replay,
                   {"notification-logs"})})
ChannelsCard ==
  {Mutation("create_channel", E!channels.create, {"channels"}),
   Mutation("remove_channel", E!channels.remove, {"channels"})}
RulesCard ==
  {Mutation("create_rule", E!alertRules.create, {"alert-rules"}),
   Mutation("remove_rule", E!alertRules.remove, {"alert-rules"})}
WebhooksTab ==
  Screen({Unwrapped("channels", E!channels.list),
          Unwrapped("alert-rules", E!alertRules.list)} \cup DeliveryLog.queries,
         ChannelsCard \cup RulesCard \cup DeliveryLog.mutations)

(* One dialog creates an agent and edits one.                              *)
AgentDialog == Mutation("save_agent", E!aiConfigs.update, {"ai-configs"})
AiTab == Screen({Unwrapped("ai-configs", E!aiConfigs.list)},
                {AgentDialog,
                 Mutation("remove_agent", E!aiConfigs.remove, {"ai-configs"})})

-----------------------------------------------------------------------------
(* The pages of projects and issues.                                       *)
ProjectsPage ==
  Screen({Raw("project-stats", E!projects.stats)},
         {Mutation("create_project", E!projects.create, {"projects"})})

OverviewPage == Screen({Raw("issues_overview", E!issues.list)}, {})

AssignDropdown == Raw("members", E!orgs.members)

(* The list of issues, with the actions of a row, its priority and the bar *)
(* of the selection.                                                       *)
ListInvalidates == {"issues", "issue-trends"}
RowActions   == Mutation("list_status", E!issues.resolve, ListInvalidates)
PriorityCell == Mutation("list_priority", E!issues.setPriority, ListInvalidates)
BulkBar      == Mutation("bulk", E!issues.bulk, ListInvalidates)
IssuesPage ==
  Screen({Raw("issues", E!issues.list), Raw("issue-trends", E!issues.trends),
          AssignDropdown},
         {RowActions, PriorityCell, BulkBar,
          Mutation("list_assign", E!issues.assign, ListInvalidates)})

EventsTab == {Raw("issue-events", E!issues.events), Raw("event", E!issues.event)}
CommentsTab ==
  Screen({unwrapList(Raw("issue-comments", E!issues.comments))},
         {Mutation("comment", E!issues.addComment, {"issue-comments"})})
IssueTrendChart == Raw("issue-series", E!issues.series)

CreateTab == Mutation("create_external", E!issueTracker.createExternalIssue,
                      {"issue-external"})
LinkTab   == Mutation("link_external", E!issueTracker.linkExternalIssue,
                      {"issue-external"})
ExternalIssueSection ==
  Screen({Raw("issue-repos", E!issueTracker.repositories),
          Raw("issue-external", E!issueTracker.externalIssues)},
         {CreateTab, LinkTab})

IssueDetailPage ==
  LET invalidate == {"issue", "issues"}
      own == Screen({Raw("issue", E!issues.get),
                     unwrapList(Raw("ai-configs", E!aiConfigs.list)),
                     AssignDropdown, IssueTrendChart},
                    {Mutation("resolve", E!issues.resolve, invalidate),
                     Mutation("unresolve", E!issues.unresolve, invalidate),
                     Mutation("ignore", E!issues.ignore, invalidate),
                     Mutation("assign", E!issues.assign, invalidate),
                     Mutation("archive", E!issues.archive, invalidate),
                     Mutation("bookmark", E!issues.bookmark, invalidate),
                     Mutation("autofix", E!issueAutofix.autofix, invalidate)})
      parts == {own, CommentsTab, ExternalIssueSection}
  IN  Screen(EventsTab \cup UNION {s.queries : s \in parts},
             UNION {s.mutations : s \in parts})

(* Showing an issue marks it seen: GET writes, and an effect of the page   *)
(* that holds the issue refreshes what lists it.                           *)
MarkSeen == Mutation("mark_seen", E!issues.get, {"issues"})

AiFixesPage == Screen({Raw("autofix-runs", E!autofixRuns.list)}, {})

-----------------------------------------------------------------------------
(* Invalidation matches by prefix: the five newest issues of the overview  *)
(* are kept under the key of the issues.                                   *)
Matching(keys) ==
  keys \cup (IF "issues" \in keys THEN {"issues_overview"} ELSE {})
(* The projects are invalidated for every organization.                    *)
EveryScope == {"projects"}

Tabs == [shell |-> Shell, organization |-> OrganizationTab, mcp |-> McpTab,
         members |-> MembersTab, integrations |-> IntegrationsTab,
         webhooks |-> WebhooksTab, ai |-> AiTab, projects |-> ProjectsPage,
         overview |-> OverviewPage, issues |-> IssuesPage,
         issue |-> IssueDetailPage, ai_fixes |-> AiFixesPage]
==============================================================================
