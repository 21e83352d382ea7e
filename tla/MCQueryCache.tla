---------------------------- MODULE MCQueryCache ----------------------------
(* Journeys for TLC: each mutation of each screen on its own, sent twice,   *)
(* with the screens whose queries it reaches; and pairs of mutations that   *)
(* meet in one entry.                                                       *)
EXTENDS QueryCache
Alone(screens, scopes) ==
  {[screens |-> screens, writes |-> {m.name}, scopes |-> scopes] :
     m \in UNION {Tabs[s].mutations : s \in screens}}
One == {"acme"}
Two == {"acme", "globex"}
MCJourneys ==
  UNION {Alone(t, Two) : t \in
    {{"organization"}, {"mcp"}, {"members"}, {"webhooks"}, {"ai"},
     {"shell", "projects"}, {"integrations"}}}
  \cup UNION {Alone(t, One) : t \in
    {{"issues", "issue"}}}
  \cup {[screens |-> {"overview", "issue"}, scopes |-> One, writes |-> {w}] :
          w \in {"resolve", "bookmark"}}
  \cup {[screens |-> {"ai_fixes", "issue"}, scopes |-> One,
         writes |-> {"autofix"}],
        [screens |-> {"webhooks"}, scopes |-> One,
         writes |-> {"create_channel", "remove_channel"}],
        [screens |-> {"members", "issues"}, scopes |-> One,
         writes |-> {"update_role", "invite"}],
        [screens |-> {"organization", "mcp"}, scopes |-> One,
         writes |-> {"rename", "set_retention"}]}
AgentJourney == {[screens |-> {"ai", "issue"}, writes |-> {}, scopes |-> One]}
=============================================================================
