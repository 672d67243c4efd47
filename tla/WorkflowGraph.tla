---------------------------- MODULE WorkflowGraph ----------------------------
(***************************************************************************)
(* WorkflowGraphBuilder: how one row of one source changes the nodes and   *)
(* edges collected so far.  An id is a tuple whose first element is its    *)
(* kind.  An edge is told apart by its ends and its kind, as it is by      *)
(* _dedupe_and_link, so that the edge list is a set.  A path is a root and *)
(* a path below it; one that AP left relative has the root "".             *)
(***************************************************************************)
EXTENDS Naturals, Sequences, FiniteSets, SequencesExt

CONSTANTS
  Canonical,    \* resolve_domain, for the names that are no noise
  Tools         \* ToolKind

NoPath == <<"", "">>

Domain(name) == <<"domain", name>>
Global == Domain("global")
File(path) == <<"file", path>>
Memory(id) == <<"memory", id>>
Hub(dom, tool) == <<"tool_hub", dom, tool>>

Line(from, kind, to) == [from |-> from, kind |-> kind, to |-> to]
Ends(e) == {e.from, e.to}

Empty ==
  [nodes   |-> {},      \* _nodes: the ids
   order   |-> <<>>,    \* _node_order
   lines   |-> {},      \* _edges
   member  |-> {},      \* domain_id and extra_domain_ids of each node
   owners  |-> {}]      \* _file_domains: paths, which are the keys of
                        \* _file_tool_counts too, and domains

\* Aliases and worktrees go to their project, no name and noise to global.
AssignDomain(name) ==
  IF name \in DOMAIN Canonical THEN Domain(Canonical[name]) ELSE Global

-----------------------------------------------------------------------------
(* The parts of the builder.                                               *)

AddLine(b, e) == [b EXCEPT !.lines = @ \cup {e}]

\* A node that is in _nodes, and one that is in _node_order as well.
AddUnordered(b, id, dom) ==
  [b EXCEPT !.nodes = @ \cup {id}, !.member = @ \cup {<<id, dom>>}]
AddNode(b, id, dom) == [AddUnordered(b, id, dom) EXCEPT !.order = Append(@, id)]

EnsureDomain(b, dom) == IF dom \in b.nodes THEN b ELSE AddNode(b, dom, dom)

AddChild(b, id, dom) ==
  IF id \in b.nodes THEN b
  ELSE AddLine(AddNode(b, id, dom), Line(id, "in_domain", dom))

\* Nodes are appended in some order: only where they begin matters.
AppendAll(s, S) == s \o SetToSeq(S)

\* _build_tool_hubs, of one tool.
AddHub(b, dom, tool) == AddChild(b, Hub(dom, tool), dom)

New == EnsureDomain(Empty, Global)

-----------------------------------------------------------------------------
(* Sources of nodes.                                                       *)

\* Memories, discussions, entities and wiki pages.
IngestOwned(b, id, name) ==
  LET dom == AssignDomain(name) IN AddChild(EnsureDomain(b, dom), id, dom)

IngestSkill(b, r) ==
  LET doms == IF r.doms = <<>> THEN <<Global>>
              ELSE [i \in DOMAIN r.doms |-> AssignDomain(r.doms[i])]
      id == <<"skill", r.name>>
      new == ToSet(doms) \ b.nodes
      all == [b EXCEPT !.nodes = @ \cup new,
                       !.order = AppendAll(@, new),
                       !.member = @ \cup {<<d, d>> : d \in new}]
      own == AddChild(all, id, doms[1])
  IN  [own EXCEPT
        !.member = IF id \in b.nodes THEN @ ELSE @ \cup {<<id, d>> : d \in ToSet(doms)},
        !.lines = @ \cup {Line(d, "invoked_skill", id) : d \in ToSet(doms)}]

IngestHook(b, r) ==
  LET dom == AssignDomain(r.dom)
      id == <<"hook", r.event>>
      own == AddChild(EnsureDomain(b, dom), id, dom)
  IN  IF id \in b.nodes THEN own ELSE AddLine(own, Line(dom, "triggered_hook", id))

IngestAgent(b, r) ==
  LET dom == AssignDomain(r.dom)
      id == <<"agent", dom, r.agent>>
  IN  AddLine(AddChild(AddHub(EnsureDomain(b, dom), dom, "Task"), id, dom),
              Line(Hub(dom, "Task"), "spawned_agent", id))

\* A command below the Bash hub of dom; one that is known stays where it is.
AddCommand(b, id, dom) ==
  LET own == AddHub(EnsureDomain(b, dom), dom, "Bash")
  IN  IF id \in b.nodes THEN own
      ELSE AddLine(AddChild(own, id, dom), Line(Hub(dom, "Bash"), "command_in_hub", id))

IngestCommand(b, r) == AddCommand(b, <<"command", r.command>>, AssignDomain(r.dom))

IngestToolEvent(b, r) ==
  LET dom == AssignDomain(r.dom)
      own == AddHub(EnsureDomain(b, dom), dom, r.tool)
  IN  IF r.path = NoPath THEN own
      ELSE [own EXCEPT
             !.owners = @ \cup {<<r.path, dom>>},
             !.lines = @ \cup {Line(Hub(dom, r.tool), "tool_used_file", File(r.path))}]

Paths(b) == {o[1] : o \in b.owners}

FinalizeFiles(b) ==
  LET files == {File(p) : p \in Paths(b)}
  IN  [b EXCEPT
        !.nodes = @ \cup files,
        !.order = AppendAll(@, files),
        !.member = @ \cup {<<File(o[1]), o[2]>> : o \in b.owners},
        !.lines = @ \cup {Line(File(o[1]), "in_domain", o[2]) : o \in b.owners}]

-----------------------------------------------------------------------------
(* Relations.                                                              *)

\* The sources that join two nodes, and only if both are there.
LinkKind ==
  [discussion_files |-> "discussion_touched_file",
   command_files    |-> "command_touched_file",
   wiki_links       |-> "wiki_links",
   wiki_citations   |-> "cited_in",
   wiki_memory      |-> "documents",
   about_entity     |-> "about_entity",
   associations     |-> "associates_with",
   supersede        |-> "supersedes"]

Joins(label, r) == Line(r.from, LinkKind[label], r.to)

IngestLink(b, label, r) ==
  IF Ends(Joins(label, r)) \subseteq b.nodes THEN AddLine(b, Joins(label, r)) ELSE b

Session(r) == <<"discussion", r.session>>

IngestDiscussionTool(b, r) ==
  LET dom == AssignDomain(r.dom)
  IN  IF Session(r) \notin b.nodes \/ r.tool \notin Tools THEN b
      ELSE AddLine(AddHub(EnsureDomain(b, dom), dom, r.tool),
                   Line(Session(r), "discussion_used_tool", Hub(dom, r.tool)))

IngestDiscussionAgent(b, r) ==
  LET dom == AssignDomain(r.dom)
      id == <<"agent", dom, r.agent>>
      own == EnsureDomain(b, dom)
      there == IF id \in b.nodes THEN own ELSE AddChild(AddHub(own, dom, "Task"), id, dom)
  IN  IF Session(r) \notin b.nodes THEN b
      ELSE AddLine(there, Line(Session(r), "discussion_spawned_agent", id))

\* A command no source of commands has told of goes to the discussion's domain.
IngestDiscussionCommand(b, r) ==
  LET id == <<"command", r.command>>
      dom == (CHOOSE m \in b.member : m[1] = Session(r))[2]
      there == IF id \in b.nodes THEN b ELSE AddCommand(b, id, dom)
  IN  IF Session(r) \notin b.nodes THEN b
      ELSE AddLine(there, Line(Session(r), "discussion_ran_command", id))

\* Usage of a skill or of an MCP server: a node that is new stays out of
\* _node_order, one that is known becomes a member of one more domain.
IngestUsage(b, id, kind, name) ==
  LET dom == AssignDomain(name)
      own == EnsureDomain(b, dom)
      in == Line(id, "in_domain", dom)
      there == IF <<id, dom>> \in own.member THEN own
               ELSE AddLine(AddUnordered(own, id, dom), in)
  IN  AddLine(there, Line(dom, kind, id))

Ingest(b, label, r) ==
  CASE label = "skills"         -> IngestSkill(b, r)
    [] label = "hooks"          -> IngestHook(b, r)
    [] label = "agents"         -> IngestAgent(b, r)
    [] label = "commands"       -> IngestCommand(b, r)
    [] label = "tool_events"    -> IngestToolEvent(b, r)
    [] label = "discussions"    -> IngestOwned(b, Session(r), r.dom)
    [] label = "entities"       -> IngestOwned(b, <<"entity", r.entity>>, r.dom)
    [] label = "wiki_pages"     -> IngestOwned(b, <<"wiki", r.page>>, r.dom)
    [] label = "skill_usage"    -> IngestUsage(b, <<"skill", r.name>>, "invoked_skill", r.dom)
    [] label = "mcp_usage"      -> IngestUsage(b, <<"mcp", r.server>>, "invoked_mcp", r.dom)
    [] label = "discussion_tools"    -> IngestDiscussionTool(b, r)
    [] label = "discussion_agents"   -> IngestDiscussionAgent(b, r)
    [] label = "discussion_commands" -> IngestDiscussionCommand(b, r)
    [] label \in DOMAIN LinkKind -> IngestLink(b, label, r)

-----------------------------------------------------------------------------
(* validate_graph.                                                         *)

EndsResolve(b) == \A e \in b.lines : Ends(e) \subseteq b.nodes

DomainsOf(b, id) == {e.to : e \in {f \in b.lines : f.from = id /\ f.kind = "in_domain"}}

InDomainCounts(b) ==
  \A id \in b.nodes :
    CASE id[1] = "domain"                    -> TRUE
      [] id[1] \in {"file", "mcp", "skill"}  -> DomainsOf(b, id) # {}
      [] OTHER                               -> Cardinality(DomainsOf(b, id)) = 1

HubsHaveDomains(b) == \A id \in b.nodes : id[1] = "tool_hub" => id[2] \in b.nodes

Valid(b) == EndsResolve(b) /\ InDomainCounts(b) /\ HubsHaveDomains(b)
=============================================================================
