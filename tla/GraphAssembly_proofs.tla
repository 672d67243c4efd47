------------------------- MODULE GraphAssembly_proofs -------------------------
(***************************************************************************)
(* What holds of the build of a graph for any rows of its sources, any     *)
(* projects and any sizes of its chunks and batches.                       *)
(***************************************************************************)
EXTENDS GraphAssembly, FiniteSetTheorems, SequenceTheorems, TLAPS

IsBuilder(b) == DOMAIN b = {"nodes", "order", "lines", "member", "owners"}

\* What the reading of sources keeps true of a builder before the memories.
Sane(b) ==
  /\ IsBuilder(b)
  /\ b.order \in Seq(b.nodes)
  /\ \A id \in b.nodes : id[1] # "memory"
  /\ IsFiniteSet(b.owners)
  /\ \A m \in b.member : m[1][1] = "discussion" => m[2][1] = "domain"
  /\ \A id \in b.nodes : id[1] = "discussion" => \E m \in b.member : m[1] = id

-----------------------------------------------------------------------------
(* The parts of the builder.                                               *)

LEMMA SeqIsMonotonic ==
  ASSUME NEW S, NEW T, S \subseteq T, NEW s \in Seq(S)
  PROVE  s \in Seq(T)
OBVIOUS

\* An order of the elements of a finite set is a sequence of them.
LEMMA SetToSeqIsSeq ==
  ASSUME NEW S, IsFiniteSet(S)
  PROVE  SetToSeq(S) \in Seq(S)
<1>1. Cardinality(S) \in Nat /\ ExistsBijection(1..Cardinality(S), S)
  BY FS_CardinalityType
<1>2. \E f \in [1..Cardinality(S) -> S] : IsInjective(f)
  BY <1>1 DEF ExistsBijection, Bijection, Injection, IsInjective
<1>3. QED
  BY <1>1, <1>2 DEF SetToSeq

LEMMA AddLineFields ==
  ASSUME NEW b, IsBuilder(b), NEW e
  PROVE  /\ IsBuilder(AddLine(b, e))
         /\ AddLine(b, e).nodes = b.nodes
         /\ AddLine(b, e).order = b.order
         /\ AddLine(b, e).lines = b.lines \cup {e}
         /\ AddLine(b, e).member = b.member
         /\ AddLine(b, e).owners = b.owners
BY DEF IsBuilder, AddLine

LEMMA AddUnorderedFields ==
  ASSUME NEW b, IsBuilder(b), NEW id, NEW dom
  PROVE  /\ IsBuilder(AddUnordered(b, id, dom))
         /\ AddUnordered(b, id, dom).nodes = b.nodes \cup {id}
         /\ AddUnordered(b, id, dom).order = b.order
         /\ AddUnordered(b, id, dom).lines = b.lines
         /\ AddUnordered(b, id, dom).member = b.member \cup {<<id, dom>>}
         /\ AddUnordered(b, id, dom).owners = b.owners
BY DEF IsBuilder, AddUnordered

LEMMA AddNodeFields ==
  ASSUME NEW b, IsBuilder(b), NEW id, NEW dom
  PROVE  /\ IsBuilder(AddNode(b, id, dom))
         /\ AddNode(b, id, dom).nodes = b.nodes \cup {id}
         /\ AddNode(b, id, dom).order = Append(b.order, id)
         /\ AddNode(b, id, dom).lines = b.lines
         /\ AddNode(b, id, dom).member = b.member \cup {<<id, dom>>}
         /\ AddNode(b, id, dom).owners = b.owners
<1> DEFINE c == AddUnordered(b, id, dom)
<1>1. DOMAIN c = {"nodes", "order", "lines", "member", "owners"}
  BY AddUnorderedFields DEF IsBuilder
<1>2. AddNode(b, id, dom) = [c EXCEPT !.order = Append(c.order, id)]
  BY DEF AddNode
<1> HIDE DEF c
<1>3. QED
  BY <1>1, <1>2, AddUnorderedFields DEF IsBuilder, c

\* A node that is no memory, and whose domain is one if it is a discussion.
LEMMA AddNodeSane ==
  ASSUME NEW b, Sane(b), NEW id, NEW dom,
         id[1] # "memory", id[1] = "discussion" => dom[1] = "domain"
  PROVE  Sane(AddNode(b, id, dom)) /\ AddNode(b, id, dom).nodes = b.nodes \cup {id}
<1> DEFINE c == AddNode(b, id, dom)
<1>1. /\ IsBuilder(c) /\ c.nodes = b.nodes \cup {id} /\ c.order = Append(b.order, id)
      /\ c.member = b.member \cup {<<id, dom>>} /\ c.owners = b.owners
  BY AddNodeFields DEF Sane
<1> HIDE DEF c
<1>2. b.order \in Seq(c.nodes) /\ id \in c.nodes
  BY <1>1, SeqIsMonotonic DEF Sane
<1>3. c.order \in Seq(c.nodes)
  BY <1>1, <1>2
<1>4. \A m \in c.member : m[1][1] = "discussion" => m[2][1] = "domain"
  BY <1>1 DEF Sane
<1>5. <<id, dom>> \in c.member /\ <<id, dom>>[1] = id
  BY <1>1
<1>6. \A n \in c.nodes : n[1] = "discussion" => \E m \in c.member : m[1] = n
  BY <1>1, <1>5 DEF Sane
<1>7. QED
  BY <1>1, <1>3, <1>4, <1>6 DEF Sane, c

LEMMA AddLineSane ==
  ASSUME NEW b, Sane(b), NEW e
  PROVE  Sane(AddLine(b, e)) /\ AddLine(b, e).nodes = b.nodes
BY AddLineFields DEF Sane

LEMMA EnsureDomainSane ==
  ASSUME NEW b, Sane(b), NEW dom, dom[1] = "domain"
  PROVE  Sane(EnsureDomain(b, dom)) /\ EnsureDomain(b, dom).nodes = b.nodes \cup {dom}
BY AddNodeSane DEF EnsureDomain

LEMMA AddChildSane ==
  ASSUME NEW b, Sane(b), NEW id, NEW dom,
         id[1] # "memory", id[1] = "discussion" => dom[1] = "domain"
  PROVE  Sane(AddChild(b, id, dom)) /\ AddChild(b, id, dom).nodes = b.nodes \cup {id}
BY AddNodeSane, AddLineSane DEF AddChild

LEMMA AddHubSane ==
  ASSUME NEW b, Sane(b), NEW dom, NEW tool
  PROVE  Sane(AddHub(b, dom, tool))
<1>1. Hub(dom, tool)[1] = "tool_hub"
  BY DEF Hub
<1>2. QED
  BY <1>1, AddChildSane DEF AddHub

LEMMA AssignDomainKind ==
  ASSUME NEW name
  PROVE  AssignDomain(name)[1] = "domain"
BY DEF AssignDomain, Domain, Global

-----------------------------------------------------------------------------
(* The rows of the sources.                                                *)

LEMMA AppendAllIsSeq ==
  ASSUME NEW T, NEW s \in Seq(T), NEW S, IsFiniteSet(S), S \subseteq T
  PROVE  AppendAll(s, S) \in Seq(T)
<1>1. SetToSeq(S) \in Seq(T)
  BY SetToSeqIsSeq, SeqIsMonotonic
<1>2. QED
  BY <1>1 DEF AppendAll

\* The elements of a function over a finite set.
LEMMA ToSetIsFinite ==
  ASSUME NEW f, IsFiniteSet(DOMAIN f), f \in [DOMAIN f -> ToSet(f)]
  PROVE  IsFiniteSet(ToSet(f))
<1>1. f \in Surjection(DOMAIN f, ToSet(f))
  BY DEF ToSet, Surjection
<1>2. QED
  BY <1>1, FS_Surjection DEF ExistsSurjection

LEMMA IngestOwnedSane ==
  ASSUME NEW b, Sane(b), NEW id, NEW name, id[1] # "memory"
  PROVE  Sane(IngestOwned(b, id, name))
BY AssignDomainKind, EnsureDomainSane, AddChildSane DEF IngestOwned

LEMMA IngestHookSane ==
  ASSUME NEW b, Sane(b), NEW r
  PROVE  Sane(IngestHook(b, r))
<1> DEFINE dom == AssignDomain(r.dom)
           id == <<"hook", r.event>>
           own == AddChild(EnsureDomain(b, dom), id, dom)
<1>1. Sane(own)
  BY AssignDomainKind, EnsureDomainSane, AddChildSane
<1>2. IngestHook(b, r) = IF id \in b.nodes THEN own ELSE AddLine(own, Line(dom, "triggered_hook", id))
  BY DEF IngestHook
<1>3. QED
  BY <1>1, <1>2, AddLineSane

LEMMA IngestAgentSane ==
  ASSUME NEW b, Sane(b), NEW r
  PROVE  Sane(IngestAgent(b, r))
<1> DEFINE dom == AssignDomain(r.dom)
           id == <<"agent", dom, r.agent>>
           hub == AddHub(EnsureDomain(b, dom), dom, "Task")
<1>1. Sane(hub)
  BY AssignDomainKind, EnsureDomainSane, AddHubSane
<1>2. Sane(AddChild(hub, id, dom))
  BY <1>1, AddChildSane
<1>3. QED
  BY <1>2, AddLineSane DEF IngestAgent

LEMMA AddCommandSane ==
  ASSUME NEW b, Sane(b), NEW id, NEW dom, id[1] = "command", dom[1] = "domain"
  PROVE  Sane(AddCommand(b, id, dom))
<1> DEFINE own == AddHub(EnsureDomain(b, dom), dom, "Bash")
<1>1. Sane(own)
  BY EnsureDomainSane, AddHubSane
<1>2. Sane(AddChild(own, id, dom))
  BY <1>1, AddChildSane
<1>3. QED
  BY <1>1, <1>2, AddLineSane DEF AddCommand

LEMMA IngestToolEventSane ==
  ASSUME NEW b, Sane(b), NEW r
  PROVE  Sane(IngestToolEvent(b, r))
<1> DEFINE dom == AssignDomain(r.dom)
           own == AddHub(EnsureDomain(b, dom), dom, r.tool)
           e == Line(Hub(dom, r.tool), "tool_used_file", File(r.path))
           c == [own EXCEPT !.owners = @ \cup {<<r.path, dom>>}, !.lines = @ \cup {e}]
<1>1. Sane(own)
  BY AssignDomainKind, EnsureDomainSane, AddHubSane
<1>2. IngestToolEvent(b, r) = IF r.path = NoPath THEN own ELSE c
  BY DEF IngestToolEvent
<1> HIDE DEF own
<1>3. /\ IsBuilder(c) /\ c.nodes = own.nodes /\ c.order = own.order /\ c.member = own.member
      /\ c.owners = own.owners \cup {<<r.path, dom>>}
  BY <1>1 DEF Sane, IsBuilder
<1> HIDE DEF c
<1>4. IsFiniteSet(own.owners \cup {<<r.path, dom>>})
  BY <1>1, FS_AddElement DEF Sane
<1>5. Sane(c)
  BY <1>1, <1>3, <1>4 DEF Sane
<1>6. QED
  BY <1>1, <1>2, <1>5

LEMMA IngestSkillSane ==
  ASSUME NEW b, Sane(b), NEW r, IsFiniteSet(DOMAIN r.doms)
  PROVE  Sane(IngestSkill(b, r))
<1> DEFINE doms == IF r.doms = <<>> THEN <<Global>>
                   ELSE [i \in DOMAIN r.doms |-> AssignDomain(r.doms[i])]
           id == <<"skill", r.name>>
           new == ToSet(doms) \ b.nodes
           all == [b EXCEPT !.nodes = @ \cup new,
                            !.order = AppendAll(@, new),
                            !.member = @ \cup {<<d, d>> : d \in new}]
           own == AddChild(all, id, doms[1])
           mine == {<<id, d>> : d \in ToSet(doms)}
           c == [own EXCEPT
                  !.member = IF id \in b.nodes THEN @ ELSE @ \cup mine,
                  !.lines = @ \cup {Line(d, "invoked_skill", id) : d \in ToSet(doms)}]
<1>1. IngestSkill(b, r) = c
  BY DEF IngestSkill
<1>2. IsFiniteSet(DOMAIN doms) /\ doms \in [DOMAIN doms -> ToSet(doms)]
  <2>1. CASE r.doms = <<>>
    <3>1. doms = <<Global>> /\ DOMAIN doms = {1}
      BY <2>1
    <3>2. IsFiniteSet(DOMAIN doms)
      BY <3>1, FS_Singleton
    <3>3. doms \in [DOMAIN doms -> ToSet(doms)]
      BY <3>1 DEF ToSet
    <3>4. QED
      BY <3>2, <3>3
  <2>2. CASE r.doms # <<>>
    BY <2>2 DEF ToSet
  <2>3. QED
    BY <2>1, <2>2
<1>3. \A d \in ToSet(doms) : d[1] = "domain"
  <2>1. Global[1] = "domain"
    BY DEF Global, Domain
  <2>2. \A i \in DOMAIN doms : doms[i][1] = "domain"
    BY <2>1, AssignDomainKind
  <2>3. QED
    BY <2>2 DEF ToSet
<1> HIDE DEF doms
<1>4. IsFiniteSet(new)
  BY <1>2, ToSetIsFinite, FS_Subset
<1>5. \A d \in new : d[1] = "domain"
  BY <1>3
<1> HIDE DEF new
<1>6. /\ IsBuilder(all) /\ all.nodes = b.nodes \cup new /\ all.order = AppendAll(b.order, new)
      /\ all.member = b.member \cup {<<d, d>> : d \in new} /\ all.owners = b.owners
  BY DEF Sane, IsBuilder
<1> HIDE DEF all
<1>7. Sane(all)
  <2>1. b.order \in Seq(all.nodes)
    BY <1>6, SeqIsMonotonic DEF Sane
  <2>2. all.order \in Seq(all.nodes)
    BY <1>4, <1>6, <2>1, AppendAllIsSeq
  <2>3. \A m \in all.member : m[1][1] = "discussion" => m[2][1] = "domain"
    BY <1>5, <1>6 DEF Sane
  <2>4. \A n \in all.nodes : n[1] = "discussion" => \E m \in all.member : m[1] = n
    BY <1>5, <1>6 DEF Sane
  <2>5. QED
    BY <1>5, <1>6, <2>2, <2>3, <2>4 DEF Sane
<1>8. Sane(own)
  BY <1>7, AddChildSane
<1> HIDE DEF own, mine
<1>9. /\ IsBuilder(c) /\ c.nodes = own.nodes /\ c.order = own.order /\ c.owners = own.owners
      /\ c.member = IF id \in b.nodes THEN own.member ELSE own.member \cup mine
  BY <1>8 DEF Sane, IsBuilder
<1>10. \A m \in mine : m[1][1] = "skill"
  BY DEF mine
<1> HIDE DEF c, id
<1>11. Sane(c)
  BY <1>8, <1>9, <1>10 DEF Sane
<1>12. QED
  BY <1>1, <1>11

LEMMA IngestLinkSane ==
  ASSUME NEW b, Sane(b), NEW label, NEW r
  PROVE  Sane(IngestLink(b, label, r))
BY AddLineSane DEF IngestLink

LEMMA IngestDiscussionToolSane ==
  ASSUME NEW b, Sane(b), NEW r
  PROVE  Sane(IngestDiscussionTool(b, r))
<1> DEFINE dom == AssignDomain(r.dom)
<1>1. Sane(AddHub(EnsureDomain(b, dom), dom, r.tool))
  BY AssignDomainKind, EnsureDomainSane, AddHubSane
<1>2. QED
  BY <1>1, AddLineSane DEF IngestDiscussionTool

LEMMA IngestDiscussionAgentSane ==
  ASSUME NEW b, Sane(b), NEW r
  PROVE  Sane(IngestDiscussionAgent(b, r))
<1> DEFINE dom == AssignDomain(r.dom)
           id == <<"agent", dom, r.agent>>
           own == EnsureDomain(b, dom)
           there == IF id \in b.nodes THEN own ELSE AddChild(AddHub(own, dom, "Task"), id, dom)
<1>1. Sane(own)
  BY AssignDomainKind, EnsureDomainSane
<1>2. Sane(there)
  BY <1>1, AddHubSane, AddChildSane
<1>3. QED
  BY <1>2, AddLineSane DEF IngestDiscussionAgent

LEMMA IngestDiscussionCommandSane ==
  ASSUME NEW b, Sane(b), NEW r
  PROVE  Sane(IngestDiscussionCommand(b, r))
<1> DEFINE id == <<"command", r.command>>
           dom == (CHOOSE m \in b.member : m[1] = Session(r))[2]
           there == IF id \in b.nodes THEN b ELSE AddCommand(b, id, dom)
<1>1. CASE Session(r) \notin b.nodes
  BY <1>1 DEF IngestDiscussionCommand
<1>2. CASE Session(r) \in b.nodes
  <2>1. Session(r)[1] = "discussion"
    BY DEF Session
  <2>2. dom[1] = "domain"
    BY <1>2, <2>1 DEF Sane
  <2> HIDE DEF dom
  <2>3. Sane(there)
    BY <2>2, AddCommandSane
  <2>4. IngestDiscussionCommand(b, r) = AddLine(there, Line(Session(r), "discussion_ran_command", id))
    BY <1>2 DEF IngestDiscussionCommand, dom
  <2>5. QED
    BY <2>3, <2>4, AddLineSane
<1>3. QED
  BY <1>1, <1>2

LEMMA IngestUsageSane ==
  ASSUME NEW b, Sane(b), NEW id, NEW kind, NEW name, id[1] \notin {"memory", "discussion"}
  PROVE  Sane(IngestUsage(b, id, kind, name))
<1> DEFINE dom == AssignDomain(name)
           own == EnsureDomain(b, dom)
           more == AddUnordered(own, id, dom)
           there == IF <<id, dom>> \in own.member THEN own
                    ELSE AddLine(more, Line(id, "in_domain", dom))
<1>1. Sane(own)
  BY AssignDomainKind, EnsureDomainSane
<1> HIDE DEF own, dom
<1>2. /\ IsBuilder(more) /\ more.nodes = own.nodes \cup {id} /\ more.order = own.order
      /\ more.member = own.member \cup {<<id, dom>>} /\ more.owners = own.owners
  BY <1>1, AddUnorderedFields DEF Sane
<1> HIDE DEF more
<1>3. more.order \in Seq(more.nodes)
  BY <1>1, <1>2, SeqIsMonotonic DEF Sane
<1>4. Sane(more)
  BY <1>1, <1>2, <1>3 DEF Sane
<1>5. Sane(there)
  BY <1>1, <1>4, AddLineSane
<1>6. IngestUsage(b, id, kind, name) = AddLine(there, Line(dom, kind, id))
  BY DEF IngestUsage, dom, own, more
<1>7. QED
  BY <1>5, <1>6, AddLineSane

LEMMA FinalizeFilesSane ==
  ASSUME NEW b, Sane(b)
  PROVE  Sane(FinalizeFiles(b))
<1> DEFINE files == {File(p) : p \in Paths(b)}
           more == {<<File(o[1]), o[2]>> : o \in b.owners}
           c == FinalizeFiles(b)
<1>1. /\ IsBuilder(c) /\ c.nodes = b.nodes \cup files /\ c.order = AppendAll(b.order, files)
      /\ c.member = b.member \cup more /\ c.owners = b.owners
  BY DEF Sane, IsBuilder, FinalizeFiles
<1>2. IsFiniteSet(files)
  <2> DEFINE f == [o \in b.owners |-> File(o[1])]
  <2>1. files = ToSet(f)
    BY DEF ToSet, Paths
  <2>2. IsFiniteSet(DOMAIN f) /\ f \in [DOMAIN f -> ToSet(f)]
    BY DEF Sane, ToSet
  <2> HIDE DEF f
  <2>3. QED
    BY <2>1, <2>2, ToSetIsFinite
<1>3. (\A n \in files : n[1] = "file") /\ (\A m \in more : m[1][1] = "file")
  BY DEF File
<1> HIDE DEF c, files, more
<1>4. c.order \in Seq(c.nodes)
  BY <1>1, <1>2, SeqIsMonotonic, AppendAllIsSeq DEF Sane
<1>5. \A n \in c.nodes : n[1] = "discussion" => \E m \in c.member : m[1] = n
  BY <1>1, <1>3 DEF Sane
<1>6. QED
  BY <1>1, <1>3, <1>4, <1>5 DEF Sane, c

Labels == ToSet(Sources["skeleton"]) \cup ToSet(Sources["structure"]) \cup ToSet(Sources["relations"])

LEMMA SkillDomains ==
  ASSUME NEW r \in Rows["skills"]
  PROVE  IsFiniteSet(DOMAIN r.doms) /\ (r.doms # <<>> => 1 \in DOMAIN r.doms)
<1>1. r.doms \in Seq(ToSet(r.doms))
  BY RowsAreTyped
<1>2. DOMAIN r.doms = 1..Len(r.doms) /\ Len(r.doms) \in Nat
  BY <1>1
<1>3. r.doms # <<>> => Len(r.doms) # 0
  BY <1>1
<1>4. IsFiniteSet(1..Len(r.doms))
  BY <1>2, FS_Interval
<1>5. QED
  BY <1>2, <1>3, <1>4

LEMMA IngestSane ==
  ASSUME NEW b, Sane(b), NEW label \in Labels, NEW r \in Rows[label]
  PROVE  Sane(Ingest(b, label, r))
<1>0. DOMAIN LinkKind = {"discussion_files", "command_files", "wiki_links", "wiki_citations",
                         "wiki_memory", "about_entity", "associations", "supersede"}
  BY DEF LinkKind
<1>1. Labels = {"skills", "hooks", "agents", "commands", "discussions", "tool_events", "entities",
                "wiki_pages", "wiki_links", "wiki_citations", "discussion_files",
                "command_files", "skill_usage", "mcp_usage", "discussion_tools",
                "discussion_agents", "discussion_commands"}
  BY DEF Labels, Sources, ToSet
<1>2. CASE label = "skills"
  <2>1. IsFiniteSet(DOMAIN r.doms)
    BY <1>2, SkillDomains
  <2>2. QED
    BY <1>0, <1>2, <2>1, IngestSkillSane DEF Ingest
<1>3. CASE label = "hooks"
  BY <1>0, <1>3, IngestHookSane DEF Ingest
<1>4. CASE label = "agents"
  BY <1>0, <1>4, IngestAgentSane DEF Ingest
<1>5. CASE label = "commands"
  <2>1. Sane(AddCommand(b, <<"command", r.command>>, AssignDomain(r.dom)))
    BY AssignDomainKind, AddCommandSane
  <2>2. QED
    BY <1>0, <1>5, <2>1 DEF Ingest, IngestCommand
<1>6. CASE label = "tool_events"
  BY <1>0, <1>6, IngestToolEventSane DEF Ingest
<1>7. CASE label = "discussions"
  BY <1>0, <1>7, IngestOwnedSane DEF Ingest, Session
<1>8. CASE label = "entities"
  BY <1>0, <1>8, IngestOwnedSane DEF Ingest
<1>9. CASE label = "wiki_pages"
  BY <1>0, <1>9, IngestOwnedSane DEF Ingest
<1>10. CASE label = "skill_usage"
  BY <1>0, <1>10, IngestUsageSane DEF Ingest
<1>11. CASE label = "mcp_usage"
  BY <1>0, <1>11, IngestUsageSane DEF Ingest
<1>12. CASE label = "discussion_tools"
  BY <1>0, <1>12, IngestDiscussionToolSane DEF Ingest
<1>13. CASE label = "discussion_agents"
  BY <1>0, <1>13, IngestDiscussionAgentSane DEF Ingest
<1>14. CASE label = "discussion_commands"
  BY <1>0, <1>14, IngestDiscussionCommandSane DEF Ingest
<1>15. CASE label \in {"wiki_links", "wiki_citations", "discussion_files", "command_files"}
  <2>1. Ingest(b, label, r) = IngestLink(b, label, r)
    BY <1>0, <1>15 DEF Ingest
  <2>2. QED
    BY <2>1, IngestLinkSane
<1>16. QED
  BY <1>1, <1>2, <1>3, <1>4, <1>5, <1>6, <1>7, <1>8, <1>9, <1>10, <1>11, <1>12, <1>13,
     <1>14, <1>15

LEMMA NewSane == Sane(New) /\ IsBuilder(New)
<1>1. Global[1] = "domain"
  BY DEF Global, Domain
<1>2. IsFiniteSet({})
  BY FS_EmptySet
<1>3. Sane(Empty)
  BY <1>2 DEF Sane, IsBuilder, Empty
<1>4. QED
  BY <1>1, <1>3, EnsureDomainSane DEF New, Sane

-----------------------------------------------------------------------------
(* A row of a memory.                                                      *)

LEMMA EnsureDomainFields ==
  ASSUME NEW b, IsBuilder(b), NEW dom
  PROVE  /\ IsBuilder(EnsureDomain(b, dom))
         /\ EnsureDomain(b, dom).nodes = b.nodes \cup {dom}
         /\ EnsureDomain(b, dom).lines = b.lines
         /\ EnsureDomain(b, dom).order \in {b.order, Append(b.order, dom)}
BY AddNodeFields DEF EnsureDomain

LEMMA AddChildFields ==
  ASSUME NEW b, IsBuilder(b), NEW id, id \notin b.nodes, NEW dom
  PROVE  /\ IsBuilder(AddChild(b, id, dom))
         /\ AddChild(b, id, dom).nodes = b.nodes \cup {id}
         /\ AddChild(b, id, dom).lines = b.lines \cup {Line(id, "in_domain", dom)}
         /\ AddChild(b, id, dom).order = Append(b.order, id)
BY AddNodeFields, AddLineFields DEF AddChild

\* What the ingestion of a memory makes of builder b.
WithMemory(b, c, id, dom) ==
  /\ IsBuilder(c) /\ c.nodes = b.nodes \cup {dom, id}
  /\ c.lines = IF id \in b.nodes THEN b.lines
               ELSE b.lines \cup {Line(id, "in_domain", dom)}
  /\ c.order \in {b.order, Append(b.order, dom), Append(b.order, id),
                 Append(Append(b.order, dom), id)}

LEMMA IngestMemoryFields ==
  ASSUME NEW b, IsBuilder(b), NEW pg, NEW name
  PROVE  WithMemory(b, IngestOwned(b, Memory(pg), name), Memory(pg), AssignDomain(name))
<1> DEFINE id == Memory(pg)
           dom == AssignDomain(name)
           own == EnsureDomain(b, dom)
           c == AddChild(own, id, dom)
<1>1. id[1] = "memory" /\ dom[1] = "domain"
  BY AssignDomainKind DEF Memory
<1>2. /\ IsBuilder(own) /\ own.nodes = b.nodes \cup {dom} /\ own.lines = b.lines
      /\ own.order \in {b.order, Append(b.order, dom)}
  BY EnsureDomainFields
<1>3. id \in own.nodes <=> id \in b.nodes
  BY <1>1, <1>2
<1>4. IngestOwned(b, id, name) = c
  BY DEF IngestOwned
<1>5. CASE id \in b.nodes
  <2>1. c = own
    BY <1>3, <1>5 DEF AddChild
  <2> HIDE DEF own, id, dom, c
  <2>2. /\ IsBuilder(c) /\ c.nodes = b.nodes \cup {dom, id} /\ c.lines = b.lines
        /\ c.order \in {b.order, Append(b.order, dom)}
    BY <1>2, <1>5, <2>1
  <2>3. QED
    BY <1>4, <1>5, <2>2 DEF id, dom, WithMemory
<1>6. CASE id \notin b.nodes
  <2>1. /\ IsBuilder(c) /\ c.nodes = own.nodes \cup {id}
        /\ c.lines = own.lines \cup {Line(id, "in_domain", dom)}
        /\ c.order = Append(own.order, id)
    BY <1>2, <1>3, <1>6, AddChildFields
  <2> HIDE DEF own, id, dom, c
  <2>2. /\ c.nodes = b.nodes \cup {dom, id}
        /\ c.lines = b.lines \cup {Line(id, "in_domain", dom)}
        /\ c.order \in {Append(b.order, id), Append(Append(b.order, dom), id)}
    BY <1>2, <2>1
  <2>3. QED
    BY <1>4, <1>6, <2>1, <2>2 DEF id, dom, WithMemory
<1>7. QED
  BY <1>5, <1>6

LEMMA IngestLinkFields ==
  ASSUME NEW b, IsBuilder(b), NEW label, NEW r
  PROVE  /\ IsBuilder(IngestLink(b, label, r))
         /\ IngestLink(b, label, r).nodes = b.nodes
         /\ IngestLink(b, label, r).order = b.order
         /\ IngestLink(b, label, r).lines =
              IF Ends(Joins(label, r)) \subseteq b.nodes
              THEN b.lines \cup {Joins(label, r)} ELSE b.lines
BY AddLineFields DEF IngestLink

\* Behind the position n there are only memories and domains.
OnlyMemoriesBehind(s, n) ==
  \A i \in (n + 1)..Len(s) : s[i][1] \in {"memory", "domain"}

LEMMA AppendBehind ==
  ASSUME NEW S, NEW s \in Seq(S), NEW n \in Nat, OnlyMemoriesBehind(s, n),
         NEW x \in S, x[1] \in {"memory", "domain"}
  PROVE  Append(s, x) \in Seq(S) /\ OnlyMemoriesBehind(Append(s, x), n)
<1>1. /\ Append(s, x) \in Seq(S) /\ Len(Append(s, x)) = Len(s) + 1
      /\ Append(s, x)[Len(s) + 1] = x /\ \A i \in 1..Len(s) : Append(s, x)[i] = s[i]
  OBVIOUS
<1>2. Len(s) \in Nat
  OBVIOUS
<1> DEFINE t == Append(s, x)
<1> HIDE DEF t
<1>3. QED
  BY <1>1, <1>2 DEF OnlyMemoriesBehind, t

LEMMA CutBehind ==
  ASSUME NEW S, NEW s \in Seq(S), NEW n \in Nat
  PROVE  Cut(s, n) \in Seq(S) /\ OnlyMemoriesBehind(Cut(s, n), n)
<1>1. CASE n < Len(s)
  <2>1. SubSeq(s, 1, n) \in Seq(S) /\ Len(SubSeq(s, 1, n)) = n
    BY <1>1
  <2>2. QED
    BY <1>1, <2>1 DEF Cut, OnlyMemoriesBehind
<1>2. CASE ~(n < Len(s))
  BY <1>2 DEF Cut, OnlyMemoriesBehind
<1>3. QED
  BY <1>1, <1>2

-----------------------------------------------------------------------------
(* The invariant, by the parts of the build.                               *)

\* Up to the memories the builder is sane and nothing has been taken out.
EarlyInv ==
  at \in {"skeleton", "structure", "relations"} =>
    Sane(builder) /\ twin = builder /\ kept = Nothing /\ seen = {} /\ chunk = {}

\* While memories come and go, builder and kept are together what twin is; what
\* is behind struct.n, and what was, is memories and their domains; and the
\* memories of twin are those that were seen.
Together ==
  /\ IsBuilder(builder) /\ IsBuilder(twin) /\ DOMAIN kept = {"nodes", "member", "lines"}
  /\ builder.nodes \cup kept.nodes = twin.nodes
  /\ builder.lines \cup kept.lines = twin.lines
  /\ capped => builder = twin /\ kept = Nothing

Order ==
  /\ builder.order \in Seq(twin.nodes) /\ struct.n \in Nat
  /\ OnlyMemoriesBehind(builder.order, struct.n)
  /\ \A id \in kept.nodes : id[1] \in {"memory", "domain"}

SeenAreThere ==
  /\ {id \in twin.nodes : id[1] = "memory"} = MemoriesSeen
  /\ \A pg \in chunk : Memory(pg) \in builder.nodes
  /\ \A r \in Rows["memories"] : r.id \in seen =>
       Line(Memory(r.id), "in_domain", AssignDomain(r.dom)) \in twin.lines

KeptHaveEnds ==
  /\ \A e \in kept.lines : Ends(e) \subseteq twin.nodes
  /\ at = "memories" =>
       \A e \in builder.lines \ struct.lines : Ends(e) \subseteq twin.nodes

MidInv ==
  at \in {"memories", "between"} => Together /\ Order /\ SeenAreThere /\ KeptHaveEnds

\* What the sweep will join is in the cache, or before its lines in todo.
SweepInv ==
  /\ DOMAIN todo = {"nodes", "member", "lines"} /\ DOMAIN cross = {"lines", "merged"}
  /\ DOMAIN known = Projects
  /\ \A k \in DOMAIN fileId : fileId[k] \in cache.nodes \cup todo.nodes
  /\ \A e \in todo.lines : Ends(e) \subseteq cache.nodes \cup todo.nodes
  /\ LinesHaveEnds

AssemblyInv == EarlyInv /\ MidInv /\ SweepInv

LEMMA InitInv == Init => AssemblyInv
<1> SUFFICES ASSUME Init PROVE AssemblyInv
  OBVIOUS
<1>1. EarlyInv
  BY NewSane DEF Init, EarlyInv
<1>2. MidInv
  BY DEF Init, MidInv
<1>3. SweepInv
  BY DEF Init, SweepInv, Nothing, LinesHaveEnds
<1>4. QED
  BY <1>1, <1>2, <1>3 DEF AssemblyInv

\* A step that leaves the sweep's variables and the cache alone.
LEMMA SweepUntouched ==
  ASSUME SweepInv, UNCHANGED <<cache, sweep>>
  PROVE  SweepInv'
BY DEF SweepInv, sweep, LinesHaveEnds, Ends

\* A merge of nodes and of edges whose ends are there afterwards.
LEMMA MergeKeeps ==
  ASSUME SweepInv, NEW part, Merge(part), UNCHANGED sweep,
         \A e \in part.lines : Ends(e) \subseteq cache.nodes \cup part.nodes
  PROVE  SweepInv'
<1>1. cache'.nodes = cache.nodes \cup part.nodes /\ cache'.lines = cache.lines \cup part.lines
  BY DEF Merge
<1>2. LinesHaveEnds'
  BY <1>1 DEF SweepInv, sweep, LinesHaveEnds, Ends
<1>3. QED
  BY <1>1, <1>2 DEF SweepInv, sweep, Ends

LEMMA ReadInv ==
  ASSUME AssemblyInv, at \in DOMAIN Sources, NEW i \in DOMAIN Sources[at],
         NEW r \in Rows[Sources[at][i]], Read(i, r)
  PROVE  AssemblyInv'
<1>1. at \in {"skeleton", "structure", "relations"} /\ at' = at
  BY DEF Read, Sources
<1>2. Sources[at][i] \in Labels
  BY <1>1 DEF Labels, ToSet
<1>3. Sane(builder)
  BY <1>1 DEF AssemblyInv, EarlyInv
<1>4. Sane(builder') /\ twin' = builder'
  BY <1>2, <1>3, IngestSane DEF Read
<1>5. EarlyInv'
  BY <1>1, <1>4 DEF AssemblyInv, EarlyInv, Read
<1>6. MidInv'
  BY <1>1 DEF MidInv
<1>7. SweepInv'
  BY SweepUntouched DEF Read, AssemblyInv
<1>8. QED
  BY <1>5, <1>6, <1>7 DEF AssemblyInv

LEMMA SkeletonEndsInv ==
  ASSUME AssemblyInv, SkeletonEnds
  PROVE  AssemblyInv'
<1>1. EarlyInv'
  BY NewSane DEF AssemblyInv, EarlyInv, SkeletonEnds, Go
<1>2. MidInv'
  BY DEF MidInv, SkeletonEnds, Go
<1>3. SweepInv'
  <2>1. CASE Valid(builder)
    <3>1. \A e \in builder.lines : Ends(e) \subseteq builder.nodes
      BY <2>1 DEF Valid, EndsResolve
    <3>2. Merge(builder) /\ UNCHANGED sweep
      BY <2>1 DEF SkeletonEnds
    <3>3. QED
      BY <3>1, <3>2, MergeKeeps DEF AssemblyInv
  <2>2. CASE ~Valid(builder)
    BY <2>2, SweepUntouched DEF SkeletonEnds, AssemblyInv
  <2>3. QED
    BY <2>1, <2>2
<1>4. QED
  BY <1>1, <1>2, <1>3 DEF AssemblyInv

LEMMA FilesAreMadeInv ==
  ASSUME AssemblyInv, FilesAreMade
  PROVE  AssemblyInv'
<1>1. EarlyInv'
  BY FinalizeFilesSane DEF AssemblyInv, EarlyInv, FilesAreMade, Go
<1>2. MidInv'
  BY DEF MidInv, FilesAreMade, Go
<1>3. SweepInv'
  BY SweepUntouched DEF FilesAreMade, AssemblyInv
<1>4. QED
  BY <1>1, <1>2, <1>3 DEF AssemblyInv

LEMMA MemoriesBeginInv ==
  ASSUME AssemblyInv, MemoriesBegin
  PROVE  AssemblyInv'
<1>1. /\ at = "relations" /\ at' = "memories"
      /\ struct' = [n |-> Len(builder.order), lines |-> builder.lines]
      /\ UNCHANGED <<builder, chunk, seen, kept, twin, cache, sweep>> /\ capped' = capped
  BY DEF MemoriesBegin, Go, StructureLength
<1>2. Sane(builder) /\ twin = builder /\ kept = Nothing /\ seen = {} /\ chunk = {}
  BY <1>1 DEF AssemblyInv, EarlyInv
<1>3. Together'
  BY <1>1, <1>2 DEF Together, Sane, Nothing, IsBuilder
<1>4. Order'
  <2>1. builder.order \in Seq(twin.nodes) /\ Len(builder.order) \in Nat
    BY <1>2 DEF Sane
  <2>2. QED
    BY <1>1, <1>2, <2>1 DEF Order, OnlyMemoriesBehind, Nothing
<1>5. SeenAreThere'
  BY <1>1, <1>2 DEF SeenAreThere, MemoriesSeen, Sane
<1>6. KeptHaveEnds'
  BY <1>1, <1>2 DEF KeptHaveEnds, Nothing
<1>7. EarlyInv' /\ MidInv'
  BY <1>1, <1>3, <1>4, <1>5, <1>6 DEF EarlyInv, MidInv
<1>8. SweepInv'
  BY <1>1, SweepUntouched DEF AssemblyInv
<1>9. QED
  BY <1>7, <1>8 DEF AssemblyInv

\* A memory that was read before, and has been cooled since, is read again.
LEMMA ReadMemoryInv ==
  ASSUME AssemblyInv, NEW r \in Rows["memories"], ReadMemory(r)
  PROVE  AssemblyInv'
<1> DEFINE id == Memory(r.id)
           dom == AssignDomain(r.dom)
           e == Line(id, "in_domain", dom)
<1>1. /\ at = "memories" /\ at' = at
      /\ builder' = IngestOwned(builder, id, r.dom) /\ twin' = IngestOwned(twin, id, r.dom)
      /\ chunk' = chunk \cup {r.id} /\ seen' = seen \cup {r.id}
      /\ UNCHANGED <<capped, struct, kept, cache, sweep>>
  BY DEF ReadMemory
<1>2. Together /\ Order /\ SeenAreThere /\ KeptHaveEnds
  BY <1>1 DEF AssemblyInv, MidInv
<1>3. id[1] = "memory" /\ dom[1] = "domain"
  BY AssignDomainKind DEF Memory
<1>4. id \in twin.nodes => e \in twin.lines
  <2>1. ASSUME id \in twin.nodes PROVE r.id \in seen
    <3>1. PICK pg \in seen : id = Memory(pg)
      BY <1>2, <1>3, <2>1 DEF SeenAreThere, MemoriesSeen
    <3>2. QED
      BY <3>1 DEF Memory
  <2>2. QED
    BY <1>2, <2>1 DEF SeenAreThere
<1>5. WithMemory(builder, builder', id, dom) /\ WithMemory(twin, twin', id, dom)
  <2>1. IsBuilder(builder) /\ IsBuilder(twin)
    BY <1>2 DEF Together
  <2>2. QED
    BY <1>1, <2>1, IngestMemoryFields
<1>6. /\ IsBuilder(builder') /\ builder'.nodes = builder.nodes \cup {dom, id}
      /\ builder'.lines = IF id \in builder.nodes THEN builder.lines
                          ELSE builder.lines \cup {e}
      /\ builder'.order \in {builder.order, Append(builder.order, dom), Append(builder.order, id),
                             Append(Append(builder.order, dom), id)}
      /\ IsBuilder(twin') /\ twin'.nodes = twin.nodes \cup {dom, id}
      /\ twin'.lines = IF id \in twin.nodes THEN twin.lines ELSE twin.lines \cup {e}
  BY <1>5 DEF WithMemory
<1>7. Ends(e) = {dom, id}
  BY DEF Ends, Line
<1>8. MemoriesSeen' = MemoriesSeen \cup {id}
  BY <1>1 DEF MemoriesSeen
<1>9. \A s \in Rows["memories"] : s.id = r.id =>
        Line(Memory(s.id), "in_domain", AssignDomain(s.dom)) = e
  BY RowsAreTyped
<1> HIDE DEF id, dom, e
<1>10. twin'.lines = twin.lines \cup {e}
  BY <1>4, <1>6
<1>11. Together'
  <2>1. capped => builder' = twin' /\ kept' = Nothing
    BY <1>1, <1>2 DEF Together
  <2>2. builder'.nodes \cup kept'.nodes = twin'.nodes
    BY <1>1, <1>2, <1>6 DEF Together
  <2>3. builder'.lines \cup kept'.lines = twin'.lines
    BY <1>1, <1>2, <1>4, <1>6, <1>10 DEF Together
  <2>4. QED
    BY <1>1, <1>2, <1>6, <2>1, <2>2, <2>3 DEF Together
<1>12. Order'
  <2>1. builder.order \in Seq(twin'.nodes) /\ id \in twin'.nodes /\ dom \in twin'.nodes
    BY <1>2, <1>6, SeqIsMonotonic DEF Order
  <2>2. OnlyMemoriesBehind(builder.order, struct.n) /\ struct.n \in Nat
    BY <1>2 DEF Order
  <2>3. /\ Append(builder.order, id) \in Seq(twin'.nodes)
        /\ OnlyMemoriesBehind(Append(builder.order, id), struct.n)
    BY <1>3, <2>1, <2>2, AppendBehind
  <2>4. /\ Append(builder.order, dom) \in Seq(twin'.nodes)
        /\ OnlyMemoriesBehind(Append(builder.order, dom), struct.n)
    BY <1>3, <2>1, <2>2, AppendBehind
  <2>5. /\ Append(Append(builder.order, dom), id) \in Seq(twin'.nodes)
        /\ OnlyMemoriesBehind(Append(Append(builder.order, dom), id), struct.n)
    BY <1>3, <2>1, <2>2, <2>4, AppendBehind
  <2>6. builder'.order \in Seq(twin'.nodes) /\ OnlyMemoriesBehind(builder'.order, struct.n)
    BY <1>6, <2>1, <2>2, <2>3, <2>4, <2>5
  <2>7. QED
    BY <1>1, <1>2, <2>6 DEF Order, OnlyMemoriesBehind
<1>13. SeenAreThere'
  <2>1. {n \in twin'.nodes : n[1] = "memory"} = MemoriesSeen \cup {id}
    BY <1>2, <1>3, <1>6 DEF SeenAreThere
  <2>2. \A pg \in chunk' : Memory(pg) \in builder'.nodes
    BY <1>1, <1>2, <1>6 DEF SeenAreThere, id
  <2>3. \A s \in Rows["memories"] : s.id \in seen' =>
          Line(Memory(s.id), "in_domain", AssignDomain(s.dom)) \in twin'.lines
    BY <1>1, <1>2, <1>9, <1>10 DEF SeenAreThere
  <2>4. QED
    BY <1>8, <2>1, <2>2, <2>3 DEF SeenAreThere
<1>14. KeptHaveEnds'
  BY <1>1, <1>2, <1>6, <1>7 DEF KeptHaveEnds
<1>15. EarlyInv' /\ MidInv'
  BY <1>1, <1>11, <1>12, <1>13, <1>14 DEF EarlyInv, MidInv
<1>16. SweepInv'
  BY <1>1, SweepUntouched DEF AssemblyInv
<1>17. QED
  BY <1>15, <1>16 DEF AssemblyInv

LEMMA ReadAboutInv ==
  ASSUME AssemblyInv, NEW r \in Rows["about_entity"], ReadAbout(r)
  PROVE  AssemblyInv'
<1> DEFINE e == Joins("about_entity", r)
<1>1. /\ at = "memories" /\ at' = at /\ r.from \in {Memory(pg) : pg \in chunk}
      /\ builder' = IngestLink(builder, "about_entity", r)
      /\ twin' = IngestLink(twin, "about_entity", r)
      /\ UNCHANGED <<capped, struct, chunk, seen, kept, cache, sweep>>
  BY DEF ReadAbout
<1>2. Together /\ Order /\ SeenAreThere /\ KeptHaveEnds
  BY <1>1 DEF AssemblyInv, MidInv
<1>3. Ends(e) = {r.from, r.to}
  BY DEF Ends, Joins, Line
<1>4. r.from \in builder.nodes /\ r.to[1] = "entity"
  BY <1>1, <1>2, RowsAreTyped DEF SeenAreThere
<1>5. Ends(e) \subseteq builder.nodes <=> Ends(e) \subseteq twin.nodes
  BY <1>2, <1>3, <1>4 DEF Together, Order
<1>6. /\ IsBuilder(builder') /\ builder'.nodes = builder.nodes /\ builder'.order = builder.order
      /\ builder'.lines = IF Ends(e) \subseteq builder.nodes
                          THEN builder.lines \cup {e} ELSE builder.lines
  BY <1>1, <1>2, IngestLinkFields DEF Together
<1>7. /\ IsBuilder(twin') /\ twin'.nodes = twin.nodes
      /\ twin'.lines = IF Ends(e) \subseteq twin.nodes THEN twin.lines \cup {e} ELSE twin.lines
  BY <1>1, <1>2, IngestLinkFields DEF Together
<1>8. MemoriesSeen' = MemoriesSeen
  BY <1>1 DEF MemoriesSeen
<1> HIDE DEF e
<1>9. Together'
  BY <1>1, <1>2, <1>5, <1>6, <1>7 DEF Together
<1>10. Order' /\ SeenAreThere'
  BY <1>1, <1>2, <1>6, <1>7, <1>8 DEF Order, SeenAreThere, OnlyMemoriesBehind
<1>11. KeptHaveEnds'
  BY <1>1, <1>2, <1>5, <1>6, <1>7 DEF KeptHaveEnds
<1>12. EarlyInv' /\ MidInv'
  BY <1>1, <1>9, <1>10, <1>11 DEF EarlyInv, MidInv
<1>13. SweepInv'
  BY <1>1, SweepUntouched DEF AssemblyInv
<1>14. QED
  BY <1>12, <1>13 DEF AssemblyInv

\* What is behind struct.n moves from builder to kept.
LEMMA DiscardKeeps ==
  ASSUME Together, Order, SeenAreThere, KeptHaveEnds, at = "memories", at' = at, ~capped,
         Discard, chunk' = {}, UNCHANGED <<capped, struct, seen, twin>>
  PROVE  Together' /\ Order' /\ SeenAreThere' /\ KeptHaveEnds'
<1>1. Added \subseteq twin.nodes /\ \A id \in Added : id[1] \in {"memory", "domain"}
  <2>1. \A i \in (struct.n + 1)..Len(builder.order) :
          builder.order[i] \in twin.nodes /\ builder.order[i][1] \in {"memory", "domain"}
    BY DEF Order, OnlyMemoriesBehind
  <2>2. QED
    BY <2>1 DEF Added
<1>2. /\ DOMAIN kept' = {"nodes", "member", "lines"}
      /\ kept'.nodes = kept.nodes \cup Added
      /\ kept'.lines = kept.lines \cup (builder.lines \ struct.lines)
  BY DEF Discard
<1>3. /\ IsBuilder(builder') /\ builder'.nodes = builder.nodes \ Added
      /\ builder'.order = Cut(builder.order, struct.n)
      /\ builder'.lines = builder.lines \cap struct.lines
  BY DEF Discard, Together, IsBuilder
<1>4. Together'
  BY <1>1, <1>2, <1>3 DEF Together
<1>5. Order'
  <2>1. Cut(builder.order, struct.n) \in Seq(twin.nodes)
        /\ OnlyMemoriesBehind(Cut(builder.order, struct.n), struct.n)
    BY CutBehind DEF Order
  <2>2. QED
    BY <1>1, <1>2, <1>3, <2>1 DEF Order, OnlyMemoriesBehind
<1>6. SeenAreThere'
  BY DEF SeenAreThere, MemoriesSeen
<1>7. KeptHaveEnds'
  BY <1>2, <1>3 DEF KeptHaveEnds
<1>8. QED
  BY <1>4, <1>5, <1>6, <1>7

LEMMA ChunkEndsInv ==
  ASSUME AssemblyInv, ChunkEnds
  PROVE  AssemblyInv'
<1>1. /\ at = "memories" /\ at' = at /\ chunk' = {}
      /\ UNCHANGED <<capped, struct, seen, twin, cache, sweep>>
  BY DEF ChunkEnds, reading
<1>2. Together /\ Order /\ SeenAreThere /\ KeptHaveEnds
  BY <1>1 DEF AssemblyInv, MidInv
<1>3. Together' /\ Order' /\ SeenAreThere' /\ KeptHaveEnds'
  <2>1. CASE capped
    BY <1>1, <1>2, <2>1
       DEF ChunkEnds, Together, Order, SeenAreThere, KeptHaveEnds, MemoriesSeen, OnlyMemoriesBehind
  <2>2. CASE ~capped
    BY <1>1, <1>2, <2>2, DiscardKeeps DEF ChunkEnds
  <2>3. QED
    BY <2>1, <2>2
<1>4. EarlyInv' /\ MidInv'
  BY <1>1, <1>3 DEF EarlyInv, MidInv
<1>5. SweepInv'
  BY <1>1, SweepUntouched DEF AssemblyInv
<1>6. QED
  BY <1>4, <1>5 DEF AssemblyInv

\* A page is fetched, or the table changes: nothing of the invariant does.
LEMMA ScanKeeps ==
  ASSUME AssemblyInv, UNCHANGED <<at, capped, baseline, cache, sweep>>
  PROVE  AssemblyInv'
BY DEF baseline, sweep, AssemblyInv, EarlyInv, MidInv, SweepInv,
   Together, Order, SeenAreThere, KeptHaveEnds, MemoriesSeen, OnlyMemoriesBehind, Sane,
   LinesHaveEnds, Ends

LEMMA MemoriesEndInv ==
  ASSUME AssemblyInv, MemoriesEnd
  PROVE  AssemblyInv'
<1>1. at = "memories" /\ at' = "between" /\ UNCHANGED <<baseline, cache, sweep, capped>>
  BY DEF MemoriesEnd, Go
<1>2. Together /\ Order /\ SeenAreThere /\ KeptHaveEnds
  BY <1>1 DEF AssemblyInv, MidInv
<1>3. Together' /\ Order' /\ SeenAreThere' /\ KeptHaveEnds'
  BY <1>1, <1>2 DEF baseline, Together, Order, SeenAreThere, KeptHaveEnds, MemoriesSeen,
     OnlyMemoriesBehind
<1>4. EarlyInv' /\ MidInv'
  BY <1>1, <1>3 DEF EarlyInv, MidInv
<1>5. SweepInv'
  BY <1>1, SweepUntouched DEF AssemblyInv
<1>6. QED
  BY <1>4, <1>5 DEF AssemblyInv

\* The nodes that a source between memories may join are those of twin.
LEMMA TargetIsTwin ==
  ASSUME Together, Order, SeenAreThere, NEW i \in DOMAIN Between, NEW r \in Rows[Between[i]]
  PROVE  Ends(Joins(Between[i], r)) \subseteq Target(Between[i])
           <=> Ends(Joins(Between[i], r)) \subseteq twin.nodes
<1>1. Ends(Joins(Between[i], r)) = {r.from, r.to}
  BY DEF Ends, Joins, Line
<1>2. i \in {1, 2, 3}
  BY DEF Between
<1>3. CASE i \in {1, 2}
  <2>1. r \in Rows["associations"] \cup Rows["supersede"] /\ Between[i] # "wiki_memory"
    BY <1>3 DEF Between
  <2>2. r.from[1] = "memory" /\ r.to[1] = "memory"
    BY <2>1, RowsAreTyped
  <2>3. Target(Between[i]) = MemoriesSeen
    BY <2>1 DEF Target
  <2>4. QED
    BY <1>1, <2>2, <2>3 DEF SeenAreThere
<1>4. CASE i = 3
  <2>1. Between[i] = "wiki_memory"
    BY <1>4 DEF Between
  <2>2. r.from[1] = "wiki" /\ r.to[1] = "memory"
    BY <2>1, RowsAreTyped
  <2>3. Target(Between[i]) = MemoriesSeen \cup {id \in builder.nodes : id[1] = "wiki"}
    BY <2>1 DEF Target
  <2>4. r.from \in twin.nodes <=> r.from \in builder.nodes
    BY <2>2 DEF Together, Order
  <2>5. \A id \in MemoriesSeen : id[1] = "memory"
    BY DEF MemoriesSeen, Memory
  <2>6. QED
    BY <1>1, <2>2, <2>3, <2>4, <2>5 DEF SeenAreThere, Together
<1>5. QED
  BY <1>2, <1>3, <1>4

LEMMA ReadBetweenInv ==
  ASSUME AssemblyInv, NEW i \in DOMAIN Between, NEW r \in Rows[Between[i]], ReadBetween(i, r)
  PROVE  AssemblyInv'
<1> DEFINE e == Joins(Between[i], r)
<1>1. /\ at = "between" /\ at' = at /\ twin' = IngestLink(twin, Between[i], r)
      /\ UNCHANGED <<capped, struct, chunk, seen, cache, sweep>>
  BY DEF ReadBetween
<1>2. Together /\ Order /\ SeenAreThere /\ KeptHaveEnds
  BY <1>1 DEF AssemblyInv, MidInv
<1>3. /\ IsBuilder(twin') /\ twin'.nodes = twin.nodes
      /\ twin'.lines = IF Ends(e) \subseteq twin.nodes THEN twin.lines \cup {e} ELSE twin.lines
  BY <1>1, <1>2, IngestLinkFields DEF Together
<1>4. MemoriesSeen' = MemoriesSeen
  BY <1>1 DEF MemoriesSeen
<1>5. CASE capped
  <2>1. builder' = IngestLink(builder, Between[i], r) /\ kept' = kept
    BY <1>5 DEF ReadBetween
  <2>2. builder = twin /\ kept = Nothing
    BY <1>2, <1>5 DEF Together
  <2>3. builder' = twin' /\ builder'.order = builder.order
    <3>1. builder' = twin'
      BY <1>1, <2>1, <2>2
    <3>2. IsBuilder(builder)
      BY <1>2 DEF Together
    <3> DEFINE label == Between[i]
    <3> HIDE DEF label
    <3>3. IngestLink(builder, label, r).order = builder.order
      BY <3>2, IngestLinkFields
    <3>4. QED
      BY <2>1, <3>1, <3>3 DEF label
  <2>4. Together'
    BY <1>1, <1>3, <2>1, <2>2, <2>3 DEF Together, Nothing
  <2>5. Order' /\ SeenAreThere' /\ KeptHaveEnds'
    BY <1>1, <1>2, <1>3, <1>4, <2>1, <2>2, <2>3
       DEF Order, SeenAreThere, KeptHaveEnds, OnlyMemoriesBehind
  <2>6. QED
    BY <1>1, <2>4, <2>5, SweepUntouched DEF AssemblyInv, EarlyInv, MidInv
<1>6. CASE ~capped
  <2>1. /\ kept' = IF Ends(e) \subseteq Target(Between[i]) THEN AddLine(kept, e) ELSE kept
        /\ builder' = builder
    BY <1>6 DEF ReadBetween
  <2>2. Ends(e) \subseteq Target(Between[i]) <=> Ends(e) \subseteq twin.nodes
    BY <1>2, TargetIsTwin
  <2>3. /\ DOMAIN kept' = {"nodes", "member", "lines"} /\ kept'.nodes = kept.nodes
        /\ kept'.lines = IF Ends(e) \subseteq twin.nodes
                         THEN kept.lines \cup {e} ELSE kept.lines
    BY <1>2, <2>1, <2>2 DEF Together, AddLine
  <2> HIDE DEF e
  <2>4. Together'
    BY <1>1, <1>2, <1>3, <1>6, <2>1, <2>3 DEF Together
  <2>5. Order' /\ SeenAreThere' /\ KeptHaveEnds'
    BY <1>1, <1>2, <1>3, <1>4, <2>1, <2>3
       DEF Order, SeenAreThere, KeptHaveEnds, OnlyMemoriesBehind
  <2>6. QED
    BY <1>1, <2>4, <2>5, SweepUntouched DEF AssemblyInv, EarlyInv, MidInv
<1>7. QED
  BY <1>5, <1>6

LEMMA BaselineEndsInv ==
  ASSUME AssemblyInv, BaselineEnds
  PROVE  AssemblyInv'
<1> DEFINE part == [nodes  |-> builder.nodes \cup kept.nodes,
                    member |-> builder.member \cup kept.member,
                    lines  |-> builder.lines \cup kept.lines]
<1>1. /\ at = "between" /\ at' \in {"sweep", "sources"} /\ Valid(builder) /\ Merge(part)
      /\ fileId' \in FileIds(builder) /\ UNCHANGED <<done, known, todo, cross>>
  BY DEF BaselineEnds, Go
<1>2. Together /\ KeptHaveEnds
  BY <1>1 DEF AssemblyInv, MidInv
<1>3. \A e \in part.lines : Ends(e) \subseteq part.nodes
  BY <1>1, <1>2 DEF Valid, EndsResolve, Together, KeptHaveEnds
<1>4. cache'.nodes = cache.nodes \cup part.nodes /\ cache'.lines = cache.lines \cup part.lines
  BY <1>1 DEF Merge
<1>5. \A k \in DOMAIN fileId' : fileId'[k] \in builder.nodes
  <2> DEFINE paths == {p \in Paths(builder) : File(p) \in builder.nodes}
             tails == {Below(p) : p \in paths} \ paths
             files == {File(p) : p \in paths}
  <2>1. fileId' \in [paths \cup tails -> files]
    BY <1>1 DEF FileIds
  <2>2. files \subseteq builder.nodes
    OBVIOUS
  <2> HIDE DEF paths, tails, files
  <2>3. QED
    BY <2>1, <2>2
<1>6. builder.nodes \subseteq part.nodes
  OBVIOUS
<1> HIDE DEF part
<1>7. SweepInv'
  <2>1. SweepInv
    BY DEF AssemblyInv
  <2>2. LinesHaveEnds'
    BY <1>1, <1>3, <1>4, <2>1 DEF SweepInv, LinesHaveEnds, Ends
  <2>3. QED
    BY <1>1, <1>4, <1>5, <1>6, <2>1, <2>2 DEF SweepInv, Ends
<1>8. QED
  BY <1>1, <1>7 DEF AssemblyInv, EarlyInv, MidInv

-----------------------------------------------------------------------------
(* The sweep.                                                              *)

\* Where only the sweep has gone on, its own invariant is all there is to see.
LEMMA BehindTheBaseline ==
  ASSUME at' \in {"sweep", "sources", "done"}, SweepInv'
  PROVE  AssemblyInv'
BY DEF AssemblyInv, EarlyInv, MidInv

\* The values of the map of files once the files F are known.
LEMMA WithFilesValues ==
  ASSUME NEW F, NEW k \in DOMAIN WithFiles(F)
  PROVE  \/ WithFiles(F)[k] \in {File(f) : f \in NewFiles(F)}
         \/ k \in DOMAIN fileId /\ WithFiles(F)[k] = fileId[k]
<1> DEFINE new == NewFiles(F)
           other == File(CHOOSE f \in new : Below(f) = k)
<1>1. /\ k \in DOMAIN fileId \cup new \cup {Below(f) : f \in new}
      /\ WithFiles(F)[k] = IF k \in new THEN File(k)
                           ELSE IF k \in DOMAIN fileId THEN fileId[k] ELSE other
  BY DEF WithFiles
<1>2. CASE k \in new \/ k \in DOMAIN fileId
  BY <1>1, <1>2
<1>3. CASE k \notin new /\ k \notin DOMAIN fileId
  <2>1. \E f \in new : Below(f) = k
    BY <1>1, <1>3
  <2>2. other \in {File(f) : f \in new}
    BY <2>1
  <2>3. QED
    BY <1>1, <1>3, <2>2
<1>4. QED
  BY <1>2, <1>3

LEMMA WithFilesDomain ==
  ASSUME NEW F
  PROVE  F \subseteq DOMAIN WithFiles(F)
BY DEF WithFiles, NewFiles

LEMMA LoadProjectInv ==
  ASSUME AssemblyInv, NEW p \in Projects, NEW S, NEW R, LoadProject(p, S, R)
  PROVE  AssemblyInv'
<1> DEFINE files == {PathOf(p, s.file) : s \in S}
           fresh == {File(f) : f \in NewFiles(files)}
           ids == {SymbolId(p, s) : s \in S}
           hub == {Home[p]} \ cache.nodes
           found == {e \in R : HasStart(p, e)}
           intra == {e \in found : Intra(p, e)}
           filed == {Line(f, "in_domain", Home[p]) : f \in fresh}
           defined == {Line(i, "defined_in", fileId'[i[2]]) : i \in ids}
           joined == {Reference(p, e) : e \in intra}
           more == {Reference(p, e) : e \in found \ intra}
           there == cache'.nodes \cup todo'.nodes
<1>1. /\ at' = "sweep" /\ todo.nodes = {} /\ fileId' = WithFiles(files)
      /\ known' = [known EXCEPT ![p] = ids] /\ cache' = cache
  BY DEF LoadProject, Idle
<1>2. /\ DOMAIN todo' = {"nodes", "member", "lines"}
      /\ todo'.nodes = hub \cup fresh \cup ids
      /\ todo'.lines = filed \cup defined \cup joined
  BY DEF LoadProject
<1>3. cross' = [cross EXCEPT !.lines = @ \cup more]
  BY DEF LoadProject
<1>4. SweepInv
  BY DEF AssemblyInv
<1>5. /\ DOMAIN cross' = {"lines", "merged"} /\ cross'.lines = cross.lines \cup more
      /\ DOMAIN known' = Projects /\ known'[p] = ids
  BY <1>1, <1>3, <1>4 DEF SweepInv
<1>6. \A k \in DOMAIN fileId' : fileId'[k] \in there
  <2>1. \A k \in DOMAIN fileId : fileId[k] \in cache.nodes
    BY <1>1, <1>4 DEF SweepInv
  <2>2. QED
    BY <1>1, <1>2, <2>1, WithFilesValues
<1>7. Home[p] \in there /\ fresh \subseteq there /\ ids \subseteq there
  BY <1>1, <1>2
<1>8. \A e \in filed : Ends(e) \subseteq there
  <2> HIDE DEF fresh, there
  <2>1. QED
    BY <1>7 DEF Ends, Line
<1>9. \A e \in defined : Ends(e) \subseteq there
  <2>1. \A i \in ids : i[2] \in files
    BY DEF SymbolId, Symbol
  <2>2. \A i \in ids : i[2] \in DOMAIN fileId'
    BY <1>1, <2>1, WithFilesDomain
  <2> HIDE DEF ids, files, there
  <2>3. QED
    BY <1>6, <1>7, <2>2 DEF Ends, Line
<1>10. \A e \in joined : Ends(e) \subseteq there
  <2>1. ASSUME NEW e \in intra
        PROVE  Ends(Reference(p, e)) \subseteq there
    <3>1. HasStart(p, e) /\ Intra(p, e)
      OBVIOUS
    <3>2. SymbolId(p, e.to) \in ids
      BY <1>5, <3>1 DEF Intra
    <3>3. Start(p, e) \in there
      <4>1. CASE e.kind = "imports"
        <5>1. PathOf(p, e.from.file) \in DOMAIN fileId'
          BY <3>1, <4>1 DEF HasStart
        <5>2. Start(p, e) = fileId'[PathOf(p, e.from.file)]
          BY <4>1 DEF Start
        <5> HIDE DEF there
        <5>3. QED
          BY <1>6, <5>1, <5>2
      <4>2. CASE e.kind # "imports"
        <5>1. Start(p, e) \in ids
          BY <1>5, <3>1, <4>2 DEF Start, Intra
        <5>2. QED
          BY <1>7, <5>1
      <4>3. QED
        BY <4>1, <4>2
    <3> HIDE DEF there, ids
    <3>4. QED
      BY <1>7, <3>2, <3>3 DEF Reference, Ends, Line
  <2>2. QED
    BY <2>1
<1> HIDE DEF filed, defined, joined, more, fresh, hub, ids
<1>11. LinesHaveEnds'
  BY <1>1, <1>4, <1>5 DEF SweepInv, LinesHaveEnds, Ends
<1>12. \A e \in todo'.lines : Ends(e) \subseteq there
  BY <1>2, <1>8, <1>9, <1>10
<1>13. \A e \in todo'.lines : Ends(e)' \subseteq there
  BY <1>12 DEF Ends
<1>14. SweepInv'
  BY <1>2, <1>5, <1>6, <1>11, <1>13 DEF SweepInv, Ends
<1>15. QED
  BY <1>1, <1>14, BehindTheBaseline

LEMMA SkipProjectInv ==
  ASSUME AssemblyInv, NEW p \in Projects, SkipProject(p)
  PROVE  AssemblyInv'
<1>1. at' = "sweep" /\ UNCHANGED <<cache, fileId, known, todo, cross>>
  BY DEF SkipProject, reading
<1>2. SweepInv'
  BY <1>1 DEF AssemblyInv, SweepInv, LinesHaveEnds, Ends
<1>3. QED
  BY <1>1, <1>2, BehindTheBaseline

LEMMA MergeBatchInv ==
  ASSUME AssemblyInv, NEW B \in Batches, MergeBatch(B)
  PROVE  AssemblyInv'
<1>1. /\ at' = "sweep" /\ todo' = [todo EXCEPT !.nodes = @ \ B]
      /\ cache'.nodes = cache.nodes \cup B /\ cache'.lines = cache.lines
      /\ UNCHANGED <<fileId, known, cross>>
  BY DEF MergeBatch, Merge, reading
<1>2. SweepInv
  BY DEF AssemblyInv
<1>3. /\ DOMAIN todo' = {"nodes", "member", "lines"} /\ todo'.lines = todo.lines
      /\ todo'.nodes = todo.nodes \ B
  BY <1>1, <1>2 DEF SweepInv
<1>4. cache.nodes \cup todo.nodes \subseteq cache'.nodes \cup todo'.nodes
  BY <1>1, <1>3
<1>5. LinesHaveEnds'
  BY <1>1, <1>2 DEF SweepInv, LinesHaveEnds, Ends
<1>6. SweepInv'
  BY <1>1, <1>2, <1>3, <1>4, <1>5 DEF SweepInv, Ends
<1>7. QED
  BY <1>1, <1>6, BehindTheBaseline

LEMMA MergeLinesInv ==
  ASSUME AssemblyInv, MergeLines
  PROVE  AssemblyInv'
<1>1. /\ at' = "sweep" /\ todo.nodes = {} /\ todo' = [todo EXCEPT !.lines = {}]
      /\ cache'.nodes = cache.nodes /\ cache'.lines = cache.lines \cup todo.lines
      /\ UNCHANGED <<fileId, known, cross>>
  BY DEF MergeLines, Merge, reading
<1>2. SweepInv
  BY DEF AssemblyInv
<1>3. /\ DOMAIN todo' = {"nodes", "member", "lines"} /\ todo'.lines = {}
      /\ todo'.nodes = {}
  BY <1>1, <1>2 DEF SweepInv
<1>4. LinesHaveEnds'
  BY <1>1, <1>2 DEF SweepInv, LinesHaveEnds, Ends
<1>5. SweepInv'
  BY <1>1, <1>2, <1>3, <1>4 DEF SweepInv
<1>6. QED
  BY <1>1, <1>5, BehindTheBaseline

LEMMA MergeCrossInv ==
  ASSUME AssemblyInv, MergeCross
  PROVE  AssemblyInv'
<1>1. /\ at' = "sources" /\ cross' = [cross EXCEPT !.merged = TRUE]
      /\ cache'.nodes = cache.nodes /\ cache'.lines = cache.lines \cup cross.lines
      /\ UNCHANGED <<fileId, known, todo>>
  BY DEF MergeCross, Merge, Go
<1>2. SweepInv
  BY DEF AssemblyInv
<1>3. DOMAIN cross' = {"lines", "merged"} /\ cross'.lines = cross.lines
  BY <1>1, <1>2 DEF SweepInv
<1>4. LinesHaveEnds'
  BY <1>1, <1>2, <1>3 DEF SweepInv, LinesHaveEnds, Ends
<1>5. SweepInv'
  BY <1>1, <1>2, <1>3, <1>4 DEF SweepInv, Ends
<1>6. QED
  BY <1>1, <1>5, BehindTheBaseline

LEMMA ResolveSourcesInv ==
  ASSUME AssemblyInv, ResolveSources
  PROVE  AssemblyInv'
<1> DEFINE there == {r \in SourceRows : /\ r.page \in cache.nodes /\ PageRoot(r.page) # ""
                                    /\ SourceFile(r.page, r.file) \in cache.nodes}
           part == [nodes |-> {}, member |-> {},
                    lines |-> {Line(r.page, "wiki_source", SourceFile(r.page, r.file)) :
                                 r \in there}]
<1>1. at' = "done" /\ Merge(part) /\ UNCHANGED sweep
  BY DEF ResolveSources, Go
<1>2. \A e \in part.lines : Ends(e) \subseteq cache.nodes \cup part.nodes
  <2>1. \A r \in there : r.page \in cache.nodes /\ SourceFile(r.page, r.file) \in cache.nodes
    OBVIOUS
  <2>2. \A e \in part.lines : \E r \in there :
          e = Line(r.page, "wiki_source", SourceFile(r.page, r.file))
    OBVIOUS
  <2> HIDE DEF there, part
  <2>3. \A x, y : Ends(Line(x, "wiki_source", y)) = {x, y}
    BY DEF Ends, Line
  <2>4. QED
    BY <2>1, <2>2, <2>3
<1> HIDE DEF part
<1>3. SweepInv'
  BY <1>1, <1>2, MergeKeeps DEF AssemblyInv
<1>4. QED
  BY <1>1, <1>3, BehindTheBaseline

-----------------------------------------------------------------------------
(* The theorems.                                                           *)

LEMMA NextInv == AssemblyInv /\ [Next]_vars => AssemblyInv'
<1> SUFFICES ASSUME AssemblyInv, [Next]_vars PROVE AssemblyInv'
  OBVIOUS
<1>1. CASE Baseline
  <2>1. CASE at \in DOMAIN Sources
               /\ \E i \in DOMAIN Sources[at] : \E r \in Rows[Sources[at][i]] : Read(i, r)
    BY <2>1, ReadInv
  <2>2. CASE \E r \in Rows["memories"] : ReadMemory(r)
    BY <2>2, ReadMemoryInv
  <2>3. CASE \E r \in Rows["about_entity"] : ReadAbout(r)
    BY <2>3, ReadAboutInv
  <2>4. CASE \E i \in DOMAIN Between : \E r \in Rows[Between[i]] : ReadBetween(i, r)
    BY <2>4, ReadBetweenInv
  <2>5. CASE ReadPage \/ \E id \in MemoryIds, h \in 0..MaxHeat : HeatChanges(id, h)
    BY <2>5, ScanKeeps DEF ReadPage, HeatChanges, reading
  <2>6. QED
    BY <1>1, <2>1, <2>2, <2>3, <2>4, <2>5, SkeletonEndsInv, FilesAreMadeInv, MemoriesBeginInv,
       ChunkEndsInv, MemoriesEndInv, BaselineEndsInv DEF Baseline
<1>2. CASE Sweep
  BY <1>2, LoadProjectInv, SkipProjectInv, MergeBatchInv, MergeLinesInv, MergeCrossInv DEF Sweep
<1>3. CASE ResolveSources
  BY <1>3, ResolveSourcesInv
<1>4. CASE UNCHANGED vars
  BY <1>4, ScanKeeps DEF vars, reading
<1>5. QED
  BY <1>1, <1>2, <1>3, <1>4 DEF Next

\* The cache the server answers from has both ends of every edge at every
\* moment of a build, whatever the sources, the projects and AP yield and however
\* large the chunks and batches are; the edges between projects, which run_l6
\* merges without a look at their ends, are the one exception.
THEOREM AssembledLinesHaveEnds == Spec => []LinesHaveEnds
<1>1. AssemblyInv => LinesHaveEnds
  BY DEF AssemblyInv, SweepInv
<1>2. QED
  BY <1>1, InitInv, NextInv, PTL DEF Spec

\* Taking each chunk of memories out of the builder again, by a position in an
\* order that not every node is in, and joining them later by their ids alone,
\* yields the nodes and edges of a builder that keeps all memories.
THEOREM DiscardIsLossless == Spec => []DiscardLosesNothing
<1>1. AssemblyInv => DiscardLosesNothing
  BY DEF AssemblyInv, MidInv, Together, DiscardLosesNothing
<1>2. QED
  BY <1>1, InitInv, NextInv, PTL DEF Spec

-----------------------------------------------------------------------------
(* The pages of memories.  What is in the table all along is seen, or of   *)
(* the page at hand, or still behind the last row; once the generator has  *)
(* returned before its limit, nothing is behind that row.                  *)

PageTypes ==
  /\ heat \in [MemoryIds -> Nat] /\ last \in Nat \X Nat
  /\ page \subseteq MemoryIds /\ yielded \in Nat /\ over \in BOOLEAN
  /\ capped => yielded <= MemoryLimit

NotBegun ==
  at \in DOMAIN Sources =>
    last = <<MaxHeat + 1, 0>> /\ yielded = 0 /\ ~over /\ risen = {} /\ page = {}

Steady(id) == heat[id] > 0 /\ id \notin risen

Ahead ==
  at = "memories" => \A id \in MemoryIds :
    Steady(id) => id \in seen \cup page \/ Before(last, Key(id))

NoneBehind ==
  at = "memories" /\ over /\ ~(capped /\ yielded = MemoryLimit) =>
    \A id \in MemoryIds : Steady(id) => id \in seen \cup page

PagesInv == PageTypes /\ NotBegun /\ Ahead /\ NoneBehind

LEMMA MemoryIdsAreNat == MemoryIds \subseteq Nat /\ IsFiniteSet(MemoryIds)
BY RowsAreTyped DEF MemoryIds

LEMMA PagesInit == Init => PagesInv
<1> SUFFICES ASSUME Init PROVE PagesInv
  OBVIOUS
<1>1. heat \in [MemoryIds -> Nat]
  BY DEF Init, NoMemories
<1>2. <<MaxHeat + 1, 0>> \in Nat \X Nat
  BY AssemblyBounds
<1>3. last \in Nat \X Nat
  BY <1>2 DEF Init
<1>4. page \subseteq MemoryIds /\ over \in BOOLEAN /\ yielded \in Nat /\ yielded <= MemoryLimit
  <2>1. page = {} /\ over = FALSE /\ yielded = 0
    BY DEF Init
  <2>2. page \subseteq MemoryIds /\ over \in BOOLEAN
    BY <2>1
  <2>3. yielded \in Nat /\ yielded <= MemoryLimit
    BY <2>1, AssemblyBounds
  <2>4. QED
    BY <2>2, <2>3
<1>5. PageTypes
  BY <1>1, <1>3, <1>4 DEF PageTypes
<1>6. NotBegun /\ Ahead /\ NoneBehind
  BY DEF Init, NotBegun, Ahead, NoneBehind
<1>7. QED
  BY <1>5, <1>6 DEF PagesInv

\* A step that leaves the scan, and what is seen, as it is.
LEMMA PagesKept ==
  ASSUME PagesInv, UNCHANGED <<scan, seen, capped>>,
         at' = "memories" => at = "memories",
         at' \in DOMAIN Sources => at \in DOMAIN Sources
  PROVE  PagesInv'
BY DEF PagesInv, PageTypes, NotBegun, Ahead, NoneBehind, Steady, Key, Before, scan, Sources

LEMMA PagesBegin ==
  ASSUME PagesInv, MemoriesBegin
  PROVE  PagesInv'
<1>1. /\ at = "relations" /\ at' = "memories" /\ heat' \in [MemoryIds -> 0..MaxHeat]
      /\ UNCHANGED <<last, page, yielded, over, risen, seen, capped>>
  BY DEF MemoriesBegin, Go
<1>2. last = <<MaxHeat + 1, 0>> /\ ~over
  BY <1>1 DEF PagesInv, NotBegun, Sources
<1>3. PageTypes' /\ NotBegun' /\ NoneBehind'
  BY <1>1, <1>2, AssemblyBounds DEF PagesInv, PageTypes, NotBegun, NoneBehind, Sources
<1>4. ASSUME NEW id \in MemoryIds PROVE Before(last', Key(id)')
  <2>1. heat'[id] \in 0..MaxHeat
    BY <1>1
  <2>2. QED
    BY <1>1, <1>2, <2>1, AssemblyBounds DEF Before, Key
<1>5. QED
  BY <1>3, <1>4 DEF PagesInv, Ahead

LEMMA PagesRead ==
  ASSUME PagesInv, NEW r \in Rows["memories"], ReadMemory(r)
  PROVE  PagesInv'
<1>1. /\ at = "memories" /\ at' = at /\ page' = page \ {r.id} /\ seen' = seen \cup {r.id}
      /\ UNCHANGED <<heat, last, yielded, over, risen, capped>>
  BY DEF ReadMemory
<1>2. QED
  BY <1>1 DEF PagesInv, PageTypes, NotBegun, Ahead, NoneBehind, Steady, Key, Before, Sources

LEMMA PagesHeat ==
  ASSUME PagesInv, NEW id \in MemoryIds, NEW h \in 0..MaxHeat, HeatChanges(id, h)
  PROVE  PagesInv'
<1>1. /\ at = "memories" /\ at' = at /\ ~over
      /\ heat' = [heat EXCEPT ![id] = h]
      /\ risen' = IF h > heat[id] THEN risen \cup {id} ELSE risen
      /\ UNCHANGED <<last, page, yielded, over, seen, capped>>
  BY DEF HeatChanges, baseline
<1>2. PageTypes' /\ NotBegun' /\ NoneBehind'
  BY <1>1, AssemblyBounds DEF PagesInv, PageTypes, NotBegun, NoneBehind, Sources
<1>3. ASSUME NEW x \in MemoryIds, Steady(x)'
      PROVE  x \in seen' \cup page' \/ Before(last', Key(x)')
  <2>1. Steady(x) /\ heat'[x] \in Nat /\ heat[x] \in Nat /\ heat'[x] <= heat[x]
    BY <1>1, <1>3, AssemblyBounds DEF PagesInv, PageTypes, Steady
  <2>2. x \in seen \cup page \/ Before(last, Key(x))
    BY <1>1, <2>1 DEF PagesInv, Ahead
  <2>3. last \in Nat \X Nat /\ x \in Nat
    BY MemoryIdsAreNat DEF PagesInv, PageTypes
  <2>4. Before(last, Key(x)) => Before(last, Key(x)')
    BY <2>1, <2>3 DEF Before, Key
  <2>5. QED
    BY <1>1, <2>2, <2>4
<1>4. QED
  BY <1>2, <1>3 DEF PagesInv, Ahead

LEMMA PagesFetch ==
  ASSUME PagesInv, ReadPage
  PROVE  PagesInv'
<1>1. /\ at = "memories" /\ page = {} /\ ~over
      /\ UNCHANGED <<at, capped, seen, heat, risen>>
  BY DEF ReadPage, reading, baseline
<1>2. PICK P \in SUBSET Rest :
        /\ Cardinality(P) = IF Cardinality(Rest) < Wanted THEN Cardinality(Rest) ELSE Wanted
        /\ \A p \in P, q \in Rest \ P : Before(Key(p), Key(q))
        /\ page' = P
        /\ yielded' = yielded + Cardinality(P)
        /\ over' = (P = {} \/ Cardinality(P) < Wanted)
        /\ \/ P = {} /\ UNCHANGED last
           \/ \E p \in P : /\ \A q \in P \ {p} : Before(Key(q), Key(p))
                          /\ last' = Key(p)
  BY DEF ReadPage
<1>3. /\ Rest \subseteq MemoryIds /\ IsFiniteSet(Rest) /\ IsFiniteSet(P)
      /\ Cardinality(Rest) \in Nat /\ Cardinality(P) \in Nat
  <2>1. Rest \subseteq MemoryIds
    BY DEF Rest
  <2>2. IsFiniteSet(Rest)
    BY <2>1, MemoryIdsAreNat, FS_Subset
  <2>3. IsFiniteSet(P)
    BY <2>2, FS_Subset
  <2>4. QED
    BY <2>1, <2>2, <2>3, FS_CardinalityType
<1>4. /\ Wanted \in Nat /\ (capped => yielded + Wanted <= MemoryLimit)
      /\ (Wanted = 0 => capped /\ yielded = MemoryLimit)
  BY AssemblyBounds DEF PagesInv, PageTypes, Wanted
<1>5. PageTypes' /\ NotBegun'
  <2>1. last' \in Nat \X Nat
    <3>1. \A p \in P : heat[p] \in Nat /\ p \in Nat
      BY <1>3, MemoryIdsAreNat DEF PagesInv, PageTypes
    <3>2. \A p \in P : Key(p) \in Nat \X Nat
      BY <3>1 DEF Key
    <3>3. QED
      BY <1>2, <3>2 DEF PagesInv, PageTypes
  <2>2. capped => yielded' <= MemoryLimit
    BY <1>2, <1>3, <1>4, AssemblyBounds DEF PagesInv, PageTypes
  <2>3. QED
    BY <1>1, <1>2, <1>3, <2>1, <2>2 DEF PagesInv, PageTypes, NotBegun, Sources
<1>6. \A id \in MemoryIds : Steady(id) => id \in seen \cup Rest
  BY <1>1 DEF PagesInv, Ahead, Rest, Steady
<1>7. Ahead'
  <2>1. ASSUME NEW q \in Rest \ P PROVE Before(last', Key(q))
    <3>1. CASE P = {}
      BY <1>2, <2>1, <3>1 DEF Rest
    <3>2. CASE \E p \in P : last' = Key(p)
      BY <1>2, <2>1, <3>2
    <3>3. QED
      BY <1>2, <3>1, <3>2
  <2>2. QED
    BY <1>1, <1>2, <1>6, <2>1 DEF Ahead, Steady, Key
<1>8. NoneBehind'
  <2>1. SUFFICES ASSUME over', ~(capped' /\ yielded' = MemoryLimit) PROVE P = Rest
    BY <1>1, <1>2, <1>6 DEF NoneBehind, Steady
  <2>2. Cardinality(P) < Wanted
    <3>1. CASE P = {}
      <4>1. Cardinality(P) = 0
        BY <3>1, FS_EmptySet
      <4>2. Wanted # 0
        BY <1>1, <1>2, <1>4, <2>1, <4>1 DEF PagesInv, PageTypes
      <4>3. QED
        BY <1>4, <4>1, <4>2
    <3>2. CASE P # {}
      BY <1>2, <2>1, <3>2
    <3>3. QED
      BY <3>1, <3>2
  <2>3. Cardinality(P) = Cardinality(Rest)
    BY <1>2, <1>3, <1>4, <2>2
  <2>4. QED
    BY <1>3, <2>3, FS_Subset
<1>9. QED
  BY <1>5, <1>7, <1>8 DEF PagesInv

LEMMA PagesEnd ==
  ASSUME PagesInv, MemoriesEnd
  PROVE  PagesInv'
<1>1. /\ at' = "between" /\ heat' = NoMemories /\ last' = <<MaxHeat + 1, 0>>
      /\ yielded' = 0 /\ over' = FALSE /\ page' = page /\ capped' = capped
  BY DEF MemoriesEnd, Go
<1>2. heat' \in [MemoryIds -> Nat] /\ last' \in Nat \X Nat
  BY <1>1, AssemblyBounds DEF NoMemories
<1>3. PageTypes'
  <2>1. page' \subseteq MemoryIds /\ over' \in BOOLEAN /\ yielded' \in Nat
    BY <1>1 DEF PagesInv, PageTypes
  <2>2. yielded' <= MemoryLimit
    BY <1>1, AssemblyBounds
  <2>3. QED
    BY <1>2, <2>1, <2>2 DEF PageTypes
<1>4. QED
  BY <1>1, <1>3 DEF PagesInv, NotBegun, Ahead, NoneBehind, Sources

LEMMA PagesNext == PagesInv /\ [Next]_vars => PagesInv'
<1> SUFFICES ASSUME PagesInv, [Next]_vars PROVE PagesInv'
  OBVIOUS
<1>1. CASE \E i \in DOMAIN Sources[at] : \E r \in Rows[Sources[at][i]] : Read(i, r)
  BY <1>1, PagesKept DEF Read
<1>2. CASE \E r \in Rows["memories"] : ReadMemory(r)
  BY <1>2, PagesRead
<1>3. CASE \E id \in MemoryIds, h \in 0..MaxHeat : HeatChanges(id, h)
  BY <1>3, PagesHeat
<1>4. CASE \E r \in Rows["about_entity"] : ReadAbout(r)
  BY <1>4, PagesKept DEF ReadAbout
<1>5. CASE \E i \in DOMAIN Between : \E r \in Rows[Between[i]] : ReadBetween(i, r)
  BY <1>5, PagesKept DEF ReadBetween
<1>6. CASE SkeletonEnds \/ FilesAreMade
  BY <1>6, PagesKept DEF SkeletonEnds, FilesAreMade, Go, Sources
<1>7. CASE ChunkEnds
  BY <1>7, PagesKept DEF ChunkEnds, reading
<1>8. CASE BaselineEnds
  BY <1>8, PagesKept DEF BaselineEnds, Go, Sources, baseline
<1>9. CASE Sweep
  <2>1. CASE \E p \in Projects :
               \/ \E S \in SUBSET Symbols[p], R \in SUBSET References[p] : LoadProject(p, S, R)
               \/ SkipProject(p)
    BY <2>1, PagesKept DEF LoadProject, SkipProject, reading, baseline
  <2>2. CASE \E B \in Batches : MergeBatch(B)
    BY <2>2, PagesKept DEF MergeBatch, reading, baseline
  <2>3. CASE MergeLines
    BY <2>3, PagesKept DEF MergeLines, reading, baseline
  <2>4. CASE MergeCross
    BY <2>4, PagesKept DEF MergeCross, Go, Sources, baseline
  <2>5. QED
    BY <1>9, <2>1, <2>2, <2>3, <2>4 DEF Sweep
<1>10. CASE ResolveSources
  BY <1>10, PagesKept DEF ResolveSources, Go, Sources, baseline
<1>11. CASE UNCHANGED vars
  BY <1>11, PagesKept DEF vars, reading, baseline
<1>12. QED
  BY <1>1, <1>2, <1>3, <1>4, <1>5, <1>6, <1>7, <1>8, <1>9, <1>10, <1>11,
     PagesFetch, PagesBegin, PagesEnd DEF Next, Baseline

\* Keyset paging by heat and id, while other programs insert, delete, heat and
\* cool memories: whatever the page size and the limit, a memory that is there
\* from the first page on and is not heated is read.
THEOREM PagesPassNothingOver == Spec => []NoMemoryIsPassedOver
<1>1. PagesInv => NoMemoryIsPassedOver
  BY DEF PagesInv, NoneBehind, NoMemoryIsPassedOver, Steady
<1>2. QED
  BY <1>1, PagesInit, PagesNext, PTL DEF Spec

-----------------------------------------------------------------------------
(* The baseline passes validate_graph.  What the rows of a source make of  *)
(* a builder: every edge starts at a node and ends at one, or at a file    *)
(* that FinalizeFiles will make; and every node has its domain.            *)

Homes(lines, id) == {e.to : e \in {f \in lines : f.from = id /\ f.kind = "in_domain"}}

HasHome(lines, id) ==
  /\ id[1] \in {"file", "mcp", "skill"} => Homes(lines, id) # {}
  /\ id[1] \notin {"domain", "file", "mcp", "skill"} => \E d : Homes(lines, id) = {d}

Ordered(b) == IsBuilder(b) /\ b.order \in Seq(b.nodes) /\ IsInjective(b.order)

Whole(b) ==
  /\ Ordered(b)
  /\ \A e \in b.lines : e.from \in b.nodes /\ e.to \in b.nodes \cup {File(o[1]) : o \in b.owners}
  /\ \A id \in b.nodes : HasHome(b.lines, id)
  /\ \A id \in b.nodes : id[1] = "tool_hub" => id[2] \in b.nodes
  /\ \A m \in b.member : m[1] \in b.nodes
  /\ \A o \in b.owners : o[2] \in b.nodes

NoFiles(b) == \A id \in b.nodes : id[1] # "file"
NoSymbols(b) == \A id \in b.nodes : id[1] # "symbol"
FilesAreThere(b) == \A o \in b.owners : File(o[1]) \in b.nodes

\* From builder b to builder c: no owner of a file is new, no file and no symbol.
Grows(b, c) ==
  /\ Whole(c)
  /\ b.nodes \subseteq c.nodes /\ c.owners = b.owners
  /\ \A id \in c.nodes : id[1] \in {"file", "symbol"} => id \in b.nodes

LEMMA GrowsAgain ==
  ASSUME NEW b, NEW c, NEW d, Grows(b, c), Grows(c, d)
  PROVE  Grows(b, d)
BY DEF Grows

LEMMA GrowsKeeps ==
  ASSUME NEW b, NEW c, Grows(b, c)
  PROVE  /\ NoFiles(b) => NoFiles(c)
         /\ NoSymbols(b) => NoSymbols(c)
         /\ FilesAreThere(b) => FilesAreThere(c)
BY DEF Grows, NoFiles, NoSymbols, FilesAreThere

\* What is sound by its nodes and edges alone passes validate_graph.
Sound(nodes, lines) ==
  /\ \A e \in lines : e.from \in nodes /\ e.to \in nodes
  /\ \A id \in nodes : HasHome(lines, id)
  /\ \A id \in nodes : id[1] = "tool_hub" => id[2] \in nodes

LEMMA SoundIsValid ==
  ASSUME NEW b, Sound(b.nodes, b.lines)
  PROVE  Valid(b)
<1>1. EndsResolve(b)
  BY DEF Sound, EndsResolve, Ends
<1>2. HubsHaveDomains(b)
  BY DEF Sound, HubsHaveDomains
<1>3. InDomainCounts(b)
  <2>1. SUFFICES ASSUME NEW id \in b.nodes
                 PROVE  CASE id[1] = "domain" -> TRUE
                          [] id[1] \in {"file", "mcp", "skill"} -> DomainsOf(b, id) # {}
                          [] OTHER -> Cardinality(DomainsOf(b, id)) = 1
    BY DEF InDomainCounts
  <2>2. DomainsOf(b, id) = Homes(b.lines, id) /\ HasHome(b.lines, id)
    BY DEF DomainsOf, Homes, Sound
  <2>3. CASE id[1] = "domain"
    BY <2>3
  <2>4. CASE id[1] \in {"file", "mcp", "skill"}
    <3>1. DomainsOf(b, id) # {} /\ id[1] # "domain"
      BY <2>2, <2>4 DEF HasHome
    <3>2. QED
      BY <2>4, <3>1
  <2>5. CASE id[1] \notin {"domain", "file", "mcp", "skill"}
    <3>1. PICK d : Homes(b.lines, id) = {d}
      BY <2>2, <2>5 DEF HasHome
    <3>2. Cardinality(DomainsOf(b, id)) = 1
      BY <2>2, <3>1, FS_Singleton
    <3>3. id[1] # "domain" /\ id[1] \notin {"file", "mcp", "skill"}
      BY <2>5
    <3>4. QED
      BY <3>2, <3>3
  <2>6. QED
    BY <2>3, <2>4, <2>5
<1>4. QED
  BY <1>1, <1>2, <1>3 DEF Valid

LEMMA WholeIsSound ==
  ASSUME NEW b, Whole(b), FilesAreThere(b)
  PROVE  Sound(b.nodes, b.lines)
BY DEF Whole, FilesAreThere, Sound

-----------------------------------------------------------------------------
(* The order of the nodes.                                                 *)

LEMMA AppendIsInjective ==
  ASSUME NEW S, NEW s \in Seq(S), IsInjective(s), NEW x, x \notin S
  PROVE  IsInjective(Append(s, x))
<1>1. /\ DOMAIN Append(s, x) = 1..(Len(s) + 1) /\ Append(s, x)[Len(s) + 1] = x
      /\ \A i \in 1..Len(s) : Append(s, x)[i] = s[i]
  BY SeqIsMonotonic
<1>2. \A i \in 1..Len(s) : s[i] \in S
  OBVIOUS
<1>3. Len(s) \in Nat /\ DOMAIN s = 1..Len(s)
  OBVIOUS
<1> DEFINE t == Append(s, x)
<1> HIDE DEF t
<1>4. \A i, j \in 1..(Len(s) + 1) : t[i] = t[j] => i = j
  BY <1>1, <1>2, <1>3 DEF IsInjective, t
<1>5. QED
  BY <1>1, <1>4 DEF IsInjective, t

LEMMA SetToSeqIsInjective ==
  ASSUME NEW S, IsFiniteSet(S)
  PROVE  SetToSeq(S) \in Seq(S) /\ IsInjective(SetToSeq(S))
<1>1. Cardinality(S) \in Nat /\ ExistsBijection(1..Cardinality(S), S)
  BY FS_CardinalityType
<1>2. \E f \in [1..Cardinality(S) -> S] : IsInjective(f)
  BY <1>1 DEF ExistsBijection, Bijection, Injection, IsInjective
<1>3. QED
  BY <1>1, <1>2, SetToSeqIsSeq DEF SetToSeq

LEMMA AppendAllIsInjective ==
  ASSUME NEW S, NEW s \in Seq(S), IsInjective(s), NEW T, IsFiniteSet(T), T \cap S = {}
  PROVE  AppendAll(s, T) \in Seq(S \cup T) /\ IsInjective(AppendAll(s, T))
<1> DEFINE t == SetToSeq(T)
<1>1. t \in Seq(T) /\ IsInjective(t)
  BY SetToSeqIsInjective
<1>2. AppendAll(s, T) = s \o t
  BY DEF AppendAll
<1> HIDE DEF t
<1>3. s \in Seq(S \cup T) /\ t \in Seq(S \cup T)
  BY <1>1, SeqIsMonotonic
<1>4. /\ Len(s) \in Nat /\ Len(t) \in Nat /\ s \o t \in Seq(S \cup T)
      /\ DOMAIN (s \o t) = 1..(Len(s) + Len(t))
      /\ \A i \in 1..(Len(s) + Len(t)) :
            (s \o t)[i] = IF i <= Len(s) THEN s[i] ELSE t[i - Len(s)]
  BY <1>3
<1>5. (\A i \in 1..Len(s) : s[i] \in S) /\ (\A i \in 1..Len(t) : t[i] \in T)
  BY <1>1
<1>6. DOMAIN s = 1..Len(s) /\ DOMAIN t = 1..Len(t)
  BY <1>1
<1> DEFINE u == s \o t
<1> HIDE DEF u
<1>7. \A i, j \in 1..(Len(s) + Len(t)) : u[i] = u[j] => i = j
  BY <1>1, <1>4, <1>5, <1>6 DEF IsInjective, u
<1>8. QED
  BY <1>2, <1>4, <1>7 DEF IsInjective, u

-----------------------------------------------------------------------------
(* Steps of a builder that keep it whole.                                  *)

LEMMA HomesOfUnion ==
  ASSUME NEW K, NEW L, NEW id
  PROVE  Homes(K \cup L, id) = Homes(K, id) \cup Homes(L, id)
BY DEF Homes

\* Nodes and edges that join a builder: a new node has its domain, and the
\* edges into domains are of new nodes, or of such as may have several.
LEMMA JoiningGrows ==
  ASSUME NEW b, Whole(b), NEW c, NEW N, NEW L, Ordered(c),
         c.nodes = b.nodes \cup N, c.lines = b.lines \cup L, c.owners = b.owners,
         \A m \in c.member : m[1] \in c.nodes,
         \A e \in L : e.from \in c.nodes /\ e.to \in c.nodes,
         \A e \in L : e.kind = "in_domain" => e.from \notin b.nodes \/ e.from[1] \in {"mcp", "skill"},
         \A id \in N : id[1] \notin {"file", "symbol"} /\ HasHome(c.lines, id)
                         /\ (id[1] = "tool_hub" => id[2] \in c.nodes)
  PROVE  Grows(b, c)
<1>1. ASSUME NEW id \in b.nodes PROVE HasHome(c.lines, id)
  <2>1. HasHome(b.lines, id) /\ Homes(c.lines, id) = Homes(b.lines, id) \cup Homes(L, id)
    BY HomesOfUnion DEF Whole
  <2>2. CASE id[1] \in {"mcp", "skill"}
    BY <2>1, <2>2 DEF HasHome
  <2>3. CASE id[1] \notin {"mcp", "skill"}
    <3>1. Homes(L, id) = {}
      BY <2>3 DEF Homes
    <3>2. QED
      BY <2>1, <3>1 DEF HasHome
  <2>4. QED
    BY <2>2, <2>3
<1>2. Whole(c)
  BY <1>1 DEF Whole
<1>3. QED
  BY <1>2 DEF Grows

\* Edges alone, of kinds other than in_domain.
LEMMA LinesGrow ==
  ASSUME NEW b, Whole(b), NEW c, NEW L, IsBuilder(c),
         c.nodes = b.nodes, c.order = b.order, c.owners = b.owners, c.lines = b.lines \cup L,
         \A m \in c.member : m[1] \in b.nodes,
         \A e \in L : e.from \in b.nodes /\ e.to \in b.nodes /\ e.kind # "in_domain"
  PROVE  Grows(b, c)
<1>1. Ordered(c)
  BY DEF Whole, Ordered
<1> DEFINE none == {}
<1>2. c.nodes = b.nodes \cup none /\ \A id \in none : FALSE
  OBVIOUS
<1> HIDE DEF none
<1>3. QED
  BY <1>1, <1>2, JoiningGrows

LEMMA AddLineGrows ==
  ASSUME NEW b, Whole(b), NEW from \in b.nodes, NEW to \in b.nodes, NEW kind, kind # "in_domain"
  PROVE  Grows(b, AddLine(b, Line(from, kind, to)))
<1> DEFINE e == Line(from, kind, to)
           c == AddLine(b, e)
<1>1. e.from = from /\ e.to = to /\ e.kind = kind
  BY DEF Line
<1> HIDE DEF e
<1>2. /\ IsBuilder(c) /\ c.nodes = b.nodes /\ c.order = b.order /\ c.lines = b.lines \cup {e}
      /\ c.member = b.member /\ c.owners = b.owners
  BY AddLineFields DEF Whole, Ordered
<1> DEFINE L == {e}
<1>3. c.lines = b.lines \cup L
      /\ \A f \in L : f.from \in b.nodes /\ f.to \in b.nodes /\ f.kind # "in_domain"
  BY <1>1, <1>2
<1>4. \A m \in c.member : m[1] \in b.nodes
  BY <1>2 DEF Whole
<1> HIDE DEF c, L
<1>5. Grows(b, c)
  BY <1>2, <1>3, <1>4, LinesGrow
<1>6. QED
  BY <1>5 DEF c, e

LEMMA AddNodeOrdered ==
  ASSUME NEW b, Ordered(b), NEW id, id \notin b.nodes, NEW dom
  PROVE  Ordered(AddNode(b, id, dom))
<1> DEFINE c == AddNode(b, id, dom)
<1>1. IsBuilder(c) /\ c.nodes = b.nodes \cup {id} /\ c.order = Append(b.order, id)
  BY AddNodeFields DEF Ordered
<1> HIDE DEF c
<1>2. b.order \in Seq(c.nodes) /\ id \in c.nodes
  BY <1>1, SeqIsMonotonic DEF Ordered
<1>3. IsInjective(c.order)
  BY <1>1, AppendIsInjective DEF Ordered
<1>4. QED
  BY <1>1, <1>2, <1>3 DEF Ordered, c

LEMMA EnsureDomainGrows ==
  ASSUME NEW b, Whole(b), NEW dom, dom[1] = "domain"
  PROVE  Grows(b, EnsureDomain(b, dom)) /\ dom \in EnsureDomain(b, dom).nodes
<1>1. CASE dom \in b.nodes
  BY <1>1 DEF EnsureDomain, Grows
<1>2. CASE dom \notin b.nodes
  <2> DEFINE c == AddNode(b, dom, dom)
  <2> DEFINE N == {dom}
             none == {}
  <2>1. /\ c.nodes = b.nodes \cup N /\ c.lines = b.lines \cup none
        /\ c.member = b.member \cup {<<dom, dom>>} /\ c.owners = b.owners
    BY AddNodeFields DEF Whole, Ordered
  <2>2. Ordered(c)
    BY <1>2, AddNodeOrdered DEF Whole
  <2>3. \A id \in N : /\ id[1] \notin {"file", "symbol"} /\ HasHome(c.lines, id)
                      /\ (id[1] = "tool_hub" => id[2] \in c.nodes)
    BY DEF HasHome
  <2>4. \A m \in c.member : m[1] \in c.nodes
    BY <2>1 DEF Whole
  <2>5. Grows(b, c)
    <3>1. \A e \in none : FALSE
      OBVIOUS
    <3> HIDE DEF c, N, none
    <3>2. QED
      BY <2>1, <2>2, <2>3, <2>4, <3>1, JoiningGrows
  <2>6. QED
    BY <1>2, <2>1, <2>5 DEF EnsureDomain, c
<1>3. QED
  BY <1>1, <1>2

LEMMA AddChildGrows ==
  ASSUME NEW b, Whole(b), NEW id, NEW dom \in b.nodes, id[1] \notin {"file", "symbol"},
         id[1] = "tool_hub" => id[2] = dom
  PROVE  Grows(b, AddChild(b, id, dom)) /\ id \in AddChild(b, id, dom).nodes
<1>1. CASE id \in b.nodes
  BY <1>1 DEF AddChild, Grows
<1>2. CASE id \notin b.nodes
  <2> DEFINE n == AddNode(b, id, dom)
             e == Line(id, "in_domain", dom)
             c == AddLine(n, e)
  <2>1. /\ IsBuilder(n) /\ n.nodes = b.nodes \cup {id} /\ n.lines = b.lines
        /\ n.order = n.order /\ n.member = b.member \cup {<<id, dom>>} /\ n.owners = b.owners
    BY AddNodeFields DEF Whole, Ordered
  <2>2. Ordered(n)
    BY <1>2, AddNodeOrdered DEF Whole
  <2> HIDE DEF n
  <2>3. /\ IsBuilder(c) /\ c.nodes = n.nodes /\ c.lines = b.lines \cup {e} /\ c.order = n.order
        /\ c.member = n.member /\ c.owners = b.owners
    BY <2>1, AddLineFields
  <2>4. e.from = id /\ e.to = dom /\ e.kind = "in_domain"
    BY DEF Line
  <2> HIDE DEF c, e
  <2>5. Ordered(c)
    BY <2>2, <2>3 DEF Ordered
  <2>6. Homes(b.lines, id) = {} /\ Homes({e}, id) = {dom}
    BY <1>2, <2>4 DEF Homes, Whole
  <2>7. HasHome(c.lines, id)
    <3> DEFINE L == {e}
    <3>1. c.lines = b.lines \cup L /\ Homes(b.lines, id) = {} /\ Homes(L, id) = {dom}
      BY <2>3, <2>6
    <3> HIDE DEF L
    <3>2. Homes(c.lines, id) = {dom}
      BY <3>1, HomesOfUnion
    <3>3. QED
      BY <3>2 DEF HasHome
  <2>8. \A m \in c.member : m[1] \in c.nodes
    BY <2>1, <2>3 DEF Whole
  <2>9. c.nodes = b.nodes \cup {id}
    BY <2>1, <2>3
  <2>10. Grows(b, c)
    <3> DEFINE N == {id}
               L == {e}
    <3>1. c.nodes = b.nodes \cup N /\ c.lines = b.lines \cup L
      BY <2>3, <2>9
    <3>2. \A x \in N : /\ x[1] \notin {"file", "symbol"} /\ HasHome(c.lines, x)
                       /\ (x[1] = "tool_hub" => x[2] \in c.nodes)
      BY <2>7, <2>9
    <3>3. \A f \in L : /\ f.from \in c.nodes /\ f.to \in c.nodes
                       /\ f.from \notin b.nodes
      BY <1>2, <2>4, <2>9
    <3> HIDE DEF N, L
    <3>4. QED
      BY <2>3, <2>5, <2>8, <3>1, <3>2, <3>3, JoiningGrows
  <2>11. QED
    BY <1>2, <2>9, <2>10 DEF AddChild, c, n, e
<1>3. QED
  BY <1>1, <1>2

LEMMA AddHubGrows ==
  ASSUME NEW b, Whole(b), NEW dom \in b.nodes, NEW tool
  PROVE  Grows(b, AddHub(b, dom, tool)) /\ Hub(dom, tool) \in AddHub(b, dom, tool).nodes
<1>1. Hub(dom, tool)[1] = "tool_hub" /\ Hub(dom, tool)[2] = dom
  BY DEF Hub
<1>2. QED
  BY <1>1, AddChildGrows DEF AddHub

-----------------------------------------------------------------------------
(* The rows of the sources keep a builder whole.                           *)

LEMMA IngestOwnedGrows ==
  ASSUME NEW b, Whole(b), NEW id, NEW name, id[1] \notin {"file", "symbol", "tool_hub"}
  PROVE  Grows(b, IngestOwned(b, id, name))
<1> DEFINE dom == AssignDomain(name)
           own == EnsureDomain(b, dom)
<1>1. Grows(b, own) /\ dom \in own.nodes
  BY AssignDomainKind, EnsureDomainGrows
<1>2. Grows(own, AddChild(own, id, dom))
  BY <1>1, AddChildGrows DEF Grows
<1>3. QED
  BY <1>1, <1>2, GrowsAgain DEF IngestOwned

LEMMA IngestHookGrows ==
  ASSUME NEW b, Whole(b), NEW r
  PROVE  Grows(b, IngestHook(b, r))
<1> DEFINE dom == AssignDomain(r.dom)
           id == <<"hook", r.event>>
           there == EnsureDomain(b, dom)
           own == AddChild(there, id, dom)
           c == AddLine(own, Line(dom, "triggered_hook", id))
<1>1. Grows(b, there) /\ dom \in there.nodes
  BY AssignDomainKind, EnsureDomainGrows
<1>2. Grows(there, own) /\ id \in own.nodes
  BY <1>1, AddChildGrows DEF Grows
<1>3. IngestHook(b, r) = IF id \in b.nodes THEN own ELSE c
  BY DEF IngestHook
<1>4. Grows(own, c)
  BY <1>1, <1>2, AddLineGrows DEF Grows
<1> HIDE DEF c, own, there
<1>5. QED
  BY <1>1, <1>2, <1>3, <1>4, GrowsAgain

\* A child of a hub of its domain, which the hub is joined with.
LEMMA BelowHub ==
  ASSUME NEW b, Whole(b), NEW dom \in b.nodes, NEW tool, NEW id, id[1] \notin {"file", "symbol", "tool_hub"},
         NEW kind, kind # "in_domain"
  PROVE  /\ Grows(b, AddChild(AddHub(b, dom, tool), id, dom))
         /\ Grows(b, AddLine(AddChild(AddHub(b, dom, tool), id, dom),
                             Line(Hub(dom, tool), kind, id)))
         /\ id \in AddChild(AddHub(b, dom, tool), id, dom).nodes
<1> DEFINE hub == AddHub(b, dom, tool)
           own == AddChild(hub, id, dom)
           c == AddLine(own, Line(Hub(dom, tool), kind, id))
<1>1. Grows(b, hub) /\ Hub(dom, tool) \in hub.nodes
  BY AddHubGrows
<1>2. Grows(hub, own) /\ id \in own.nodes
  BY <1>1, AddChildGrows DEF Grows
<1>3. Grows(own, c)
  BY <1>1, <1>2, AddLineGrows DEF Grows
<1>4. QED
  BY <1>1, <1>2, <1>3, GrowsAgain

LEMMA IngestAgentGrows ==
  ASSUME NEW b, Whole(b), NEW r
  PROVE  Grows(b, IngestAgent(b, r))
<1> DEFINE dom == AssignDomain(r.dom)
           id == <<"agent", dom, r.agent>>
           there == EnsureDomain(b, dom)
           c == AddLine(AddChild(AddHub(there, dom, "Task"), id, dom),
                        Line(Hub(dom, "Task"), "spawned_agent", id))
<1>1. Grows(b, there) /\ dom \in there.nodes
  BY AssignDomainKind, EnsureDomainGrows
<1>2. id[1] = "agent"
  OBVIOUS
<1>3. IngestAgent(b, r) = c
  BY DEF IngestAgent
<1>4. Whole(there)
  BY <1>1 DEF Grows
<1> HIDE DEF id, dom, there
<1>5. Grows(there, c)
  BY <1>1, <1>2, <1>4, BelowHub
<1>6. QED
  BY <1>1, <1>3, <1>5, GrowsAgain

LEMMA AddCommandGrows ==
  ASSUME NEW b, Whole(b), NEW id, NEW dom, id[1] = "command", dom[1] = "domain"
  PROVE  Grows(b, AddCommand(b, id, dom)) /\ id \in AddCommand(b, id, dom).nodes
<1> DEFINE there == EnsureDomain(b, dom)
           own == AddHub(there, dom, "Bash")
           c == AddLine(AddChild(own, id, dom), Line(Hub(dom, "Bash"), "command_in_hub", id))
<1>1. Grows(b, there) /\ dom \in there.nodes /\ Whole(there)
  BY EnsureDomainGrows DEF Grows
<1>2. AddCommand(b, id, dom) = IF id \in b.nodes THEN own ELSE c
  BY DEF AddCommand
<1>3. Grows(there, own)
  BY <1>1, AddHubGrows
<1>4. Grows(there, c) /\ Grows(there, AddChild(own, id, dom)) /\ id \in AddChild(own, id, dom).nodes
  BY <1>1, BelowHub
<1>5. id \in c.nodes
  BY <1>4, AddLineFields DEF Grows, Whole, Ordered
<1> HIDE DEF there, own, c
<1>6. QED
  BY <1>1, <1>2, <1>3, <1>4, <1>5, GrowsAgain DEF Grows

LEMMA IngestLinkGrows ==
  ASSUME NEW b, Whole(b), NEW label \in DOMAIN LinkKind, NEW r
  PROVE  Grows(b, IngestLink(b, label, r))
<1>1. LinkKind[label] # "in_domain"
  BY DEF LinkKind
<1>2. Joins(label, r) = Line(r.from, LinkKind[label], r.to)
      /\ Ends(Joins(label, r)) = {r.from, r.to}
  BY DEF Joins, Ends, Line
<1>3. CASE r.from \in b.nodes /\ r.to \in b.nodes
  BY <1>1, <1>2, <1>3, AddLineGrows DEF IngestLink
<1>4. CASE ~(r.from \in b.nodes /\ r.to \in b.nodes)
  BY <1>2, <1>4 DEF IngestLink, Grows
<1>5. QED
  BY <1>3, <1>4

LEMMA IngestDiscussionToolGrows ==
  ASSUME NEW b, Whole(b), NEW r
  PROVE  Grows(b, IngestDiscussionTool(b, r))
<1> DEFINE dom == AssignDomain(r.dom)
           there == EnsureDomain(b, dom)
           hub == AddHub(there, dom, r.tool)
           c == AddLine(hub, Line(Session(r), "discussion_used_tool", Hub(dom, r.tool)))
<1>1. Grows(b, there) /\ dom \in there.nodes
  BY AssignDomainKind, EnsureDomainGrows
<1>2. Grows(there, hub) /\ Hub(dom, r.tool) \in hub.nodes
  BY <1>1, AddHubGrows DEF Grows
<1>3. Session(r) \in b.nodes => Grows(hub, c)
  BY <1>1, <1>2, AddLineGrows DEF Grows
<1>4. IngestDiscussionTool(b, r) = IF Session(r) \notin b.nodes \/ r.tool \notin Tools THEN b ELSE c
  BY DEF IngestDiscussionTool
<1> HIDE DEF c, hub, there
<1>5. QED
  BY <1>1, <1>2, <1>3, <1>4, GrowsAgain DEF Grows

LEMMA IngestDiscussionAgentGrows ==
  ASSUME NEW b, Whole(b), NEW r
  PROVE  Grows(b, IngestDiscussionAgent(b, r))
<1> DEFINE dom == AssignDomain(r.dom)
           id == <<"agent", dom, r.agent>>
           own == EnsureDomain(b, dom)
           more == AddChild(AddHub(own, dom, "Task"), id, dom)
           there == IF id \in b.nodes THEN own ELSE more
           c == AddLine(there, Line(Session(r), "discussion_spawned_agent", id))
<1>1. Grows(b, own) /\ dom \in own.nodes /\ Whole(own)
  BY AssignDomainKind, EnsureDomainGrows DEF Grows
<1>2. id[1] = "agent"
  OBVIOUS
<1>3. IngestDiscussionAgent(b, r) = IF Session(r) \notin b.nodes THEN b ELSE c
  BY DEF IngestDiscussionAgent
<1> HIDE DEF id, dom, own
<1>4. Grows(own, more) /\ id \in more.nodes
  BY <1>1, <1>2, BelowHub
<1> HIDE DEF more
<1>5. Grows(b, there) /\ id \in there.nodes
  BY <1>1, <1>4, GrowsAgain DEF Grows
<1>6. Session(r) \in b.nodes => Grows(there, c)
  BY <1>5, AddLineGrows DEF Grows
<1> HIDE DEF c, there
<1>7. QED
  BY <1>3, <1>5, <1>6, GrowsAgain DEF Grows

LEMMA IngestDiscussionCommandGrows ==
  ASSUME NEW b, Whole(b), Sane(b), NEW r
  PROVE  Grows(b, IngestDiscussionCommand(b, r))
<1> DEFINE id == <<"command", r.command>>
           dom == (CHOOSE m \in b.member : m[1] = Session(r))[2]
           there == IF id \in b.nodes THEN b ELSE AddCommand(b, id, dom)
           c == AddLine(there, Line(Session(r), "discussion_ran_command", id))
<1>1. CASE Session(r) \notin b.nodes
  BY <1>1 DEF IngestDiscussionCommand, Grows
<1>2. CASE Session(r) \in b.nodes
  <2>1. Session(r)[1] = "discussion" /\ id[1] = "command"
    BY DEF Session
  <2>2. dom[1] = "domain"
    BY <1>2, <2>1 DEF Sane
  <2>3. IngestDiscussionCommand(b, r) = c
    BY <1>2 DEF IngestDiscussionCommand
  <2> HIDE DEF dom, id
  <2>4. Grows(b, there) /\ id \in there.nodes
    BY <2>1, <2>2, AddCommandGrows DEF Grows
  <2>5. Grows(there, c)
    BY <1>2, <2>4, AddLineGrows DEF Grows
  <2>6. QED
    BY <2>3, <2>4, <2>5, GrowsAgain
<1>3. QED
  BY <1>1, <1>2

LEMMA IngestUsageGrows ==
  ASSUME NEW b, Whole(b), NEW id, id[1] \in {"skill", "mcp"}, NEW kind, kind # "in_domain",
         NEW name
  PROVE  Grows(b, IngestUsage(b, id, kind, name))
<1> DEFINE dom == AssignDomain(name)
           own == EnsureDomain(b, dom)
           in == Line(id, "in_domain", dom)
           more == AddUnordered(own, id, dom)
           new == AddLine(more, in)
           there == IF <<id, dom>> \in own.member THEN own ELSE new
           c == AddLine(there, Line(dom, kind, id))
<1>1. Grows(b, own) /\ dom \in own.nodes /\ Whole(own)
  BY AssignDomainKind, EnsureDomainGrows DEF Grows
<1>2. IngestUsage(b, id, kind, name) = c
  BY DEF IngestUsage
<1> HIDE DEF own, dom
<1>3. Grows(own, new) /\ id \in new.nodes
  <2> DEFINE N == {id}
             L == {in}
  <2>1. /\ IsBuilder(more) /\ more.nodes = own.nodes \cup N /\ more.order = own.order
        /\ more.lines = own.lines /\ more.owners = own.owners
        /\ more.member = own.member \cup {<<id, dom>>}
    BY <1>1, AddUnorderedFields DEF Whole, Ordered
  <2> HIDE DEF more
  <2>2. /\ IsBuilder(new) /\ new.nodes = own.nodes \cup N /\ new.order = own.order
        /\ new.lines = own.lines \cup L /\ new.owners = own.owners
        /\ new.member = own.member \cup {<<id, dom>>}
    BY <2>1, AddLineFields
  <2> HIDE DEF new
  <2>3. in.from = id /\ in.to = dom /\ in.kind = "in_domain"
    BY DEF Line
  <2> HIDE DEF in
  <2>4. Ordered(new)
    BY <1>1, <2>2, SeqIsMonotonic DEF Whole, Ordered
  <2>5. Homes(L, id) # {}
    BY <2>3 DEF Homes
  <2>6. Homes(new.lines, id) # {}
    <3> HIDE DEF L
    <3>1. QED
      BY <2>2, <2>5, HomesOfUnion
  <2>7. \A x \in N : /\ x[1] \notin {"file", "symbol"} /\ HasHome(new.lines, x)
                     /\ (x[1] = "tool_hub" => x[2] \in new.nodes)
    BY <2>6 DEF HasHome
  <2>8. \A f \in L : /\ f.from \in new.nodes /\ f.to \in new.nodes
                     /\ f.from[1] \in {"mcp", "skill"}
    BY <1>1, <2>2, <2>3
  <2>9. \A m \in new.member : m[1] \in new.nodes
    BY <1>1, <2>2 DEF Whole
  <2>10. id \in new.nodes
    BY <2>2
  <2> HIDE DEF N, L
  <2>11. QED
    BY <1>1, <2>2, <2>4, <2>7, <2>8, <2>9, <2>10, JoiningGrows
<1>4. Grows(b, there) /\ id \in there.nodes /\ dom \in there.nodes
  <2>1. <<id, dom>> \in own.member => id \in own.nodes
    BY <1>1 DEF Whole
  <2> HIDE DEF new
  <2>2. QED
    BY <1>1, <1>3, <2>1, GrowsAgain DEF Grows
<1> HIDE DEF there
<1>5. Grows(there, c)
  BY <1>4, AddLineGrows DEF Grows
<1> HIDE DEF c
<1>6. QED
  BY <1>2, <1>4, <1>5, GrowsAgain

LEMMA IngestSkillGrows ==
  ASSUME NEW b, Whole(b), NEW r \in Rows["skills"]
  PROVE  Grows(b, IngestSkill(b, r))
<1> DEFINE doms == IF r.doms = <<>> THEN <<Global>>
                   ELSE [i \in DOMAIN r.doms |-> AssignDomain(r.doms[i])]
           id == <<"skill", r.name>>
           new == ToSet(doms) \ b.nodes
           all == [b EXCEPT !.nodes = @ \cup new,
                            !.order = AppendAll(@, new),
                            !.member = @ \cup {<<d, d>> : d \in new}]
           own == AddChild(all, id, doms[1])
           mine == {<<id, d>> : d \in ToSet(doms)}
           L == {Line(d, "invoked_skill", id) : d \in ToSet(doms)}
           c == [own EXCEPT !.member = IF id \in b.nodes THEN @ ELSE @ \cup mine,
                            !.lines = @ \cup L]
<1>1. IngestSkill(b, r) = c
  BY DEF IngestSkill
<1>2. IsFiniteSet(ToSet(doms)) /\ doms[1] \in ToSet(doms)
  <2>1. CASE r.doms = <<>>
    <3>1. doms = <<Global>> /\ DOMAIN doms = {1}
      BY <2>1
    <3>2. ToSet(doms) = {Global} /\ doms[1] = Global
      BY <3>1 DEF ToSet
    <3>3. QED
      BY <3>2, FS_Singleton
  <2>2. CASE r.doms # <<>>
    <3>1. IsFiniteSet(DOMAIN r.doms) /\ 1 \in DOMAIN r.doms
      BY <2>2, SkillDomains
    <3>2. /\ DOMAIN doms = DOMAIN r.doms /\ doms \in [DOMAIN doms -> ToSet(doms)]
          /\ doms[1] \in ToSet(doms)
      BY <2>2, <3>1 DEF ToSet
    <3> HIDE DEF doms
    <3>3. QED
      BY <3>1, <3>2, ToSetIsFinite
  <2>3. QED
    BY <2>1, <2>2
<1>3. \A d \in ToSet(doms) : d[1] = "domain"
  <2>1. Global[1] = "domain"
    BY DEF Global, Domain
  <2>2. \A i \in DOMAIN doms : doms[i][1] = "domain"
    BY <2>1, AssignDomainKind
  <2>3. QED
    BY <2>2 DEF ToSet
<1> HIDE DEF doms
<1>4. IsFiniteSet(new) /\ new \cap b.nodes = {} /\ \A d \in new : d[1] = "domain"
  BY <1>2, <1>3, FS_Subset
<1>5. ToSet(doms) \subseteq b.nodes \cup new
  OBVIOUS
<1> HIDE DEF new
<1>6. /\ IsBuilder(all) /\ all.nodes = b.nodes \cup new /\ all.order = AppendAll(b.order, new)
      /\ all.member = b.member \cup {<<d, d>> : d \in new} /\ all.owners = b.owners
      /\ all.lines = b.lines
  BY DEF Whole, Ordered, IsBuilder
<1> HIDE DEF all
<1>7. Grows(b, all)
  <2> DEFINE none == {}
  <2>1. Ordered(all)
    BY <1>4, <1>6, AppendAllIsInjective DEF Whole, Ordered
  <2>2. \A m \in all.member : m[1] \in all.nodes
    BY <1>6 DEF Whole
  <2>3. \A x \in new : /\ x[1] \notin {"file", "symbol"} /\ HasHome(all.lines, x)
                       /\ (x[1] = "tool_hub" => x[2] \in all.nodes)
    BY <1>4 DEF HasHome
  <2>4. all.lines = b.lines \cup none /\ \A e \in none : FALSE
    BY <1>6
  <2> HIDE DEF none
  <2>5. QED
    BY <1>6, <2>1, <2>2, <2>3, <2>4, JoiningGrows
<1>8. Grows(all, own) /\ id \in own.nodes
  <2>1. doms[1] \in all.nodes
    BY <1>2, <1>5, <1>6
  <2>2. id[1] = "skill" /\ Whole(all)
    BY <1>7 DEF Grows
  <2> HIDE DEF id
  <2>3. QED
    BY <2>1, <2>2, AddChildGrows
<1>9. Grows(own, c)
  <2>1. Whole(own) /\ ToSet(doms) \subseteq own.nodes
    BY <1>5, <1>6, <1>8 DEF Grows
  <2> HIDE DEF own
  <2>2. \A e \in L : e.from \in own.nodes /\ e.to \in own.nodes /\ e.kind # "in_domain"
    BY <1>8, <2>1 DEF Line
  <2>3. \A m \in mine : m[1] \in own.nodes
    BY <1>8
  <2> HIDE DEF id, mine, L
  <2>4. /\ IsBuilder(c) /\ c.nodes = own.nodes /\ c.order = own.order /\ c.owners = own.owners
        /\ c.member = IF id \in b.nodes THEN own.member ELSE own.member \cup mine
        /\ c.lines = own.lines \cup L
    BY <2>1 DEF Whole, Ordered, IsBuilder
  <2> HIDE DEF c
  <2>5. \A m \in c.member : m[1] \in own.nodes
    BY <2>1, <2>3, <2>4 DEF Whole
  <2>6. QED
    BY <2>1, <2>2, <2>4, <2>5, LinesGrow
<1>10. QED
  <2> HIDE DEF c, own
  <2>1. QED
    BY <1>1, <1>7, <1>8, <1>9, GrowsAgain

\* A file a tool has touched is no node yet, only the end of an edge.
LEMMA IngestToolEventWhole ==
  ASSUME NEW b, Whole(b), NoFiles(b), NEW r
  PROVE  /\ Whole(IngestToolEvent(b, r)) /\ NoFiles(IngestToolEvent(b, r))
         /\ NoSymbols(b) => NoSymbols(IngestToolEvent(b, r))
<1> DEFINE dom == AssignDomain(r.dom)
           there == EnsureDomain(b, dom)
           own == AddHub(there, dom, r.tool)
           e == Line(Hub(dom, r.tool), "tool_used_file", File(r.path))
           c == [own EXCEPT !.owners = @ \cup {<<r.path, dom>>}, !.lines = @ \cup {e}]
<1>1. Grows(b, there) /\ dom \in there.nodes /\ Whole(there)
  BY AssignDomainKind, EnsureDomainGrows DEF Grows
<1>2. Grows(there, own) /\ Hub(dom, r.tool) \in own.nodes
  BY <1>1, AddHubGrows
<1>3. IngestToolEvent(b, r) = IF r.path = NoPath THEN own ELSE c
  BY DEF IngestToolEvent
<1>4. /\ Whole(own) /\ NoFiles(own) /\ dom \in own.nodes
      /\ NoSymbols(b) => NoSymbols(own)
  BY <1>1, <1>2, GrowsKeeps DEF Grows
<1> HIDE DEF own, dom, there
<1>5. /\ e.from = Hub(dom, r.tool) /\ e.to = File(r.path) /\ e.kind = "tool_used_file"
  BY DEF Line
<1> HIDE DEF e
<1>6. /\ IsBuilder(c) /\ c.nodes = own.nodes /\ c.order = own.order /\ c.member = own.member
      /\ c.owners = own.owners \cup {<<r.path, dom>>} /\ c.lines = own.lines \cup {e}
  BY <1>4 DEF Whole, Ordered, IsBuilder
<1> HIDE DEF c
<1>7. Ordered(c)
  BY <1>4, <1>6 DEF Whole, Ordered
<1>8. \A f \in c.lines : f.from \in c.nodes /\ f.to \in c.nodes \cup {File(o[1]) : o \in c.owners}
  <2>1. File(r.path) \in {File(o[1]) : o \in c.owners}
    <3>1. <<r.path, dom>> \in c.owners /\ <<r.path, dom>>[1] = r.path
      BY <1>6
    <3>2. QED
      BY <3>1
  <2>2. {File(o[1]) : o \in own.owners} \subseteq {File(o[1]) : o \in c.owners}
    BY <1>6
  <2>3. \A f \in own.lines : f.from \in c.nodes
                               /\ f.to \in c.nodes \cup {File(o[1]) : o \in own.owners}
    BY <1>4, <1>6 DEF Whole
  <2>4. QED
    BY <1>2, <1>5, <1>6, <2>1, <2>2, <2>3
<1>9. \A id \in c.nodes : HasHome(c.lines, id)
  <2> DEFINE L == {e}
  <2>1. c.lines = own.lines \cup L /\ \A id : Homes(L, id) = {}
    BY <1>5, <1>6 DEF Homes
  <2> HIDE DEF L
  <2>2. ASSUME NEW id PROVE Homes(c.lines, id) = Homes(own.lines, id)
    <3>1. Homes(own.lines \cup L, id) = Homes(own.lines, id) \cup Homes(L, id)
      BY HomesOfUnion
    <3>2. QED
      BY <2>1, <3>1
  <2>3. QED
    BY <1>4, <1>6, <2>2 DEF Whole, HasHome
<1>10. \A o \in c.owners : o[2] \in c.nodes
  BY <1>4, <1>6 DEF Whole
<1>11. /\ Whole(c) /\ NoFiles(c)
       /\ NoSymbols(b) => NoSymbols(c)
  BY <1>4, <1>6, <1>7, <1>8, <1>9, <1>10 DEF Whole, NoFiles, NoSymbols
<1>12. QED
  BY <1>3, <1>4, <1>11

\* The files the tools have touched, each in the domains of its owners.
LEMMA FinalizeFilesWhole ==
  ASSUME NEW b, Whole(b), NoFiles(b), IsFiniteSet(b.owners)
  PROVE  Whole(FinalizeFiles(b)) /\ FilesAreThere(FinalizeFiles(b))
<1> DEFINE files == {File(p) : p \in Paths(b)}
           mine == {<<File(o[1]), o[2]>> : o \in b.owners}
           L == {Line(File(o[1]), "in_domain", o[2]) : o \in b.owners}
           c == FinalizeFiles(b)
<1>1. /\ IsBuilder(c) /\ c.nodes = b.nodes \cup files /\ c.order = AppendAll(b.order, files)
      /\ c.member = b.member \cup mine /\ c.owners = b.owners /\ c.lines = b.lines \cup L
  BY DEF Whole, Ordered, IsBuilder, FinalizeFiles
<1>2. IsFiniteSet(files)
  <2> DEFINE f == [o \in b.owners |-> File(o[1])]
  <2>1. files = ToSet(f)
    BY DEF ToSet, Paths
  <2>2. IsFiniteSet(DOMAIN f) /\ f \in [DOMAIN f -> ToSet(f)]
    BY DEF ToSet
  <2> HIDE DEF f
  <2>3. QED
    BY <2>1, <2>2, ToSetIsFinite
<1>3. /\ \A n \in files : n[1] = "file"
      /\ files = {File(o[1]) : o \in b.owners}
      /\ \A o \in b.owners : File(o[1]) \in files
  BY DEF File, Paths
<1>4. \A m \in mine : m[1] \in files
  BY <1>3
<1>5. \A e \in L : e.from \in files /\ e.kind = "in_domain" /\ e.to \in b.nodes
  BY <1>3 DEF Line, Whole
<1>6. \A n \in files : Homes(L, n) # {}
  <2>1. ASSUME NEW n \in files PROVE Homes(L, n) # {}
    <3>1. PICK o \in b.owners : n = File(o[1])
      BY <1>3
    <3> DEFINE e == Line(File(o[1]), "in_domain", o[2])
    <3>2. e \in L
      OBVIOUS
    <3>3. e.from = n /\ e.kind = "in_domain"
      BY <3>1 DEF Line
    <3> HIDE DEF e, L
    <3>4. QED
      BY <3>2, <3>3 DEF Homes
  <2>2. QED
    BY <2>1
<1> HIDE DEF c, files, mine, L
<1>7. files \cap b.nodes = {}
  BY <1>3 DEF NoFiles
<1>8. Ordered(c)
  BY <1>1, <1>2, <1>7, AppendAllIsInjective DEF Whole, Ordered
<1>9. \A e \in c.lines : e.from \in c.nodes /\ e.to \in c.nodes \cup {File(o[1]) : o \in c.owners}
  BY <1>1, <1>5 DEF Whole
<1>10. \A id \in c.nodes : HasHome(c.lines, id)
  <2>1. ASSUME NEW id \in c.nodes PROVE HasHome(c.lines, id)
    <3>1. Homes(c.lines, id) = Homes(b.lines, id) \cup Homes(L, id)
      BY <1>1, HomesOfUnion
    <3>2. CASE id \in files
      <4>1. Homes(c.lines, id) # {} /\ id[1] = "file"
        BY <1>3, <1>6, <3>1, <3>2
      <4>2. QED
        BY <4>1 DEF HasHome
    <3>3. CASE id \notin files
      <4>1. HasHome(b.lines, id)
        BY <1>1, <3>3 DEF Whole
      <4>2. Homes(L, id) = {}
        BY <1>5, <3>3 DEF Homes
      <4>3. QED
        BY <3>1, <4>1, <4>2 DEF HasHome
    <3>4. QED
      BY <3>2, <3>3
  <2>2. QED
    BY <2>1
<1>11. /\ \A m \in c.member : m[1] \in c.nodes
       /\ \A o \in c.owners : o[2] \in c.nodes
       /\ \A id \in c.nodes : id[1] = "tool_hub" => id[2] \in c.nodes
  BY <1>1, <1>3, <1>4 DEF Whole
<1>12. Whole(c)
  BY <1>8, <1>9, <1>10, <1>11 DEF Whole
<1>13. FilesAreThere(c)
  BY <1>1, <1>3 DEF FilesAreThere
<1>14. QED
  BY <1>12, <1>13 DEF c

LEMMA IngestGrows ==
  ASSUME NEW b, Whole(b), Sane(b), NEW label \in Labels \ {"tool_events"}, NEW r \in Rows[label]
  PROVE  Grows(b, Ingest(b, label, r))
<1>0. DOMAIN LinkKind = {"discussion_files", "command_files", "wiki_links", "wiki_citations",
                         "wiki_memory", "about_entity", "associations", "supersede"}
  BY DEF LinkKind
<1>1. Labels = {"skills", "hooks", "agents", "commands", "discussions", "tool_events", "entities",
                "wiki_pages", "wiki_links", "wiki_citations", "discussion_files",
                "command_files", "skill_usage", "mcp_usage", "discussion_tools",
                "discussion_agents", "discussion_commands"}
  BY DEF Labels, Sources, ToSet
<1>2. CASE label = "skills"
  BY <1>0, <1>2, IngestSkillGrows DEF Ingest
<1>3. CASE label = "hooks"
  BY <1>0, <1>3, IngestHookGrows DEF Ingest
<1>4. CASE label = "agents"
  BY <1>0, <1>4, IngestAgentGrows DEF Ingest
<1>5. CASE label = "commands"
  <2>1. Grows(b, AddCommand(b, <<"command", r.command>>, AssignDomain(r.dom)))
    BY AssignDomainKind, AddCommandGrows
  <2>2. QED
    BY <1>0, <1>5, <2>1 DEF Ingest, IngestCommand
<1>6. CASE label \in {"discussions", "entities", "wiki_pages"}
  <2>1. Ingest(b, label, r) = IF label = "discussions" THEN IngestOwned(b, Session(r), r.dom)
                              ELSE IF label = "entities" THEN IngestOwned(b, <<"entity", r.entity>>, r.dom)
                              ELSE IngestOwned(b, <<"wiki", r.page>>, r.dom)
    BY <1>0, <1>6 DEF Ingest
  <2>2. QED
    BY <1>6, <2>1, IngestOwnedGrows DEF Session
<1>7. CASE label = "skill_usage"
  BY <1>0, <1>7, IngestUsageGrows DEF Ingest
<1>8. CASE label = "mcp_usage"
  BY <1>0, <1>8, IngestUsageGrows DEF Ingest
<1>9. CASE label = "discussion_tools"
  BY <1>0, <1>9, IngestDiscussionToolGrows DEF Ingest
<1>10. CASE label = "discussion_agents"
  BY <1>0, <1>10, IngestDiscussionAgentGrows DEF Ingest
<1>11. CASE label = "discussion_commands"
  BY <1>0, <1>11, IngestDiscussionCommandGrows DEF Ingest
<1>12. CASE label \in {"wiki_links", "wiki_citations", "discussion_files", "command_files"}
  <2>1. Ingest(b, label, r) = IngestLink(b, label, r)
    BY <1>0, <1>12 DEF Ingest
  <2>2. QED
    BY <1>0, <1>12, <2>1, IngestLinkGrows
<1>13. QED
  BY <1>1, <1>2, <1>3, <1>4, <1>5, <1>6, <1>7, <1>8, <1>9, <1>10, <1>11, <1>12

LEMMA NewWhole == Whole(New) /\ NoFiles(New)
<1>1. Global[1] = "domain"
  BY DEF Global, Domain
<1>2. Whole(Empty) /\ NoFiles(Empty)
  BY DEF Whole, Ordered, IsBuilder, IsInjective, NoFiles, Empty
<1>3. QED
  BY <1>1, <1>2, EnsureDomainGrows, GrowsKeeps DEF New, Grows

-----------------------------------------------------------------------------
(* The baseline, with its memories.  Without a cap, the builder less what  *)
(* the chunk has added, and the edges it began the memories with, are      *)
(* sound at every moment of the chunk.                                     *)

Behind(s, n) == {s[i] : i \in (n + 1)..Len(s)}

HomeInv ==
  /\ Ordered(builder)
  /\ at \in {"skeleton", "structure"} => Whole(builder) /\ NoFiles(builder)
  /\ at = "relations" => Whole(builder) /\ FilesAreThere(builder)
  /\ at \in {"memories", "between"} /\ capped => Whole(builder) /\ FilesAreThere(builder)
  /\ at \in {"memories", "between"} /\ ~capped =>
       /\ struct.n <= Len(builder.order) /\ struct.lines \subseteq builder.lines
       /\ Sound(builder.nodes \ Added, struct.lines)
       /\ chunk = {} => Added = {} /\ builder.lines = struct.lines
  /\ at = "between" => chunk = {}

LEMMA AppendIsBehind ==
  ASSUME NEW S, NEW s \in Seq(S), NEW n \in Nat, n <= Len(s), NEW x
  PROVE  n <= Len(Append(s, x)) /\ Behind(Append(s, x), n) = Behind(s, n) \cup {x}
<1> DEFINE t == Append(s, x)
<1>1. /\ Len(t) = Len(s) + 1 /\ t[Len(s) + 1] = x /\ \A i \in 1..Len(s) : t[i] = s[i]
  OBVIOUS
<1>2. Len(s) \in Nat
  OBVIOUS
<1> HIDE DEF t
<1>3. (n + 1)..Len(t) = ((n + 1)..Len(s)) \cup {Len(s) + 1}
  BY <1>1, <1>2
<1>4. \A i \in (n + 1)..Len(s) : t[i] = s[i]
  BY <1>1, <1>2
<1>5. Behind(t, n) = Behind(s, n) \cup {x}
  BY <1>1, <1>3, <1>4 DEF Behind
<1>6. QED
  BY <1>1, <1>2, <1>5 DEF t

LEMMA EnsureDomainBehind ==
  ASSUME NEW b, Ordered(b), NEW n \in Nat, n <= Len(b.order), NEW dom
  PROVE  LET c == EnsureDomain(b, dom)
         IN  /\ Ordered(c) /\ c.nodes = b.nodes \cup {dom} /\ c.lines = b.lines
             /\ n <= Len(c.order) /\ Behind(c.order, n) = Behind(b.order, n) \cup ({dom} \ b.nodes)
<1> DEFINE c == EnsureDomain(b, dom)
<1>1. CASE dom \in b.nodes
  BY <1>1 DEF EnsureDomain
<1>2. CASE dom \notin b.nodes
  <2>1. c = AddNode(b, dom, dom)
    BY <1>2 DEF EnsureDomain
  <2>2. Ordered(c) /\ c.nodes = b.nodes \cup {dom} /\ c.lines = b.lines
        /\ c.order = Append(b.order, dom)
    BY <1>2, <2>1, AddNodeOrdered, AddNodeFields DEF Ordered
  <2> HIDE DEF c
  <2>3. n <= Len(c.order) /\ Behind(c.order, n) = Behind(b.order, n) \cup {dom}
    BY <2>2, AppendIsBehind DEF Ordered
  <2>4. QED
    BY <1>2, <2>2, <2>3 DEF c
<1>3. QED
  BY <1>1, <1>2

LEMMA AddChildBehind ==
  ASSUME NEW b, Ordered(b), NEW n \in Nat, n <= Len(b.order), NEW id, NEW dom
  PROVE  LET c == AddChild(b, id, dom)
         IN  /\ Ordered(c) /\ c.nodes = b.nodes \cup {id} /\ b.lines \subseteq c.lines
             /\ n <= Len(c.order) /\ Behind(c.order, n) = Behind(b.order, n) \cup ({id} \ b.nodes)
<1> DEFINE c == AddChild(b, id, dom)
<1>1. CASE id \in b.nodes
  BY <1>1 DEF AddChild
<1>2. CASE id \notin b.nodes
  <2> DEFINE a == AddNode(b, id, dom)
  <2>1. c = AddLine(a, Line(id, "in_domain", dom))
    BY <1>2 DEF AddChild
  <2>2. Ordered(a) /\ a.nodes = b.nodes \cup {id} /\ a.lines = b.lines
        /\ a.order = Append(b.order, id)
    BY <1>2, AddNodeOrdered, AddNodeFields DEF Ordered
  <2> HIDE DEF a
  <2>3. IsBuilder(c) /\ c.nodes = a.nodes /\ c.order = a.order /\ a.lines \subseteq c.lines
    BY <2>1, <2>2, AddLineFields DEF Ordered
  <2> HIDE DEF c
  <2>4. n <= Len(c.order) /\ Behind(c.order, n) = Behind(b.order, n) \cup {id}
    BY <2>2, <2>3, AppendIsBehind DEF Ordered
  <2>5. QED
    BY <1>2, <2>2, <2>3, <2>4 DEF c, Ordered
<1>3. QED
  BY <1>1, <1>2

\* A memory leaves what is before position n of the order as it is.
LEMMA IngestOwnedBehind ==
  ASSUME NEW b, Ordered(b), NEW n \in Nat, n <= Len(b.order), NEW id, NEW name
  PROVE  /\ Ordered(IngestOwned(b, id, name)) /\ b.lines \subseteq IngestOwned(b, id, name).lines
         /\ n <= Len(IngestOwned(b, id, name).order)
         /\ IngestOwned(b, id, name).nodes \ Behind(IngestOwned(b, id, name).order, n)
              = b.nodes \ Behind(b.order, n)
<1> DEFINE dom == AssignDomain(name)
           own == EnsureDomain(b, dom)
           c == AddChild(own, id, dom)
<1>1. IngestOwned(b, id, name) = c
  BY DEF IngestOwned
<1>2. /\ Ordered(own) /\ own.nodes = b.nodes \cup {dom} /\ own.lines = b.lines
      /\ n <= Len(own.order) /\ Behind(own.order, n) = Behind(b.order, n) \cup ({dom} \ b.nodes)
  BY EnsureDomainBehind
<1> HIDE DEF own, dom
<1>3. /\ Ordered(c) /\ c.nodes = own.nodes \cup {id} /\ own.lines \subseteq c.lines
      /\ n <= Len(c.order) /\ Behind(c.order, n) = Behind(own.order, n) \cup ({id} \ own.nodes)
  BY <1>2, AddChildBehind
<1> HIDE DEF c
<1>4. c.nodes \ Behind(c.order, n) = b.nodes \ Behind(b.order, n)
  BY <1>2, <1>3
<1>5. QED
  BY <1>1, <1>2, <1>3, <1>4

LEMMA CutIsOrdered ==
  ASSUME NEW S, NEW s \in Seq(S), IsInjective(s), NEW n \in Nat, n <= Len(s)
  PROVE  /\ Cut(s, n) \in Seq(S \ Behind(s, n)) /\ IsInjective(Cut(s, n))
         /\ n <= Len(Cut(s, n)) /\ Behind(Cut(s, n), n) = {}
<1> DEFINE t == Cut(s, n)
<1>0. Len(s) \in Nat /\ DOMAIN s = 1..Len(s) /\ \A i \in 1..Len(s) : s[i] \in S
  OBVIOUS
<1>1. t \in Seq(S) /\ Len(t) = n /\ \A i \in 1..n : t[i] = s[i]
  <2>1. CASE n < Len(s)
    BY <2>1 DEF Cut
  <2>2. CASE n = Len(s)
    BY <2>2 DEF Cut
  <2> DEFINE l == Len(s)
  <2>3. l \in Nat /\ n <= l
    BY <1>0
  <2> HIDE DEF t, l
  <2>4. n < l \/ n = l
    BY <2>3
  <2>5. QED
    BY <2>1, <2>2, <2>4 DEF l
<1> HIDE DEF t
<1>2. DOMAIN t = 1..n
  BY <1>1
<1>3. \A i \in 1..n : s[i] \notin Behind(s, n)
  BY <1>0 DEF Behind, IsInjective
<1>4. IsInjective(t)
  BY <1>0, <1>1, <1>2 DEF IsInjective
<1>5. \A i \in 1..n : t[i] \in S \ Behind(s, n)
  BY <1>0, <1>1, <1>3
<1>6. t \in Seq(S \ Behind(s, n))
  BY <1>1, <1>5
<1>7. Behind(t, n) = {}
  BY <1>1 DEF Behind
<1>8. QED
  BY <1>1, <1>4, <1>6, <1>7 DEF t

LEMMA HomeInit == Init => HomeInv
<1> SUFFICES ASSUME Init PROVE HomeInv
  OBVIOUS
<1>1. builder = New /\ at = "skeleton"
  BY DEF Init
<1>2. QED
  BY <1>1, NewWhole DEF HomeInv, Whole

LEMMA HomeRead ==
  ASSUME AssemblyInv, HomeInv, at \in DOMAIN Sources, NEW i \in DOMAIN Sources[at],
         NEW r \in Rows[Sources[at][i]], Read(i, r)
  PROVE  HomeInv'
<1> DEFINE label == Sources[at][i]
<1>1. /\ at \in {"skeleton", "structure", "relations"} /\ at' = at
      /\ builder' = Ingest(builder, label, r)
  BY DEF Read, Sources
<1>2. label \in Labels /\ (at \in {"skeleton", "relations"} => label # "tool_events")
  <2>1. label \in Labels
    BY <1>1 DEF Labels, ToSet
  <2>2. CASE at = "skeleton"
    BY <2>1, <2>2 DEF Sources
  <2>3. CASE at = "relations"
    BY <2>1, <2>3 DEF Sources
  <2>4. QED
    BY <2>1, <2>2, <2>3
<1>3. Sane(builder) /\ Whole(builder)
  BY <1>1 DEF AssemblyInv, EarlyInv, HomeInv
<1>4. r \in Rows[label]
  OBVIOUS
<1> HIDE DEF label
<1>5. CASE label = "tool_events"
  <2>1. builder' = IngestToolEvent(builder, r)
    BY <1>1, <1>5 DEF Ingest, LinkKind
  <2>2. at = "structure" /\ NoFiles(builder)
    BY <1>1, <1>2, <1>5 DEF HomeInv
  <2>3. Whole(builder') /\ NoFiles(builder')
    BY <1>3, <2>1, <2>2, IngestToolEventWhole
  <2>4. QED
    BY <1>1, <2>2, <2>3 DEF HomeInv, Whole
<1>6. CASE label # "tool_events"
  <2>1. Grows(builder, builder')
    BY <1>1, <1>2, <1>3, <1>4, <1>6, IngestGrows
  <2>2. Whole(builder') /\ (NoFiles(builder) => NoFiles(builder'))
        /\ (FilesAreThere(builder) => FilesAreThere(builder'))
    BY <2>1, GrowsKeeps DEF Grows
  <2>3. QED
    BY <1>1, <2>2 DEF HomeInv, Whole
<1>7. QED
  BY <1>5, <1>6

LEMMA HomeMemoriesBegin ==
  ASSUME HomeInv, MemoriesBegin
  PROVE  HomeInv'
<1>1. /\ at = "relations" /\ at' = "memories" /\ capped' = capped
      /\ struct' = [n |-> Len(builder.order), lines |-> builder.lines]
      /\ UNCHANGED <<builder, chunk>>
  BY DEF MemoriesBegin, Go, StructureLength
<1>2. Whole(builder) /\ FilesAreThere(builder) /\ Len(builder.order) \in Nat
  BY <1>1 DEF HomeInv, Whole, Ordered
<1>3. struct'.n = Len(builder.order) /\ struct'.lines = builder.lines
  BY <1>1
<1>4. Added' = {}
  BY <1>1, <1>2, <1>3 DEF Added
<1>5. Sound(builder.nodes, builder.lines)
  BY <1>2, WholeIsSound
<1>6. Sound(builder'.nodes \ Added', struct'.lines)
  <2>1. builder'.nodes \ Added' = builder.nodes
    BY <1>1, <1>4
  <2>2. QED
    BY <1>3, <1>5, <2>1
<1>7. /\ struct'.n <= Len(builder'.order) /\ struct'.lines = builder'.lines
      /\ builder' = builder /\ Ordered(builder)
  BY <1>1, <1>2, <1>3 DEF Whole
<1>8. QED
  BY <1>1, <1>2, <1>4, <1>6, <1>7 DEF HomeInv

LEMMA HomeReadMemory ==
  ASSUME AssemblyInv, HomeInv, NEW r \in Rows["memories"], ReadMemory(r)
  PROVE  HomeInv'
<1> DEFINE id == Memory(r.id)
<1>1. /\ at = "memories" /\ at' = at /\ builder' = IngestOwned(builder, id, r.dom)
      /\ chunk' # {} /\ UNCHANGED <<capped, struct>>
  BY DEF ReadMemory
<1>2. id[1] = "memory" /\ struct.n \in Nat
  BY <1>1 DEF Memory, AssemblyInv, MidInv, Order
<1> HIDE DEF id
<1>3. CASE capped
  <2>1. Whole(builder) /\ FilesAreThere(builder)
    BY <1>1, <1>3 DEF HomeInv
  <2>2. Grows(builder, builder')
    BY <1>1, <1>2, <2>1, IngestOwnedGrows
  <2>3. Whole(builder') /\ FilesAreThere(builder')
    BY <2>1, <2>2, GrowsKeeps DEF Grows
  <2>4. QED
    BY <1>1, <1>3, <2>3 DEF HomeInv, Whole
<1>4. CASE ~capped
  <2>1. /\ Ordered(builder) /\ struct.n <= Len(builder.order) /\ struct.lines \subseteq builder.lines
        /\ Sound(builder.nodes \ Added, struct.lines)
    BY <1>1, <1>4 DEF HomeInv
  <2>2. Added = Behind(builder.order, struct.n) /\ Added' = Behind(builder'.order, struct.n)
    BY <1>1 DEF Added, Behind
  <2>3. /\ Ordered(builder') /\ builder.lines \subseteq builder'.lines
        /\ struct.n <= Len(builder'.order)
        /\ builder'.nodes \ Behind(builder'.order, struct.n)
             = builder.nodes \ Behind(builder.order, struct.n)
    BY <1>1, <1>2, <2>1, IngestOwnedBehind
  <2>4. builder'.nodes \ Added' = builder.nodes \ Added
    BY <2>2, <2>3
  <2>5. Sound(builder'.nodes \ Added', struct'.lines)
    BY <1>1, <2>1, <2>4
  <2>6. struct'.lines \subseteq builder'.lines /\ struct'.n <= Len(builder'.order)
    BY <1>1, <2>1, <2>3
  <2>7. QED
    BY <1>1, <1>4, <2>3, <2>5, <2>6 DEF HomeInv
<1>5. QED
  BY <1>3, <1>4

\* A step that at most adds edges to the builder, while the chunk has memories
\* or the builder is all there is.
LEMMA HomeMoreLines ==
  ASSUME HomeInv, at \in {"memories", "between"}, at' = at, UNCHANGED <<capped, struct, chunk>>,
         ~capped, builder' = builder \/ chunk # {},
         IsBuilder(builder'), builder'.nodes = builder.nodes, builder'.order = builder.order,
         builder.lines \subseteq builder'.lines
  PROVE  HomeInv'
<1>1. Ordered(builder')
  BY DEF HomeInv, Ordered
<1>2. Added' = Added
  BY DEF Added
<1>3. /\ struct.n <= Len(builder.order) /\ struct.lines \subseteq builder.lines
      /\ Sound(builder.nodes \ Added, struct.lines)
      /\ (chunk = {} => Added = {} /\ builder.lines = struct.lines)
      /\ (at = "between" => chunk = {})
  BY DEF HomeInv
<1>4. Sound(builder'.nodes \ Added', struct'.lines)
  BY <1>2, <1>3
<1>5. chunk' = {} => Added' = {} /\ builder'.lines = struct'.lines
  BY <1>2, <1>3
<1>6. QED
  BY <1>1, <1>3, <1>4, <1>5 DEF HomeInv

\* A link, of a builder that is whole.
LEMMA HomeLink ==
  ASSUME HomeInv, at \in {"memories", "between"}, at' = at, UNCHANGED <<capped, struct, chunk>>,
         capped, NEW label \in DOMAIN LinkKind, NEW r, builder' = IngestLink(builder, label, r)
  PROVE  HomeInv'
<1>1. Whole(builder) /\ FilesAreThere(builder)
  BY DEF HomeInv
<1>2. Grows(builder, builder')
  BY <1>1, IngestLinkGrows
<1>3. Whole(builder') /\ FilesAreThere(builder')
  BY <1>1, <1>2, GrowsKeeps DEF Grows
<1>4. QED
  BY <1>3 DEF HomeInv, Whole

LEMMA HomeReadAbout ==
  ASSUME HomeInv, NEW r \in Rows["about_entity"], ReadAbout(r)
  PROVE  HomeInv'
<1>1. /\ at = "memories" /\ at' = at /\ r.from \in {Memory(pg) : pg \in chunk}
      /\ builder' = IngestLink(builder, "about_entity", r)
      /\ UNCHANGED <<capped, struct, chunk>>
  BY DEF ReadAbout
<1>2. "about_entity" \in DOMAIN LinkKind /\ chunk # {}
  BY <1>1 DEF LinkKind
<1>3. CASE capped
  BY <1>1, <1>2, <1>3, HomeLink
<1>4. CASE ~capped
  <2>1. IsBuilder(builder)
    BY DEF HomeInv, Ordered
  <2> DEFINE c == IngestLink(builder, "about_entity", r)
  <2>2. IsBuilder(c) /\ c.nodes = builder.nodes /\ c.order = builder.order
        /\ builder.lines \subseteq c.lines
    BY <2>1, IngestLinkFields
  <2> HIDE DEF c
  <2>3. builder' = c
    BY <1>1 DEF c
  <2>4. QED
    BY <1>1, <1>2, <1>4, <2>2, <2>3, HomeMoreLines
<1>5. QED
  BY <1>3, <1>4

LEMMA HomeReadBetween ==
  ASSUME HomeInv, NEW i \in DOMAIN Between, NEW r \in Rows[Between[i]], ReadBetween(i, r)
  PROVE  HomeInv'
<1> DEFINE label == Between[i]
<1>1. /\ at = "between" /\ at' = at /\ UNCHANGED <<capped, struct, chunk>>
      /\ (capped => builder' = IngestLink(builder, label, r))
      /\ (~capped => builder' = builder)
  BY DEF ReadBetween
<1>2. label \in DOMAIN LinkKind
  BY DEF LinkKind, Between
<1> HIDE DEF label
<1>3. CASE capped
  BY <1>1, <1>2, <1>3, HomeLink
<1>4. CASE ~capped
  BY <1>1, <1>4, HomeMoreLines DEF HomeInv, Ordered
<1>5. QED
  BY <1>3, <1>4

LEMMA HomeChunkEnds ==
  ASSUME AssemblyInv, HomeInv, ChunkEnds
  PROVE  HomeInv'
<1>1. /\ at = "memories" /\ at' = at /\ chunk' = {} /\ UNCHANGED <<capped, struct>>
      /\ (capped => builder' = builder) /\ (~capped => Discard)
  BY DEF ChunkEnds, reading
<1>2. CASE capped
  BY <1>1, <1>2 DEF HomeInv
<1>3. CASE ~capped
  <2>1. /\ Ordered(builder) /\ struct.n <= Len(builder.order) /\ struct.lines \subseteq builder.lines
        /\ Sound(builder.nodes \ Added, struct.lines) /\ struct.n \in Nat
    BY <1>1, <1>3 DEF HomeInv, AssemblyInv, MidInv, Order
  <2>2. /\ IsBuilder(builder') /\ builder'.nodes = builder.nodes \ Added
        /\ builder'.order = Cut(builder.order, struct.n)
        /\ builder'.lines = builder.lines \cap struct.lines
    BY <1>1, <1>3, <2>1 DEF Discard, Ordered, IsBuilder
  <2>3. Added = Behind(builder.order, struct.n) /\ Added' = Behind(builder'.order, struct.n)
    BY <1>1 DEF Added, Behind
  <2>4. /\ Cut(builder.order, struct.n) \in Seq(builder.nodes \ Behind(builder.order, struct.n))
        /\ IsInjective(Cut(builder.order, struct.n))
        /\ struct.n <= Len(Cut(builder.order, struct.n))
        /\ Behind(Cut(builder.order, struct.n), struct.n) = {}
    BY <2>1, CutIsOrdered DEF Ordered
  <2>5. Ordered(builder') /\ Added' = {} /\ struct'.n <= Len(builder'.order)
    BY <1>1, <2>2, <2>3, <2>4 DEF Ordered
  <2>6. builder'.lines = struct'.lines
    BY <1>1, <2>1, <2>2
  <2>7. Sound(builder'.nodes \ Added', struct'.lines)
    <3>1. builder'.nodes \ Added' = builder.nodes \ Added
      BY <2>2, <2>5
    <3>2. QED
      BY <1>1, <2>1, <3>1
  <2>8. QED
    BY <1>1, <1>3, <2>5, <2>6, <2>7 DEF HomeInv
<1>4. QED
  BY <1>2, <1>3

\* A step that leaves the builder, or begins it anew behind the skeleton.
LEMMA HomeKept ==
  ASSUME HomeInv, UNCHANGED <<capped, builder, struct, chunk>>,
         \/ at' = at \/ at' \in {"sweep", "sources", "done"}
         \/ at = "memories" /\ at' = "between" /\ chunk = {}
  PROVE  HomeInv'
<1>1. Added' = Added
  BY DEF Added
<1>2. QED
  BY <1>1 DEF HomeInv

LEMMA HomeNext == AssemblyInv /\ HomeInv /\ [Next]_vars => HomeInv'
<1> SUFFICES ASSUME AssemblyInv, HomeInv, [Next]_vars PROVE HomeInv'
  OBVIOUS
<1>1. CASE at \in DOMAIN Sources
             /\ \E i \in DOMAIN Sources[at] : \E r \in Rows[Sources[at][i]] : Read(i, r)
  BY <1>1, HomeRead
<1>2. CASE \E r \in Rows["memories"] : ReadMemory(r)
  BY <1>2, HomeReadMemory
<1>3. CASE ReadPage \/ \E id \in MemoryIds, h \in 0..MaxHeat : HeatChanges(id, h)
  BY <1>3, HomeKept DEF ReadPage, HeatChanges, reading, baseline
<1>4. CASE \E r \in Rows["about_entity"] : ReadAbout(r)
  BY <1>4, HomeReadAbout
<1>5. CASE \E i \in DOMAIN Between : \E r \in Rows[Between[i]] : ReadBetween(i, r)
  BY <1>5, HomeReadBetween
<1>6. CASE SkeletonEnds
  BY <1>6, NewWhole DEF SkeletonEnds, Go, HomeInv, Whole
<1>7. CASE FilesAreMade
  <2>1. at = "structure" /\ at' = "relations" /\ builder' = FinalizeFiles(builder)
    BY <1>7 DEF FilesAreMade, Go
  <2>2. Whole(builder) /\ NoFiles(builder) /\ IsFiniteSet(builder.owners)
    BY <2>1 DEF HomeInv, AssemblyInv, EarlyInv, Sane
  <2>3. Whole(builder') /\ FilesAreThere(builder')
    BY <2>1, <2>2, FinalizeFilesWhole
  <2>4. QED
    BY <2>1, <2>3 DEF HomeInv, Whole
<1>8. CASE MemoriesBegin
  BY <1>8, HomeMemoriesBegin
<1>9. CASE ChunkEnds
  BY <1>9, HomeChunkEnds
<1>10. CASE MemoriesEnd
  BY <1>10, HomeKept DEF MemoriesEnd, Go, baseline
<1>11. CASE BaselineEnds
  BY <1>11, HomeKept DEF BaselineEnds, Go, baseline
<1>12. CASE Sweep
  <2>1. CASE \E p \in Projects :
               \/ \E S \in SUBSET Symbols[p], R \in SUBSET References[p] : LoadProject(p, S, R)
               \/ SkipProject(p)
    BY <2>1, HomeKept DEF LoadProject, SkipProject, reading, baseline
  <2>2. CASE \E B \in Batches : MergeBatch(B)
    BY <2>2, HomeKept DEF MergeBatch, reading, baseline
  <2>3. CASE MergeLines
    BY <2>3, HomeKept DEF MergeLines, reading, baseline
  <2>4. CASE MergeCross
    BY <2>4, HomeKept DEF MergeCross, Go, baseline
  <2>5. QED
    BY <1>12, <2>1, <2>2, <2>3, <2>4 DEF Sweep
<1>13. CASE ResolveSources
  BY <1>13, HomeKept DEF ResolveSources, Go, baseline
<1>14. CASE UNCHANGED vars
  BY <1>14, HomeKept DEF vars, reading, baseline
<1>15. QED
  BY <1>1, <1>2, <1>3, <1>4, <1>5, <1>6, <1>7, <1>8, <1>9, <1>10, <1>11, <1>12, <1>13, <1>14
     DEF Next, Baseline

\* The baseline passes validate_graph, whatever rows its sources have and
\* however its memories fall into chunks: taking them out of the builder by a
\* position in an order that not every node is in leaves each edge both of its
\* ends, and each node its domain.
THEOREM BaselinePassesValidation == Spec => []BaselineIsValid
<1>1. HomeInv => BaselineIsValid
  <2> SUFFICES ASSUME HomeInv, at = "between" PROVE Valid(builder)
    BY DEF BaselineIsValid
  <2>1. CASE capped
    BY <2>1, WholeIsSound, SoundIsValid DEF HomeInv
  <2>2. CASE ~capped
    <3>1. /\ Sound(builder.nodes \ Added, struct.lines)
          /\ Added = {} /\ builder.lines = struct.lines
      BY <2>2 DEF HomeInv
    <3>2. builder.nodes \ Added = builder.nodes
      BY <3>1
    <3>3. QED
      BY <3>1, <3>2, SoundIsValid
  <2>3. QED
    BY <2>1, <2>2
<1>2. QED
  BY <1>1, InitInv, NextInv, HomeInit, HomeNext, PTL DEF Spec

-----------------------------------------------------------------------------
(* One node for a file.  A path with a root names the file of that path,   *)
(* in the map of files as in the edges of symbols; the baseline has no     *)
(* symbols of its own, and the edges AP knows are none into files.         *)

NamedFiles == \A k \in DOMAIN fileId : k[1] # "" => fileId[k] = File(k)

InItsFile(e) ==
  e.kind = "defined_in" /\ e.from[1] = "symbol" /\ e.from[2][1] # "" => e.to = File(e.from[2])

KnownAreDefined ==
  \A p \in Projects : \A id \in known[p] :
    /\ id[1] = "symbol" /\ id[2] = <<Root[p], id[2][2]>>
    /\ Root[p] # "" => Line(id, "defined_in", File(id[2])) \in cache.lines \cup todo.lines

BaselineStages == {"skeleton", "structure", "relations", "memories", "between"}

OneNodeInv ==
  /\ at \in BaselineStages => NoSymbols(twin)
  /\ at # "sweep" => Idle
  /\ NamedFiles
  /\ \A e \in cross.lines : e.kind # "defined_in"
  /\ \A e \in cache.lines \cup todo.lines : InItsFile(e)
  /\ KnownAreDefined
  /\ PagesReachTheirSource

\* A step of the baseline that merges nothing.
LEMMA OneNodeBaseline ==
  ASSUME OneNodeInv, at \in BaselineStages, at' \in BaselineStages, UNCHANGED <<cache, sweep>>,
         NoSymbols(twin')
  PROVE  OneNodeInv'
<1>1. Idle'
  BY DEF OneNodeInv, BaselineStages, Idle, sweep
<1>2. NamedFiles' /\ KnownAreDefined' /\ \A e \in cross'.lines : e.kind # "defined_in"
  BY DEF OneNodeInv, NamedFiles, KnownAreDefined, sweep
<1>3. \A e \in cache'.lines \cup todo'.lines : InItsFile(e)
  BY DEF OneNodeInv, sweep
<1>4. PagesReachTheirSource'
  BY DEF PagesReachTheirSource, BaselineStages
<1>5. QED
  BY <1>1, <1>2, <1>3, <1>4 DEF OneNodeInv

\* A merge of edges, none of which is of a symbol and into another file.
LEMMA OneNodeMerge ==
  ASSUME OneNodeInv, NEW L, cache'.lines = cache.lines \cup L, \A e \in L : InItsFile(e),
         UNCHANGED <<known, todo, cross>>, NamedFiles',
         at' \in BaselineStages => NoSymbols(twin'), at' # "sweep" => Idle, at' # "done"
  PROVE  OneNodeInv'
<1>1. KnownAreDefined' /\ \A e \in cross'.lines : e.kind # "defined_in"
  BY DEF OneNodeInv, KnownAreDefined
<1>2. \A e \in cache'.lines \cup todo'.lines : InItsFile(e)
  BY DEF OneNodeInv
<1>3. PagesReachTheirSource'
  BY DEF PagesReachTheirSource
<1>4. Idle' <=> Idle
  BY DEF Idle
<1>5. QED
  BY <1>1, <1>2, <1>3, <1>4 DEF OneNodeInv

LEMMA NewHasNoSymbols == NoSymbols(New)
<1>1. Global[1] = "domain"
  BY DEF Global, Domain
<1>2. Whole(Empty) /\ NoSymbols(Empty)
  BY DEF Whole, Ordered, IsBuilder, IsInjective, NoSymbols, Empty
<1>3. QED
  BY <1>1, <1>2, EnsureDomainGrows, GrowsKeeps DEF New

LEMMA OneNodeInit == Init => OneNodeInv
<1> SUFFICES ASSUME Init PROVE OneNodeInv
  OBVIOUS
<1>1. twin = New /\ at = "skeleton"
  BY DEF Init
<1>2. Idle /\ cross.lines = {} /\ cache.lines = {} /\ todo.lines = {} /\ fileId = <<>>
  BY DEF Init, Idle, Nothing
<1>3. KnownAreDefined
  BY DEF Init, KnownAreDefined
<1>4. QED
  BY <1>1, <1>2, <1>3, NewHasNoSymbols DEF OneNodeInv, NamedFiles, PagesReachTheirSource

LEMMA OneNodeRead ==
  ASSUME AssemblyInv, HomeInv, OneNodeInv, at \in DOMAIN Sources, NEW i \in DOMAIN Sources[at],
         NEW r \in Rows[Sources[at][i]], Read(i, r)
  PROVE  OneNodeInv'
<1> DEFINE label == Sources[at][i]
<1>1. /\ at \in {"skeleton", "structure", "relations"} /\ at' = at
      /\ builder' = Ingest(builder, label, r) /\ twin' = builder'
      /\ UNCHANGED <<cache, sweep>>
  BY DEF Read, Sources
<1>2. label \in Labels
  BY <1>1 DEF Labels, ToSet
<1>3. Sane(builder) /\ Whole(builder) /\ NoSymbols(builder)
  BY <1>1 DEF AssemblyInv, EarlyInv, HomeInv, OneNodeInv, BaselineStages
<1>4. r \in Rows[label]
  OBVIOUS
<1>5. at = "relations" => label # "tool_events"
  BY DEF Sources
<1> HIDE DEF label
<1>6. NoSymbols(builder')
  <2>1. CASE label = "tool_events"
    <3>1. builder' = IngestToolEvent(builder, r)
      BY <1>1, <2>1 DEF Ingest, LinkKind
    <3>2. at # "relations"
      BY <1>5, <2>1
    <3>3. NoFiles(builder)
      BY <1>1, <3>2 DEF HomeInv
    <3>4. QED
      BY <1>3, <3>1, <3>3, IngestToolEventWhole
  <2>2. CASE label # "tool_events"
    BY <1>1, <1>2, <1>3, <1>4, <2>2, IngestGrows, GrowsKeeps
  <2>3. QED
    BY <2>1, <2>2
<1>7. QED
  BY <1>1, <1>6, OneNodeBaseline DEF BaselineStages

LEMMA OneNodeReadMemory ==
  ASSUME AssemblyInv, OneNodeInv, NEW r \in Rows["memories"], ReadMemory(r)
  PROVE  OneNodeInv'
<1> DEFINE id == Memory(r.id)
           dom == AssignDomain(r.dom)
<1>1. /\ at = "memories" /\ at' = at /\ twin' = IngestOwned(twin, id, r.dom)
      /\ UNCHANGED <<cache, sweep>>
  BY DEF ReadMemory
<1>2. IsBuilder(twin) /\ NoSymbols(twin)
  BY <1>1 DEF AssemblyInv, MidInv, Together, OneNodeInv, BaselineStages
<1>3. WithMemory(twin, twin', id, dom)
  BY <1>1, <1>2, IngestMemoryFields
<1>4. id[1] = "memory" /\ dom[1] = "domain"
  BY AssignDomainKind DEF Memory
<1>5. NoSymbols(twin')
  BY <1>2, <1>3, <1>4 DEF WithMemory, NoSymbols
<1>6. QED
  BY <1>1, <1>5, OneNodeBaseline DEF BaselineStages

\* A step while there are memories that adds no node.
LEMMA OneNodeNoNodes ==
  ASSUME OneNodeInv, at \in {"memories", "between"}, at' \in {"memories", "between"},
         twin'.nodes = twin.nodes, UNCHANGED <<cache, sweep>>
  PROVE  OneNodeInv'
<1>1. NoSymbols(twin')
  BY DEF OneNodeInv, NoSymbols, BaselineStages
<1>2. QED
  BY <1>1, OneNodeBaseline DEF BaselineStages

LEMMA OneNodeLinks ==
  ASSUME AssemblyInv, OneNodeInv,
         \/ \E r \in Rows["about_entity"] : ReadAbout(r)
         \/ \E i \in DOMAIN Between : \E r \in Rows[Between[i]] : ReadBetween(i, r)
  PROVE  OneNodeInv'
<1>1. PICK label, r :
        /\ at \in {"memories", "between"} /\ at' = at /\ twin' = IngestLink(twin, label, r)
        /\ UNCHANGED <<cache, sweep>>
  BY DEF ReadAbout, ReadBetween
<1>2. IsBuilder(twin)
  BY <1>1 DEF AssemblyInv, MidInv, Together
<1>3. twin'.nodes = twin.nodes
  BY <1>1, <1>2, IngestLinkFields
<1>4. QED
  BY <1>1, <1>3, OneNodeNoNodes

\* What the baseline merges is of no symbols.
LEMMA NoSymbolsInFiles ==
  ASSUME NEW b, NoSymbols(b), NEW L, \A e \in L : Ends(e) \subseteq b.nodes
  PROVE  \A e \in L : InItsFile(e)
BY DEF NoSymbols, InItsFile, Ends

LEMMA OneNodeSkeletonEnds ==
  ASSUME AssemblyInv, OneNodeInv, SkeletonEnds
  PROVE  OneNodeInv'
<1>1. /\ at = "skeleton" /\ at' = "structure" /\ twin' = New /\ UNCHANGED sweep
      /\ IF Valid(builder) THEN Merge(builder) ELSE UNCHANGED cache
  BY DEF SkeletonEnds, Go
<1>2. NoSymbols(twin') /\ NoSymbols(builder)
  BY <1>1, NewHasNoSymbols DEF AssemblyInv, EarlyInv, OneNodeInv, BaselineStages
<1>3. CASE Valid(builder)
  <2>1. cache'.lines = cache.lines \cup builder.lines
    BY <1>1, <1>3 DEF Merge
  <2>2. \A e \in builder.lines : InItsFile(e)
    BY <1>2, <1>3, NoSymbolsInFiles DEF Valid, EndsResolve
  <2>3. NamedFiles' /\ UNCHANGED <<known, todo, cross>> /\ Idle
    BY <1>1 DEF OneNodeInv, NamedFiles, sweep
  <2>4. QED
    BY <1>1, <1>2, <2>1, <2>2, <2>3, OneNodeMerge
<1>4. CASE ~Valid(builder)
  BY <1>1, <1>2, <1>4, OneNodeBaseline DEF BaselineStages
<1>5. QED
  BY <1>3, <1>4

LEMMA OneNodeFilesAreMade ==
  ASSUME AssemblyInv, OneNodeInv, FilesAreMade
  PROVE  OneNodeInv'
<1>1. /\ at = "structure" /\ at' = "relations" /\ twin' = FinalizeFiles(builder)
      /\ UNCHANGED <<cache, sweep>>
  BY DEF FilesAreMade, Go
<1>2. IsBuilder(builder) /\ NoSymbols(builder)
  BY <1>1 DEF AssemblyInv, EarlyInv, Sane, OneNodeInv, BaselineStages
<1>3. twin'.nodes = builder.nodes \cup {File(p) : p \in Paths(builder)}
  BY <1>1, <1>2 DEF FinalizeFiles, IsBuilder
<1>4. NoSymbols(twin')
  BY <1>2, <1>3 DEF NoSymbols, File
<1>5. QED
  BY <1>1, <1>4, OneNodeBaseline DEF BaselineStages

\* A step of the baseline that leaves the builder that keeps every memory.
LEMMA OneNodeKept ==
  ASSUME OneNodeInv, at \in BaselineStages, at' \in BaselineStages, UNCHANGED <<twin, cache, sweep>>
  PROVE  OneNodeInv'
BY OneNodeBaseline DEF OneNodeInv

\* The map of files of the baseline: a part of a path has no root.
LEMMA FileIdsAreNamed ==
  ASSUME NEW b, NEW ids \in FileIds(b), NEW k \in DOMAIN ids, k[1] # ""
  PROVE  ids[k] = File(k)
<1> DEFINE paths == {p \in Paths(b) : File(p) \in b.nodes}
           tails == {Below(p) : p \in paths} \ paths
<1>1. DOMAIN ids = paths \cup tails /\ \A p \in paths : ids[p] = File(p)
  BY DEF FileIds
<1>2. \A t \in tails : t[1] = ""
  <2>1. \A p \in paths : Below(p)[1] = ""
    BY DEF Below
  <2> HIDE DEF paths
  <2>2. QED
    BY <2>1
<1> HIDE DEF paths, tails
<1>3. QED
  BY <1>1, <1>2

LEMMA OneNodeBaselineEnds ==
  ASSUME AssemblyInv, OneNodeInv, BaselineEnds
  PROVE  OneNodeInv'
<1> DEFINE part == [nodes  |-> builder.nodes \cup kept.nodes,
                    member |-> builder.member \cup kept.member,
                    lines  |-> builder.lines \cup kept.lines]
<1>1. /\ at = "between" /\ at' \in {"sweep", "sources"} /\ Valid(builder) /\ Merge(part)
      /\ fileId' \in FileIds(builder) /\ UNCHANGED <<done, known, todo, cross>>
  BY DEF BaselineEnds, Go
<1>2. Together /\ KeptHaveEnds /\ NoSymbols(twin) /\ Idle
  BY <1>1 DEF AssemblyInv, MidInv, OneNodeInv, BaselineStages
<1>3. \A e \in part.lines : Ends(e) \subseteq twin.nodes
  BY <1>1, <1>2 DEF Valid, EndsResolve, Together, KeptHaveEnds
<1>4. cache'.lines = cache.lines \cup part.lines
  BY <1>1 DEF Merge
<1>5. NamedFiles'
  BY <1>1, FileIdsAreNamed DEF NamedFiles
<1> HIDE DEF part
<1>6. \A e \in part.lines : InItsFile(e)
  BY <1>2, <1>3, NoSymbolsInFiles
<1>7. QED
  BY <1>1, <1>2, <1>4, <1>5, <1>6, OneNodeMerge DEF BaselineStages

LEMMA WithFilesAreNamed ==
  ASSUME NamedFiles, NEW F, NEW k \in DOMAIN WithFiles(F), k[1] # ""
  PROVE  WithFiles(F)[k] = File(k)
<1> DEFINE new == NewFiles(F)
           other == File(CHOOSE f \in new : Below(f) = k)
<1>1. /\ k \in DOMAIN fileId \cup new \cup {Below(f) : f \in new}
      /\ WithFiles(F)[k] = IF k \in new THEN File(k)
                           ELSE IF k \in DOMAIN fileId THEN fileId[k] ELSE other
  BY DEF WithFiles
<1>2. \A f \in new : Below(f)[1] = ""
  BY DEF Below
<1> HIDE DEF new, other
<1>3. k \in DOMAIN fileId \cup new
  BY <1>1, <1>2
<1>4. QED
  BY <1>1, <1>3 DEF NamedFiles

LEMMA OneNodeLoadProject ==
  ASSUME AssemblyInv, OneNodeInv, NEW p \in Projects, NEW S, NEW R \in SUBSET References[p],
         LoadProject(p, S, R)
  PROVE  OneNodeInv'
<1> DEFINE files == {PathOf(p, s.file) : s \in S}
           fresh == {File(f) : f \in NewFiles(files)}
           ids == {SymbolId(p, s) : s \in S}
           hub == {Home[p]} \ cache.nodes
           found == {e \in R : HasStart(p, e)}
           intra == {e \in found : Intra(p, e)}
           filed == {Line(f, "in_domain", Home[p]) : f \in fresh}
           defined == {Line(i, "defined_in", fileId'[i[2]]) : i \in ids}
           joined == {Reference(p, e) : e \in intra}
           more == {Reference(p, e) : e \in found \ intra}
<1>1. /\ at = "sweep" /\ at' = "sweep" /\ Idle /\ fileId' = WithFiles(files)
      /\ known' = [known EXCEPT ![p] = ids] /\ cache' = cache
      /\ todo' = [nodes  |-> hub \cup fresh \cup ids,
                  member |-> {<<n, Home[p]>> : n \in hub \cup fresh \cup ids},
                  lines  |-> filed \cup defined \cup joined]
      /\ cross' = [cross EXCEPT !.lines = @ \cup more]
  BY DEF LoadProject
<1>2. /\ todo.lines = {} /\ todo'.lines = filed \cup defined \cup joined
      /\ DOMAIN known = Projects /\ cross'.lines = cross.lines \cup more
  BY <1>1 DEF Idle, AssemblyInv, SweepInv
<1>3. \A e \in R : Reference(p, e).kind # "defined_in"
  <2>1. \A e \in R : e.kind \in AstKinds
    BY ProjectsAreTyped
  <2>2. \A e \in R : Reference(p, e).kind = e.kind
    BY DEF Reference, Line
  <2>3. QED
    BY <2>1, <2>2 DEF AstKinds
<1>4. NamedFiles'
  BY <1>1, WithFilesAreNamed DEF OneNodeInv, NamedFiles
<1>5. \A i \in ids : /\ i[1] = "symbol" /\ i[2] \in files /\ i[2] = <<Root[p], i[2][2]>>
                     /\ i[2][1] = Root[p]
  BY DEF SymbolId, Symbol, PathOf
<1>6. \A i \in ids : Root[p] # "" => fileId'[i[2]] = File(i[2])
  <2>1. files \subseteq DOMAIN fileId'
    BY <1>1, WithFilesDomain
  <2> HIDE DEF ids, files
  <2>2. QED
    BY <1>4, <1>5, <2>1 DEF NamedFiles
<1>7. \A e \in todo'.lines : InItsFile(e)
  <2>1. \A e \in filed : e.kind # "defined_in"
    BY DEF Line
  <2>2. \A e \in joined : e.kind # "defined_in"
    BY <1>3
  <2>3. ASSUME NEW i \in ids PROVE InItsFile(Line(i, "defined_in", fileId'[i[2]]))
    <3> DEFINE e == Line(i, "defined_in", fileId'[i[2]])
    <3>1. e.from = i /\ e.to = fileId'[i[2]]
      BY DEF Line
    <3> HIDE DEF e, ids
    <3>2. InItsFile(e)
      BY <1>5, <1>6, <3>1 DEF InItsFile
    <3>3. QED
      BY <3>2 DEF e
  <2>4. \A e \in defined : InItsFile(e)
    BY <2>3
  <2> HIDE DEF filed, defined, joined
  <2>5. QED
    BY <1>2, <2>1, <2>2, <2>4 DEF InItsFile
<1>8. KnownAreDefined'
  <2>1. ASSUME NEW q \in Projects, NEW id \in known'[q]
        PROVE  /\ id[1] = "symbol" /\ id[2] = <<Root[q], id[2][2]>>
               /\ Root[q] # "" => Line(id, "defined_in", File(id[2])) \in cache'.lines \cup todo'.lines
    <3>1. CASE q = p
      <4>1. id \in ids
        BY <1>1, <1>2, <2>1, <3>1
      <4>2. Line(id, "defined_in", fileId'[id[2]]) \in defined
        BY <4>1
      <4> HIDE DEF ids, defined, filed, joined
      <4>3. QED
        BY <1>2, <1>5, <1>6, <3>1, <4>1, <4>2
    <3>2. CASE q # p
      <4>1. id \in known[q]
        BY <1>1, <1>2, <2>1, <3>2
      <4>2. QED
        BY <1>1, <1>2, <4>1 DEF OneNodeInv, KnownAreDefined
    <3>3. QED
      BY <3>1, <3>2
  <2> HIDE DEF ids
  <2>2. QED
    BY <2>1 DEF KnownAreDefined
<1>9. \A e \in cross'.lines : e.kind # "defined_in"
  BY <1>2, <1>3 DEF OneNodeInv
<1>10. \A e \in cache'.lines : InItsFile(e)
  BY <1>1 DEF OneNodeInv
<1>11. PagesReachTheirSource'
  BY <1>1 DEF PagesReachTheirSource
<1>12. QED
  BY <1>1, <1>4, <1>7, <1>8, <1>9, <1>10, <1>11 DEF OneNodeInv, BaselineStages

\* The next batch of nodes, or the edges behind them.
LEMMA OneNodeMergeTodo ==
  ASSUME AssemblyInv, OneNodeInv, (\E B \in Batches : MergeBatch(B)) \/ MergeLines
  PROVE  OneNodeInv'
<1>1. DOMAIN todo = {"nodes", "member", "lines"}
  BY DEF AssemblyInv, SweepInv
<1>2. /\ at = "sweep" /\ at' = "sweep" /\ UNCHANGED <<fileId, known, cross>>
      /\ cache'.lines \cup todo'.lines = cache.lines \cup todo.lines
  <2>1. CASE \E B \in Batches : MergeBatch(B)
    BY <1>1, <2>1 DEF MergeBatch, Merge, reading
  <2>2. CASE MergeLines
    BY <1>1, <2>2 DEF MergeLines, Merge, reading
  <2>3. QED
    BY <2>1, <2>2
<1>3. NamedFiles' /\ KnownAreDefined'
  BY <1>2 DEF OneNodeInv, NamedFiles, KnownAreDefined
<1>4. PagesReachTheirSource'
  BY <1>2 DEF PagesReachTheirSource
<1>5. \A e \in cache'.lines \cup todo'.lines : InItsFile(e)
  BY <1>2 DEF OneNodeInv
<1>6. QED
  BY <1>2, <1>3, <1>4, <1>5 DEF OneNodeInv, BaselineStages

LEMMA OneNodeSkipProject ==
  ASSUME OneNodeInv, NEW p \in Projects, SkipProject(p)
  PROVE  OneNodeInv'
<1>1. /\ at = "sweep" /\ at' = "sweep" /\ UNCHANGED <<cache, fileId, known, todo, cross>>
  BY DEF SkipProject, reading
<1>2. PagesReachTheirSource'
  BY <1>1 DEF PagesReachTheirSource
<1>3. NamedFiles' /\ KnownAreDefined' /\ \A e \in cache'.lines \cup todo'.lines : InItsFile(e)
  BY <1>1 DEF OneNodeInv, NamedFiles, KnownAreDefined
<1>4. QED
  BY <1>1, <1>2, <1>3 DEF OneNodeInv, BaselineStages

LEMMA OneNodeMergeCross ==
  ASSUME AssemblyInv, OneNodeInv, MergeCross
  PROVE  OneNodeInv'
<1>1. /\ Idle /\ at' = "sources" /\ UNCHANGED <<fileId, known, todo>>
      /\ cross' = [cross EXCEPT !.merged = TRUE]
      /\ cache'.lines = cache.lines \cup cross.lines
  BY DEF MergeCross, Merge, Go
<1>2. cross'.lines = cross.lines
  BY <1>1 DEF AssemblyInv, SweepInv
<1>3. Idle' /\ NamedFiles' /\ KnownAreDefined'
  BY <1>1 DEF OneNodeInv, NamedFiles, KnownAreDefined, Idle
<1>4. PagesReachTheirSource'
  BY <1>1 DEF PagesReachTheirSource
<1>5. \A e \in cross.lines : InItsFile(e)
  BY DEF OneNodeInv, InItsFile
<1>6. \A e \in cache'.lines \cup todo'.lines : InItsFile(e)
  BY <1>1, <1>5 DEF OneNodeInv
<1>7. QED
  BY <1>1, <1>2, <1>3, <1>4, <1>6 DEF OneNodeInv, BaselineStages

LEMMA SymbolsHaveOneFile ==
  ASSUME AssemblyInv, OneNodeInv
  PROVE  SymbolsAreInTheirFile
<1> SUFFICES ASSUME Idle, NEW p \in {q \in Projects : Root[q] # ""}, NEW id \in known[p]
             PROVE  /\ File(<<Root[p], id[2][2]>>) \in cache.nodes
                    /\ {e.to : e \in {f \in cache.lines : f.from = id /\ f.kind = "defined_in"}}
                         = {File(<<Root[p], id[2][2]>>)}
  BY DEF SymbolsAreInTheirFile
<1> DEFINE file == File(<<Root[p], id[2][2]>>)
           line == Line(id, "defined_in", file)
<1>1. /\ id[1] = "symbol" /\ id[2] = <<Root[p], id[2][2]>> /\ Root[p] # ""
      /\ Line(id, "defined_in", File(id[2])) \in cache.lines \cup todo.lines
  BY DEF OneNodeInv, KnownAreDefined
<1>2. id[2][1] = Root[p]
  <2> DEFINE rest == id[2][2]
             path == <<Root[p], rest>>
  <2>1. id[2] = path
    BY <1>1
  <2>2. path[1] = Root[p]
    OBVIOUS
  <2> HIDE DEF path
  <2>3. QED
    BY <2>1, <2>2
<1>3. File(id[2]) = file /\ todo.lines = {}
  BY <1>1 DEF Idle
<1>4. line.from = id /\ line.kind = "defined_in" /\ line.to = file
  BY DEF Line
<1> HIDE DEF file
<1>5. line \in cache.lines
  BY <1>1, <1>3
<1> HIDE DEF line
<1>6. line \notin cross.lines
  BY <1>4 DEF OneNodeInv
<1>7. file \in cache.nodes
  BY <1>4, <1>5, <1>6 DEF AssemblyInv, SweepInv, LinesHaveEnds, Ends
<1>8. \A e \in cache.lines : e.from = id /\ e.kind = "defined_in" => e.to = file
  BY <1>1, <1>2, <1>3 DEF OneNodeInv, InItsFile
<1>9. {e.to : e \in {f \in cache.lines : f.from = id /\ f.kind = "defined_in"}} = {file}
  BY <1>4, <1>5, <1>8
<1>10. QED
  BY <1>7, <1>9 DEF file

LEMMA OneNodeResolveSources ==
  ASSUME AssemblyInv, OneNodeInv, ResolveSources
  PROVE  OneNodeInv'
<1> DEFINE there == {r \in SourceRows : /\ r.page \in cache.nodes /\ PageRoot(r.page) # ""
                                    /\ SourceFile(r.page, r.file) \in cache.nodes}
           L == {Line(r.page, "wiki_source", SourceFile(r.page, r.file)) : r \in there}
<1>1. /\ at = "sources" /\ at' = "done" /\ UNCHANGED sweep
      /\ cache'.lines = cache.lines \cup L /\ cache'.nodes = cache.nodes
      /\ cache'.member = cache.member
  BY DEF ResolveSources, Go, Merge
<1>2. Idle /\ SymbolsAreInTheirFile
  BY <1>1, SymbolsHaveOneFile DEF OneNodeInv
<1>3. NamedFiles' /\ KnownAreDefined' /\ Idle' /\ \A e \in cross'.lines : e.kind # "defined_in"
  BY <1>1, <1>2 DEF OneNodeInv, NamedFiles, KnownAreDefined, Idle, sweep
<1>4. \A e \in cache'.lines \cup todo'.lines : InItsFile(e)
  <2>1. \A e \in L : e.kind = "wiki_source"
    <3>1. \A x, y : Line(x, "wiki_source", y).kind = "wiki_source"
      BY DEF Line
    <3> HIDE DEF there
    <3>2. QED
      BY <3>1
  <2> HIDE DEF L
  <2>2. QED
    BY <1>1, <2>1 DEF OneNodeInv, InItsFile, sweep
<1>5. PagesReachTheirSource'
  <2>1. ASSUME NEW r \in SourceRows, NEW p \in Projects, r.page \in cache.nodes,
               Root[p] = PageRoot(r.page), Root[p] # "", \E id \in known[p] : id[2][2] = r.file
        PROVE  Line(r.page, "wiki_source", File(<<Root[p], r.file>>)) \in L
    <3>1. SourceFile(r.page, r.file) = File(<<Root[p], r.file>>)
      BY <2>1 DEF SourceFile
    <3>2. File(<<Root[p], r.file>>) \in cache.nodes
      BY <1>1, <1>2, <2>1 DEF SymbolsAreInTheirFile
    <3>3. r \in there
      BY <2>1, <3>1, <3>2
    <3>4. QED
      BY <3>1, <3>3
  <2>2. \A w : PageRoot(w)' = PageRoot(w)
    BY <1>1 DEF PageRoot
  <2>3. known' = known
    BY <1>1 DEF sweep
  <2> HIDE DEF L
  <2>4. QED
    BY <1>1, <2>1, <2>2, <2>3 DEF PagesReachTheirSource
<1>6. QED
  BY <1>1, <1>3, <1>4, <1>5 DEF OneNodeInv, BaselineStages

LEMMA OneNodeNext == AssemblyInv /\ HomeInv /\ OneNodeInv /\ [Next]_vars => OneNodeInv'
<1> SUFFICES ASSUME AssemblyInv, HomeInv, OneNodeInv, [Next]_vars PROVE OneNodeInv'
  OBVIOUS
<1>1. CASE at \in DOMAIN Sources
             /\ \E i \in DOMAIN Sources[at] : \E r \in Rows[Sources[at][i]] : Read(i, r)
  BY <1>1, OneNodeRead
<1>2. CASE \E r \in Rows["memories"] : ReadMemory(r)
  BY <1>2, OneNodeReadMemory
<1>3. CASE ReadPage \/ \E id \in MemoryIds, h \in 0..MaxHeat : HeatChanges(id, h)
  BY <1>3, OneNodeKept DEF ReadPage, HeatChanges, reading, baseline, BaselineStages
<1>4. CASE \/ \E r \in Rows["about_entity"] : ReadAbout(r)
           \/ \E i \in DOMAIN Between : \E r \in Rows[Between[i]] : ReadBetween(i, r)
  BY <1>4, OneNodeLinks
<1>5. CASE MemoriesBegin \/ MemoriesEnd
  BY <1>5, OneNodeKept DEF MemoriesBegin, MemoriesEnd, Go, baseline, BaselineStages
<1>6. CASE ChunkEnds
  BY <1>6, OneNodeKept DEF ChunkEnds, reading, BaselineStages
<1>7. CASE Sweep
  BY <1>7, OneNodeLoadProject, OneNodeSkipProject, OneNodeMergeTodo, OneNodeMergeCross DEF Sweep
<1>8. CASE UNCHANGED vars
  <2>1. UNCHANGED <<at, twin, cache, fileId, known, todo, cross>>
    BY <1>8 DEF vars, reading, baseline, sweep
  <2>2. NamedFiles' /\ KnownAreDefined' /\ PagesReachTheirSource' /\ (Idle' <=> Idle)
    BY <2>1 DEF OneNodeInv, NamedFiles, KnownAreDefined, PagesReachTheirSource, PageRoot, Idle
  <2>3. \A e \in cache'.lines \cup todo'.lines : InItsFile(e)
    BY <2>1 DEF OneNodeInv
  <2>4. QED
    BY <2>1, <2>2, <2>3 DEF OneNodeInv
<1>9. QED
  BY <1>1, <1>2, <1>3, <1>4, <1>5, <1>6, <1>7, <1>8, OneNodeSkeletonEnds, OneNodeFilesAreMade,
     OneNodeBaselineEnds, OneNodeResolveSources DEF Next, Baseline

\* Tools, AP and the wiki mean one node by one file: a symbol of a project whose
\* root is known is in the file of that root and in no other, whatever other
\* projects share its paths, and a page reaches the file of its domain's root.
THEOREM FilesAreNamedAlike == Spec => []FilesAreOneNode
<1>1. AssemblyInv /\ OneNodeInv => FilesAreOneNode
  BY SymbolsHaveOneFile DEF FilesAreOneNode, OneNodeInv
<1>2. QED
  BY <1>1, InitInv, NextInv, HomeInit, HomeNext, OneNodeInit, OneNodeNext, PTL DEF Spec

-----------------------------------------------------------------------------
(* Types.  The order of the nodes is that of HomeInv, the pages' bounds    *)
(* those of PagesInv.                                                      *)

Counters == taken \in 0..MaxRows /\ pos \in 1..11 /\ struct.n \in Nat

ChunkTypes == chunk \subseteq seen /\ Cardinality(chunk \cup page) <= ChunkSize

ScanTypes ==
  /\ heat \in [MemoryIds -> 0..MaxHeat] /\ last \in (1..(MaxHeat + 1)) \X ({0} \cup MemoryIds)
  /\ page \cup risen \subseteq MemoryIds /\ yielded \in Nat /\ over \in BOOLEAN

SweepTypes ==
  /\ \A k \in DOMAIN fileId : fileId[k][1] = "file"
  /\ done \subseteq Projects
  /\ {p \in Projects : known[p] # {}} \subseteq done

Types ==
  /\ at \in BaselineStages \cup {"sweep", "sources", "done"} /\ capped \in BOOLEAN
  /\ Counters /\ ChunkTypes /\ ScanTypes /\ SweepTypes

LEMMA TypesInit == Init => Types
<1> SUFFICES ASSUME Init PROVE Types
  OBVIOUS
<1>1. Counters
  BY AssemblyBounds DEF Init, Counters
<1>2. ChunkTypes
  BY AssemblyBounds, FS_EmptySet DEF Init, ChunkTypes
<1>3. ScanTypes
  <2>1. heat \in [MemoryIds -> 0..MaxHeat]
    BY AssemblyBounds DEF Init, NoMemories
  <2>2. MaxHeat + 1 \in 1..(MaxHeat + 1)
    BY AssemblyBounds
  <2>3. last \in (1..(MaxHeat + 1)) \X ({0} \cup MemoryIds)
    BY <2>2 DEF Init
  <2>4. page = {} /\ risen = {} /\ yielded = 0 /\ over = FALSE
    BY DEF Init
  <2>5. page \cup risen \subseteq MemoryIds /\ yielded \in Nat /\ over \in BOOLEAN
    BY <2>4
  <2>6. QED
    BY <2>1, <2>3, <2>5 DEF ScanTypes
<1>4. SweepTypes
  BY DEF Init, SweepTypes
<1>5. QED
  BY <1>1, <1>2, <1>3, <1>4 DEF Init, Types, BaselineStages

LEMMA CountOfOne ==
  ASSUME Counters, Count(1)
  PROVE  taken' \in 0..MaxRows
BY AssemblyBounds DEF Counters, Count

\* What each step may change: the counters, the chunk, the scan or the sweep.
LEMMA CountersNext ==
  ASSUME Types, AssemblyInv, Next
  PROVE  Counters' /\ at' \in BaselineStages \cup {"sweep", "sources", "done"}
         /\ capped' \in BOOLEAN
<1> USE DEF Types, BaselineStages
<1>1. CASE at \in DOMAIN Sources
             /\ \E i \in DOMAIN Sources[at] : \E r \in Rows[Sources[at][i]] : Read(i, r)
  <2>1. PICK i \in DOMAIN Sources[at] : \E r \in Rows[Sources[at][i]] : Read(i, r)
    BY <1>1
  <2>2. i \in 1..11
    BY <1>1, <2>1 DEF Sources
  <2>3. Count(1) /\ pos' = i /\ at' = at /\ capped' = capped /\ struct' = struct
    BY <2>1 DEF Read
  <2>4. QED
    BY <2>2, <2>3, CountOfOne DEF Counters
<1>2. CASE \/ \E r \in Rows["memories"] : ReadMemory(r)
           \/ \E id \in MemoryIds, h \in 0..MaxHeat : HeatChanges(id, h)
           \/ \E r \in Rows["about_entity"] : ReadAbout(r)
  BY <1>2, CountOfOne DEF Counters, ReadMemory, HeatChanges, ReadAbout, baseline
<1>3. CASE \E i \in DOMAIN Between : \E r \in Rows[Between[i]] : ReadBetween(i, r)
  <2>1. PICK i \in DOMAIN Between : \E r \in Rows[Between[i]] : ReadBetween(i, r)
    BY <1>3
  <2>2. i \in 1..11
    BY <2>1 DEF Between
  <2>3. Count(1) /\ pos' = i /\ at' = at /\ capped' = capped /\ struct' = struct
    BY <2>1 DEF ReadBetween
  <2>4. QED
    BY <2>2, <2>3, CountOfOne DEF Counters
<1>4. CASE MemoriesBegin
  <2>1. at = "relations" /\ struct' = [n |-> Len(builder.order), lines |-> builder.lines]
    BY <1>4 DEF MemoriesBegin, StructureLength
  <2>2. Len(builder.order) \in Nat
    BY <2>1 DEF AssemblyInv, EarlyInv, Sane
  <2>3. QED
    BY <1>4, <2>1, <2>2 DEF MemoriesBegin, Go, Counters
<1>5. CASE SkeletonEnds \/ FilesAreMade \/ MemoriesEnd \/ BaselineEnds
  BY <1>5 DEF SkeletonEnds, FilesAreMade, MemoriesEnd, BaselineEnds, Go, Counters, baseline
<1>6. CASE ReadPage \/ ChunkEnds
  BY <1>6 DEF ReadPage, ChunkEnds, reading, baseline, Counters
<1>7. CASE \E p \in Projects :
             \E S \in SUBSET Symbols[p], R \in SUBSET References[p] : LoadProject(p, S, R)
  <2>0. PICK p \in Projects :
          \E S \in SUBSET Symbols[p], R \in SUBSET References[p] : LoadProject(p, S, R)
    BY <1>7
  <2>1. PICK S \in SUBSET Symbols[p], R \in SUBSET References[p] : LoadProject(p, S, R)
    BY <2>0
  <2>2. IsFiniteSet(S) /\ IsFiniteSet(R)
    BY ProjectsAreTyped, FS_Subset
  <2>3. Cardinality(S) \in Nat /\ Cardinality(R) \in Nat
    BY <2>2, FS_CardinalityType
  <2>4. /\ Count(Cardinality(S) + Cardinality(R))
        /\ UNCHANGED <<at, pos, capped, struct>>
    BY <2>1 DEF LoadProject, baseline
  <2>5. taken' \in 0..MaxRows
    BY <2>3, <2>4, AssemblyBounds DEF Count, Counters
  <2>6. QED
    BY <2>4, <2>5 DEF Counters
<1>8. CASE \/ \E p \in Projects : SkipProject(p)
           \/ \E B \in Batches : MergeBatch(B)
           \/ MergeLines
  BY <1>8 DEF SkipProject, MergeBatch, MergeLines, reading, baseline, Counters
<1>9. CASE MergeCross \/ ResolveSources
  <2>1. at' \in {"sources", "done"} /\ pos' = 1 /\ UNCHANGED <<taken, capped, struct>>
    BY <1>9 DEF MergeCross, ResolveSources, Go, baseline
  <2>2. QED
    BY <2>1 DEF Counters
<1>10. QED
  BY <1>1, <1>2, <1>3, <1>4, <1>5, <1>6, <1>7, <1>8, <1>9 DEF Next, Baseline, Sweep

\* A page is read as a whole before the chunk begins, and one by one into it.
LEMMA ChunkNext ==
  ASSUME Types, PagesInv, Next
  PROVE  ChunkTypes'
<1>1. CASE ReadPage
  <2>1. PICK P \in SUBSET Rest :
          /\ Cardinality(P) = IF Cardinality(Rest) < Wanted THEN Cardinality(Rest) ELSE Wanted
          /\ page' = P
    BY <1>1 DEF ReadPage
  <2>2. chunk' = {} /\ seen' = seen
    BY <1>1 DEF ReadPage, baseline
  <2>3. IsFiniteSet(Rest)
    BY MemoryIdsAreNat, FS_Subset DEF Rest
  <2>4. Cardinality(Rest) \in Nat
    BY <2>3, FS_CardinalityType
  <2>5. Wanted \in Nat /\ Wanted <= ChunkSize
    BY AssemblyBounds DEF PagesInv, PageTypes, Wanted
  <2>6. Cardinality(P) <= ChunkSize
    BY <2>1, <2>4, <2>5, AssemblyBounds
  <2>7. chunk' \cup page' = P
    BY <2>1, <2>2
  <2>8. QED
    BY <2>2, <2>6, <2>7 DEF ChunkTypes
<1>2. CASE \E r \in Rows["memories"] : ReadMemory(r)
  <2>1. PICK r \in Rows["memories"] : ReadMemory(r)
    BY <1>2
  <2>2. /\ r.id \in page /\ page' = page \ {r.id}
        /\ chunk' = chunk \cup {r.id} /\ seen' = seen \cup {r.id}
    BY <2>1 DEF ReadMemory
  <2>3. chunk' \cup page' = chunk \cup page
    BY <2>2
  <2>4. QED
    BY <2>2, <2>3 DEF Types, ChunkTypes
<1>3. CASE ChunkEnds
  <2>1. chunk' \cup page' = {}
    BY <1>3 DEF ChunkEnds, scan
  <2>2. chunk' \subseteq seen' /\ Cardinality(chunk' \cup page') = 0
    BY <2>1, FS_EmptySet
  <2>3. QED
    BY <2>2, AssemblyBounds DEF ChunkTypes
<1>4. CASE UNCHANGED <<chunk, seen, page>>
  BY <1>4 DEF Types, ChunkTypes
<1>5. CASE \/ \E i \in DOMAIN Sources[at] : \E r \in Rows[Sources[at][i]] : Read(i, r)
           \/ \E id \in MemoryIds, h \in 0..MaxHeat : HeatChanges(id, h)
           \/ \E r \in Rows["about_entity"] : ReadAbout(r)
           \/ \E i \in DOMAIN Between : \E r \in Rows[Between[i]] : ReadBetween(i, r)
           \/ SkeletonEnds \/ FilesAreMade \/ MemoriesBegin \/ MemoriesEnd \/ BaselineEnds
  BY <1>4, <1>5 DEF Read, HeatChanges, ReadAbout, ReadBetween, SkeletonEnds, FilesAreMade,
     MemoriesBegin, MemoriesEnd, BaselineEnds, scan, baseline
<1>6. CASE Sweep \/ ResolveSources
  BY <1>4, <1>6 DEF Sweep, LoadProject, SkipProject, MergeBatch, MergeLines, MergeCross,
     ResolveSources, scan, baseline
<1>7. QED
  BY <1>1, <1>2, <1>3, <1>5, <1>6 DEF Next, Baseline

LEMMA ScanNext ==
  ASSUME Types, PagesInv, Next
  PROVE  ScanTypes'
<1> USE DEF Types
<1>1. CASE ReadPage
  <2>1. /\ UNCHANGED <<heat, risen>> /\ over' \in BOOLEAN /\ page' \subseteq Rest
        /\ last' = last \/ \E p \in Rest : last' = Key(p)
    BY <1>1 DEF ReadPage, PagesInv, PageTypes
  <2>2. Rest \subseteq MemoryIds /\ \A p \in Rest : heat[p] > 0
    BY DEF Rest
  <2>3. \A p \in Rest : heat[p] \in 1..(MaxHeat + 1)
    BY <2>2, AssemblyBounds DEF ScanTypes
  <2>4. last' \in (1..(MaxHeat + 1)) \X ({0} \cup MemoryIds)
    BY <2>1, <2>2, <2>3 DEF ScanTypes, Key
  <2>5. yielded' \in Nat
    BY <1>1, PagesFetch DEF PagesInv, PageTypes
  <2>6. QED
    BY <2>1, <2>2, <2>4, <2>5 DEF ScanTypes
<1>2. CASE \E r \in Rows["memories"] : ReadMemory(r)
  BY <1>2 DEF ReadMemory, ScanTypes
<1>3. CASE \E id \in MemoryIds, h \in 0..MaxHeat : HeatChanges(id, h)
  BY <1>3 DEF HeatChanges, ScanTypes
<1>4. CASE MemoriesBegin
  BY <1>4 DEF MemoriesBegin, ScanTypes
<1>5. CASE MemoriesEnd
  <2>1. MaxHeat + 1 \in 1..(MaxHeat + 1) /\ 0 \in 0..MaxHeat
    BY AssemblyBounds
  <2>2. heat' \in [MemoryIds -> 0..MaxHeat]
    BY <1>5, <2>1 DEF MemoriesEnd, NoMemories
  <2>3. last' \in (1..(MaxHeat + 1)) \X ({0} \cup MemoryIds)
    BY <1>5, <2>1 DEF MemoriesEnd
  <2>4. QED
    BY <1>5, <2>2, <2>3 DEF MemoriesEnd, ScanTypes
<1>6. CASE UNCHANGED scan
  BY <1>6 DEF scan, ScanTypes
<1>7. CASE \/ \E i \in DOMAIN Sources[at] : \E r \in Rows[Sources[at][i]] : Read(i, r)
           \/ \E r \in Rows["about_entity"] : ReadAbout(r)
           \/ \E i \in DOMAIN Between : \E r \in Rows[Between[i]] : ReadBetween(i, r)
           \/ SkeletonEnds \/ FilesAreMade \/ ChunkEnds \/ BaselineEnds
  BY <1>6, <1>7 DEF Read, ReadAbout, ReadBetween, SkeletonEnds, FilesAreMade, ChunkEnds,
     BaselineEnds
<1>8. CASE Sweep \/ ResolveSources
  BY <1>6, <1>8 DEF Sweep, LoadProject, SkipProject, MergeBatch, MergeLines, MergeCross,
     ResolveSources
<1>9. QED
  BY <1>1, <1>2, <1>3, <1>4, <1>5, <1>7, <1>8 DEF Next, Baseline

LEMMA SweepNext ==
  ASSUME Types, AssemblyInv, Next
  PROVE  SweepTypes'
<1> USE DEF Types
<1>1. CASE BaselineEnds
  <2>1. fileId' \in FileIds(builder) /\ UNCHANGED <<done, known>>
    BY <1>1 DEF BaselineEnds
  <2>2. \A k \in DOMAIN fileId' : fileId'[k][1] = "file"
    <3> DEFINE paths == {p \in Paths(builder) : File(p) \in builder.nodes}
               tails == {Below(p) : p \in paths} \ paths
               files == {File(p) : p \in paths}
    <3>1. fileId' \in [paths \cup tails -> files]
      BY <2>1 DEF FileIds
    <3>2. \A p \in paths : File(p)[1] = "file"
      BY DEF File
    <3> HIDE DEF paths, tails
    <3>3. \A f \in files : f[1] = "file"
      BY <3>2
    <3> HIDE DEF files
    <3>4. QED
      BY <3>1, <3>3
  <2>3. QED
    BY <2>1, <2>2 DEF SweepTypes
<1>2. CASE \E p \in Projects :
             \E S \in SUBSET Symbols[p], R \in SUBSET References[p] : LoadProject(p, S, R)
  <2>0. PICK p \in Projects :
          \E S \in SUBSET Symbols[p], R \in SUBSET References[p] : LoadProject(p, S, R)
    BY <1>2
  <2>1. PICK S \in SUBSET Symbols[p], R \in SUBSET References[p] : LoadProject(p, S, R)
    BY <2>0
  <2> DEFINE files == {PathOf(p, s.file) : s \in S}
             ids == {SymbolId(p, s) : s \in S}
  <2>2. fileId' = WithFiles(files) /\ known' = [known EXCEPT ![p] = ids] /\ done' = done \cup {p}
    BY <2>1 DEF LoadProject
  <2> HIDE DEF files, ids
  <2>3. \A k \in DOMAIN fileId' : fileId'[k][1] = "file"
    <3>1. \A f : File(f)[1] = "file"
      BY DEF File
    <3>2. QED
      BY <2>2, <3>1, WithFilesValues DEF SweepTypes
  <2>4. DOMAIN known = Projects
    BY DEF AssemblyInv, SweepInv
  <2>5. \A q \in Projects : q # p => known'[q] = known[q]
    BY <2>2, <2>4
  <2>6. QED
    BY <2>2, <2>3, <2>5 DEF SweepTypes
<1>3. CASE \E p \in Projects : SkipProject(p)
  BY <1>3 DEF SkipProject, SweepTypes
<1>4. CASE UNCHANGED <<fileId, done, known>>
  BY <1>4 DEF SweepTypes
<1>5. CASE \/ \E i \in DOMAIN Sources[at] : \E r \in Rows[Sources[at][i]] : Read(i, r)
           \/ \E r \in Rows["memories"] : ReadMemory(r)
           \/ \E id \in MemoryIds, h \in 0..MaxHeat : HeatChanges(id, h)
           \/ \E r \in Rows["about_entity"] : ReadAbout(r)
           \/ \E i \in DOMAIN Between : \E r \in Rows[Between[i]] : ReadBetween(i, r)
           \/ ReadPage \/ SkeletonEnds \/ FilesAreMade \/ MemoriesBegin \/ ChunkEnds \/ MemoriesEnd
  BY <1>4, <1>5 DEF Read, ReadMemory, HeatChanges, ReadAbout, ReadBetween, ReadPage, SkeletonEnds,
     FilesAreMade, MemoriesBegin, ChunkEnds, MemoriesEnd, sweep
<1>6. CASE (\E B \in Batches : MergeBatch(B)) \/ MergeLines \/ MergeCross \/ ResolveSources
  BY <1>4, <1>6 DEF MergeBatch, MergeLines, MergeCross, ResolveSources, sweep
<1>7. QED
  BY <1>1, <1>2, <1>3, <1>5, <1>6 DEF Next, Baseline, Sweep

LEMMA TypesNext == Types /\ AssemblyInv /\ PagesInv /\ [Next]_vars => Types'
<1>1. ASSUME Types, AssemblyInv, PagesInv, Next PROVE Types'
  BY <1>1, CountersNext, ChunkNext, ScanNext, SweepNext DEF Types
<1>2. ASSUME Types, UNCHANGED vars PROVE Types'
  BY <1>2 DEF vars, reading, baseline, scan, sweep, Types, Counters, ChunkTypes, ScanTypes,
     SweepTypes
<1>3. QED
  BY <1>1, <1>2

\* Every variable of the assembly has its type: the order names nodes, each of
\* them once, for all that memories are cut out of it again and again, and a
\* chunk with the rest of its page never exceeds the chunk size.
THEOREM AssemblyTypeCorrect == Spec => []TypeOK
<1>1. Types /\ HomeInv => TypeOK
  <2> SUFFICES ASSUME Types, HomeInv PROVE TypeOK
    OBVIOUS
  <2>1. builder.order \in Seq(builder.nodes) /\ IsInjective(builder.order)
    BY DEF HomeInv, Ordered
  <2>2. ToSet(builder.order) \subseteq builder.nodes
    BY <2>1 DEF ToSet
  <2>3. Len(Sources["relations"]) = 11
    BY DEF Sources
  <2>4. at \in DOMAIN Sources \cup {"memories", "between", "sweep", "sources", "done"}
    BY DEF Types, BaselineStages, Sources
  <2>5. QED
    BY <2>1, <2>2, <2>3, <2>4 DEF TypeOK, Types, Counters, ChunkTypes, ScanTypes, SweepTypes
<1>2. QED
  BY <1>1, InitInv, NextInv, HomeInit, HomeNext, PagesInit, PagesNext, TypesInit, TypesNext, PTL
     DEF Spec
=============================================================================
