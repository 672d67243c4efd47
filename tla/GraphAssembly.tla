---------------------------- MODULE GraphAssembly ----------------------------
(***************************************************************************)
(* How run_build puts the graph together in the build child: a skeleton of *)
(* skills and hooks; the baseline, which _build_interleaved reads source   *)
(* by source, its memories by chunks that are taken out of the builder     *)
(* again; the symbols of each project the AST bridge knows (run_l6); and   *)
(* the files the wiki pages are about.  Each part is merged into one cache *)
(* (make_merge), whose pieces go to the server as they are merged.         *)
(*                                                                         *)
(* A source yields any rows of Rows[label]; an exception of a source ends  *)
(* the build (BuildEpochs) and is no step here.                            *)
(***************************************************************************)
EXTENDS WorkflowGraph

CONSTANTS
  Rows,         \* [label -> the rows its source may yield]
  ChunkSize,    \* chunk_size of iter_memories_chunked
  MemoryLimit,  \* CORTEX_VIZ_MEMORY_LIMIT, where it is above 0
  MaxHeat,      \* bound on the heat of a memory
  Projects,     \* the projects of which AP has a graph
  Root,         \* [Projects -> graph_source_root, "" if it finds none]
  Home,         \* [Projects -> the domain of the project]
  Symbols,      \* [Projects -> symbols AP may know: file below the root, name]
  References,   \* [Projects -> edges between them: kind, from and to]
  BatchSize,    \* batch_size of run_l6
  SourceRows,   \* wiki.page_sources: page and file below the root
  SourceRoot,   \* [domains -> the root resolve_file_node_id takes, "" for none]
  MaxRows       \* bound: rows, symbols and references read and heats changed

ASSUME AssemblyBounds ==
  /\ ChunkSize \in Nat \ {0} /\ BatchSize \in Nat \ {0} /\ MemoryLimit \in Nat \ {0}
  /\ MaxHeat \in Nat /\ MaxRows \in Nat

\* What the rows between memories, entities and pages join, that a skill has a
\* list of domains, and that the memories are finitely many and each stays in
\* its domain.
ASSUME RowsAreTyped ==
  /\ \A r \in Rows["about_entity"] : r.from[1] = "memory" /\ r.to[1] = "entity"
  /\ \A r \in Rows["associations"] \cup Rows["supersede"] :
        r.from[1] = "memory" /\ r.to[1] = "memory"
  /\ \A r \in Rows["wiki_memory"] : r.from[1] = "wiki" /\ r.to[1] = "memory"
  /\ \A r \in Rows["skills"] : r.doms \in Seq(ToSet(r.doms))
  /\ \A r, s \in Rows["memories"] : r.id \in Nat /\ (r.id = s.id => r.dom = s.dom)
  /\ IsFiniteSet({r.id : r \in Rows["memories"]})

\* The kinds of the edges that AP is asked for.
AstKinds == {"calls", "imports", "member_of", "uses"}

\* AP knows finitely many symbols of a project, and edges of these kinds.
ASSUME ProjectsAreTyped ==
  \A p \in Projects :
    /\ IsFiniteSet(Symbols[p]) /\ IsFiniteSet(References[p])
    /\ \A e \in References[p] : e.kind \in AstKinds

VARIABLES
  at,         \* the stage
  pos,        \* the source of that stage that is being read
  taken,      \* rows read so far
  capped,     \* is CORTEX_VIZ_MEMORY_LIMIT above 0?
  builder,
  struct,     \* _struct_n and the edges below _struct_e
  chunk,      \* the memories of the chunk
  seen,       \* _retained_memory_pg_ids
  heat,       \* table memories: heat_base of each id, 0 for one it does not have
  last,       \* last_heat and last_id of iter_hot_memories_chunked
  page,       \* what is still to be ingested of the page it has yielded
  yielded,    \* how many rows it has yielded
  over,       \* whether it has returned, or does so when its page is taken
  risen,      \* history: memories inserted or heated since the first page
  kept,       \* retained_memory_nodes and retained_memory_edges
  twin,       \* history: a builder that keeps every memory
  cache,      \* _graph_cache: nodes with their domains, edges
  fileId,     \* file_id_by_path
  done,       \* projects that are over
  known,      \* proj_symbol_ids
  todo,       \* proj_nodes and proj_edges still to be merged
  cross       \* cross_edges, and whether they are merged

reading == <<at, pos, taken, capped>>
baseline == <<builder, struct, chunk, seen, kept, twin>>
scan == <<heat, last, page, yielded, over, risen>>
sweep == <<fileId, done, known, todo, cross>>
vars == <<reading, baseline, scan, cache, sweep>>

MemoryIds == {r.id : r \in Rows["memories"]}
NoMemories == [id \in MemoryIds |-> 0]

Nothing == [nodes |-> {}, member |-> {}, lines |-> {}]

Init ==
  /\ at = "skeleton" /\ pos = 1 /\ taken = 0
  /\ capped \in BOOLEAN
  /\ builder = New /\ twin = New
  /\ struct = [n |-> 0, lines |-> {}]
  /\ chunk = {} /\ seen = {}
  /\ heat = NoMemories /\ last = <<MaxHeat + 1, 0>>
  /\ page = {} /\ yielded = 0 /\ over = FALSE /\ risen = {}
  /\ kept = Nothing
  /\ cache = Nothing
  /\ fileId = <<>>
  /\ done = {}
  /\ known = [p \in Projects |-> {}]
  /\ todo = Nothing
  /\ cross = [lines |-> {}, merged |-> FALSE]

-----------------------------------------------------------------------------
(* The baseline.                                                           *)

\* The sources in the order in which each stage reads them.
Sources ==
  [skeleton  |-> <<"skills", "hooks">>,
   structure |-> <<"skills", "hooks", "agents", "commands", "discussions", "tool_events">>,
   relations |-> <<"entities", "wiki_pages", "wiki_links", "wiki_citations",
                   "discussion_files", "command_files", "skill_usage", "mcp_usage",
                   "discussion_tools", "discussion_agents", "discussion_commands">>]

Count(n) == taken + n <= MaxRows /\ taken' = taken + n

\* One row of a source; those before it have no more.
Read(i, r) ==
  /\ pos <= i
  /\ Count(1)
  /\ pos' = i
  /\ builder' = Ingest(builder, Sources[at][i], r)
  /\ twin' = builder'
  /\ UNCHANGED <<at, capped, struct, chunk, seen, kept, scan, cache, sweep>>

Go(stage) == at' = stage /\ pos' = 1 /\ UNCHANGED <<taken, capped>>

Merge(part) ==
  cache' = [nodes  |-> cache.nodes \cup part.nodes,
            member |-> cache.member \cup {m \in part.member : m[1] \notin cache.nodes},
            lines  |-> cache.lines \cup part.lines]

\* A skeleton that fails to validate is left out.
SkeletonEnds ==
  /\ at = "skeleton"
  /\ Go("structure")
  /\ IF Valid(builder) THEN Merge(builder) ELSE UNCHANGED cache
  /\ builder' = New /\ twin' = New
  /\ UNCHANGED <<struct, chunk, seen, kept, scan, sweep>>

FilesAreMade ==
  /\ at = "structure"
  /\ Go("relations")
  /\ builder' = FinalizeFiles(builder)
  /\ twin' = builder'
  /\ UNCHANGED <<struct, chunk, seen, kept, scan, cache, sweep>>

\* Seeded fault: the structure is as long as the table of nodes.
CountOfNodes(b) == Cardinality(b.nodes)

\* _struct_n
StructureLength(b) == Len(b.order)

\* The table as it is when the first page is asked for.
MemoriesBegin ==
  /\ at = "relations"
  /\ Go("memories")
  /\ struct' = [n |-> StructureLength(builder), lines |-> builder.lines]
  /\ heat' \in [MemoryIds -> 0..MaxHeat]
  /\ UNCHANGED <<builder, chunk, seen, kept, twin, last, page, yielded, over, risen,
                 cache, sweep>>

\* (heat_base, id), and the rows that come after the last one.
Key(id) == <<heat[id], id>>

Before(k, l) == k[1] > l[1] \/ (k[1] = l[1] /\ k[2] > l[2])

\* Seeded fault: the boundary is a heat, which other rows may share.
ColderRest == {id \in MemoryIds : heat[id] > 0 /\ heat[id] < last[1]}

Rest == {id \in MemoryIds : heat[id] > 0 /\ Before(last, Key(id))}

\* The size of the next page.
Wanted ==
  IF capped /\ MemoryLimit - yielded < ChunkSize THEN MemoryLimit - yielded ELSE ChunkSize

\* One query for the hottest rows of the rest.  The generator returns on an empty
\* page and, when its rows are taken, after a page that is not full.
ReadPage ==
  /\ at = "memories" /\ chunk = {} /\ page = {} /\ ~over
  /\ \E P \in SUBSET Rest :
       /\ Cardinality(P) = IF Cardinality(Rest) < Wanted THEN Cardinality(Rest) ELSE Wanted
       /\ \A p \in P, q \in Rest \ P : Before(Key(p), Key(q))
       /\ page' = P
       /\ yielded' = yielded + Cardinality(P)
       /\ over' = (P = {} \/ Cardinality(P) < Wanted)
       /\ \/ P = {} /\ UNCHANGED last
          \/ \E p \in P : /\ \A q \in P \ {p} : Before(Key(q), Key(p))
                         /\ last' = Key(p)
  /\ UNCHANGED <<reading, baseline, heat, risen, cache, sweep>>

\* The rows of a page come hottest first.
ReadMemory(r) ==
  /\ at = "memories" /\ r.id \in page
  /\ \A id \in page \ {r.id} : Before(Key(r.id), Key(id))
  /\ Count(1)
  /\ page' = page \ {r.id}
  /\ builder' = IngestOwned(builder, Memory(r.id), r.dom)
  /\ twin' = IngestOwned(twin, Memory(r.id), r.dom)
  /\ chunk' = chunk \cup {r.id}
  /\ seen' = seen \cup {r.id}
  /\ UNCHANGED <<at, pos, capped, struct, kept, heat, last, yielded, over, risen,
                 cache, sweep>>

\* Another program inserts, deletes, heats or cools a memory.  Only the next
\* query sees it, so that it may as well come when a page is done with.
HeatChanges(id, h) ==
  /\ at = "memories" /\ chunk = {} /\ page = {} /\ yielded > 0 /\ ~over
  /\ h # heat[id]
  /\ Count(1)
  /\ heat' = [heat EXCEPT ![id] = h]
  /\ risen' = IF h > heat[id] THEN risen \cup {id} ELSE risen
  /\ UNCHANGED <<at, pos, capped, baseline, last, page, yielded, over, cache, sweep>>

\* A link of a memory of this chunk to an entity.
ReadAbout(r) ==
  /\ at = "memories" /\ page = {}
  /\ r.from \in {Memory(id) : id \in chunk}
  /\ Count(1)
  /\ builder' = IngestLink(builder, "about_entity", r)
  /\ twin' = IngestLink(twin, "about_entity", r)
  /\ UNCHANGED <<at, pos, capped, struct, chunk, seen, kept, scan, cache, sweep>>

\* Without a cap, what the chunk has added leaves the builder for kept.
Added == {builder.order[i] : i \in (struct.n + 1)..Len(builder.order)}

\* del s[n:]
Cut(s, n) == IF n < Len(s) THEN SubSeq(s, 1, n) ELSE s

\* Seeded fault: _node_order is not cut back.
DiscardKeepsOrder ==
  /\ kept' = [nodes |-> kept.nodes \cup Added,
              member |-> kept.member \cup {m \in builder.member : m[1] \in Added},
              lines |-> kept.lines \cup (builder.lines \ struct.lines)]
  /\ builder' = [builder EXCEPT
                  !.nodes = @ \ Added,
                  !.member = {m \in @ : m[1] \notin Added},
                  !.lines = @ \cap struct.lines]

Discard ==
  /\ kept' = [nodes |-> kept.nodes \cup Added,
              member |-> kept.member \cup {m \in builder.member : m[1] \in Added},
              lines |-> kept.lines \cup (builder.lines \ struct.lines)]
  /\ builder' = [builder EXCEPT
                  !.nodes = @ \ Added,
                  !.order = Cut(@, struct.n),
                  !.member = {m \in @ : m[1] \notin Added},
                  !.lines = @ \cap struct.lines]

ChunkEnds ==
  /\ at = "memories" /\ page = {} /\ chunk # {}
  /\ IF capped THEN UNCHANGED <<builder, kept>> ELSE Discard
  /\ chunk' = {}
  /\ UNCHANGED <<reading, struct, seen, twin, scan, cache, sweep>>

\* The generator is gone, and what the table holds makes no difference any more.
MemoriesEnd ==
  /\ at = "memories" /\ chunk = {} /\ page = {} /\ over
  /\ Go("between")
  /\ heat' = NoMemories /\ last' = <<MaxHeat + 1, 0>>
  /\ yielded' = 0 /\ over' = FALSE /\ risen' = {}
  /\ UNCHANGED <<baseline, page, cache, sweep>>

\* The sources that join memories when all of them are there.
Between == <<"associations", "supersede", "wiki_memory">>

MemoriesSeen == {Memory(id) : id \in seen}

\* Seeded fault: pages are looked for among the memories.
MemoriesOnly(label) == MemoriesSeen

\* _assoc_target._nodes, widened by the pages for wiki_memory.
Target(label) ==
  MemoriesSeen \cup (IF label = "wiki_memory"
                     THEN {id \in builder.nodes : id[1] = "wiki"} ELSE {})

ReadBetween(i, r) ==
  /\ at = "between" /\ pos <= i
  /\ Count(1)
  /\ pos' = i
  /\ IF capped
     THEN /\ builder' = IngestLink(builder, Between[i], r)
          /\ UNCHANGED kept
     ELSE /\ kept' = IF Ends(Joins(Between[i], r)) \subseteq Target(Between[i])
                     THEN AddLine(kept, Joins(Between[i], r)) ELSE kept
          /\ UNCHANGED builder
  /\ twin' = IngestLink(twin, Between[i], r)
  /\ UNCHANGED <<at, capped, struct, chunk, seen, scan, cache, sweep>>

-----------------------------------------------------------------------------
(* From the baseline to the sweep.                                         *)

\* What file_id_by_path knows of the files of the baseline: each path, and its
\* part below the root, which stands for one of the files that have such a part.
Below(path) == <<"", path[2]>>

FileIds(b) ==
  LET paths == {p \in Paths(b) : File(p) \in b.nodes}
      tails == {Below(p) : p \in paths} \ paths
  IN  {ids \in [paths \cup tails -> {File(p) : p \in paths}] :
         /\ \A p \in paths : ids[p] = File(p)
         /\ \A t \in tails : \E p \in paths : ids[t] = File(p) /\ Below(p) = t}

\* One merge of everything, of a baseline that validates: validate_graph raises
\* otherwise, which ends the build.  The bridge may be off.
BaselineEnds ==
  /\ at = "between"
  /\ Valid(builder)
  /\ Go("sweep") \/ Go("sources")
  /\ Merge([nodes  |-> builder.nodes \cup kept.nodes,
            member |-> builder.member \cup kept.member,
            lines  |-> builder.lines \cup kept.lines])
  /\ fileId' \in FileIds(builder)
  /\ UNCHANGED <<baseline, scan, done, known, todo, cross>>

-----------------------------------------------------------------------------
(* The sweep over the projects.                                            *)

Idle == todo.nodes = {} /\ todo.lines = {}

\* Seeded fault: the paths of AP stay relative.
RelativePath(p, file) == <<"", file>>

\* _absolutize_in_place
PathOf(p, file) == <<Root[p], file>>

Symbol(path, name) == <<"symbol", path, name>>
SymbolId(p, s) == Symbol(PathOf(p, s.file), s.name)

\* The map after the files of project p, given their paths F.
NewFiles(F) == {f \in F : f \notin DOMAIN fileId}
WithFiles(F) ==
  [k \in DOMAIN fileId \cup NewFiles(F) \cup {Below(f) : f \in NewFiles(F)} |->
     IF k \in NewFiles(F) THEN File(k)
     ELSE IF k \in DOMAIN fileId THEN fileId[k]
     ELSE File(CHOOSE f \in NewFiles(F) : Below(f) = k)]

\* Where a reference starts: a file for an import, else a symbol.
Start(p, e) ==
  IF e.kind = "imports" THEN fileId'[PathOf(p, e.from.file)] ELSE SymbolId(p, e.from)
HasStart(p, e) == e.kind = "imports" => PathOf(p, e.from.file) \in DOMAIN fileId'
Reference(p, e) == Line(Start(p, e), e.kind, SymbolId(p, e.to))
Intra(p, e) ==
  /\ e.kind = "imports" \/ SymbolId(p, e.from) \in known'[p]
  /\ SymbolId(p, e.to) \in known'[p]

\* The AST of project p, from AP or from the disk cache.
LoadProject(p, S, R) ==
  LET files == {PathOf(p, s.file) : s \in S}
      fresh == {File(f) : f \in NewFiles(files)}
      ids == {SymbolId(p, s) : s \in S}
      hub == {Home[p]} \ cache.nodes
      found == {e \in R : HasStart(p, e)}
      intra == {e \in found : Intra(p, e)}
  IN  /\ at = "sweep" /\ Idle /\ p \notin done
      /\ Count(Cardinality(S) + Cardinality(R))
      /\ fileId' = WithFiles(files)
      /\ known' = [known EXCEPT ![p] = ids]
      /\ todo' = [nodes  |-> hub \cup fresh \cup ids,
                  member |-> {<<n, Home[p]>> : n \in hub \cup fresh \cup ids},
                  lines  |-> {Line(f, "in_domain", Home[p]) : f \in fresh}
                               \cup {Line(i, "defined_in", fileId'[i[2]]) : i \in ids}
                               \cup {Reference(p, e) : e \in intra}]
      /\ cross' = [cross EXCEPT !.lines = @ \cup {Reference(p, e) : e \in found \ intra}]
      /\ done' = done \cup {p}
      /\ UNCHANGED <<at, pos, capped, baseline, scan, cache>>

\* A project that fails or takes too long is passed over.
SkipProject(p) ==
  /\ at = "sweep" /\ Idle /\ p \notin done
  /\ done' = done \cup {p}
  /\ UNCHANGED <<reading, baseline, scan, cache, fileId, known, todo, cross>>

Rank(id) == CASE id[1] = "domain" -> 1 [] id[1] = "file" -> 2 [] id[1] = "symbol" -> 3

\* The next nodes of proj_nodes: its hub, its files, its symbols.
Batches ==
  {B \in SUBSET todo.nodes :
     /\ Cardinality(B) = BatchSize \/ (Cardinality(B) < BatchSize /\ B = todo.nodes)
     /\ \A x \in B, y \in todo.nodes \ B : Rank(x) <= Rank(y)}

\* Seeded fault: the edges go out with the first batch.
MergeBatchAndLines(B) ==
  /\ at = "sweep" /\ todo.nodes # {}
  /\ B \in Batches
  /\ Merge([nodes |-> B, member |-> {m \in todo.member : m[1] \in B}, lines |-> todo.lines])
  /\ todo' = [todo EXCEPT !.nodes = @ \ B, !.lines = {}]
  /\ UNCHANGED <<reading, baseline, scan, fileId, done, known, cross>>

MergeBatch(B) ==
  /\ at = "sweep" /\ todo.nodes # {}
  /\ B \in Batches
  /\ Merge([nodes |-> B, member |-> {m \in todo.member : m[1] \in B}, lines |-> {}])
  /\ todo' = [todo EXCEPT !.nodes = @ \ B]
  /\ UNCHANGED <<reading, baseline, scan, fileId, done, known, cross>>

MergeLines ==
  /\ at = "sweep" /\ todo.nodes = {} /\ todo.lines # {}
  /\ Merge([nodes |-> {}, member |-> {}, lines |-> todo.lines])
  /\ todo' = [todo EXCEPT !.lines = {}]
  /\ UNCHANGED <<reading, baseline, scan, fileId, done, known, cross>>

\* The edges between projects, by batches that nothing tells apart here and
\* without a look at their ends.
MergeCross ==
  /\ at = "sweep" /\ Idle /\ done = Projects
  /\ Go("sources")
  /\ Merge([nodes |-> {}, member |-> {}, lines |-> cross.lines])
  /\ cross' = [cross EXCEPT !.merged = TRUE]
  /\ UNCHANGED <<baseline, scan, fileId, done, known, todo>>

-----------------------------------------------------------------------------
\* resolve_wiki_source_over_cache: the page's domain must have a root, and both
\* the page and the file must be in the cache.
PageRoot(wiki) == SourceRoot[(CHOOSE m \in cache.member : m[1] = wiki)[2]]
SourceFile(wiki, file) == File(<<PageRoot(wiki), file>>)

ResolveSources ==
  LET there == {r \in SourceRows :
                  /\ r.page \in cache.nodes /\ PageRoot(r.page) # ""
                  /\ SourceFile(r.page, r.file) \in cache.nodes}
  IN  /\ at = "sources"
      /\ Go("done")
      /\ Merge([nodes |-> {}, member |-> {},
                lines |-> {Line(r.page, "wiki_source", SourceFile(r.page, r.file)) :
                             r \in there}])
      /\ UNCHANGED <<baseline, scan, sweep>>

Baseline ==
  \/ at \in DOMAIN Sources
       /\ \E i \in DOMAIN Sources[at] : \E r \in Rows[Sources[at][i]] : Read(i, r)
  \/ ReadPage
  \/ \E r \in Rows["memories"] : ReadMemory(r)
  \/ \E id \in MemoryIds, h \in 0..MaxHeat : HeatChanges(id, h)
  \/ \E r \in Rows["about_entity"] : ReadAbout(r)
  \/ \E i \in DOMAIN Between : \E r \in Rows[Between[i]] : ReadBetween(i, r)
  \/ SkeletonEnds
  \/ FilesAreMade
  \/ MemoriesBegin
  \/ ChunkEnds
  \/ MemoriesEnd
  \/ BaselineEnds

Sweep ==
  \/ \E p \in Projects :
        \/ \E S \in SUBSET Symbols[p], R \in SUBSET References[p] : LoadProject(p, S, R)
        \/ SkipProject(p)
  \/ \E B \in Batches : MergeBatch(B)
  \/ MergeLines
  \/ MergeCross

Next == Baseline \/ Sweep \/ ResolveSources

Spec == Init /\ [][Next]_vars

-----------------------------------------------------------------------------
(* Properties.                                                             *)

\* Every variable has its type: in particular _node_order names nodes of
\* _nodes, each of them once, and a chunk is within its size.
TypeOK ==
  /\ at \in DOMAIN Sources \cup {"memories", "between", "sweep", "sources", "done"}
  /\ taken \in 0..MaxRows
  /\ pos \in 1..Len(Sources["relations"])
  /\ capped \in BOOLEAN
  /\ ToSet(builder.order) \subseteq builder.nodes /\ IsInjective(builder.order)
  /\ struct.n \in Nat
  /\ chunk \subseteq seen /\ Cardinality(chunk \cup page) <= ChunkSize
  /\ heat \in [MemoryIds -> 0..MaxHeat] /\ last \in (1..(MaxHeat + 1)) \X ({0} \cup MemoryIds)
  /\ page \cup risen \subseteq MemoryIds /\ yielded \in Nat /\ over \in BOOLEAN
  /\ \A k \in DOMAIN fileId : fileId[k][1] = "file"
  /\ done \subseteq Projects
  /\ {p \in Projects : known[p] # {}} \subseteq done

\* The hazard of taking memories out of the builder by a position in its
\* order, while some nodes are not in that order: what is left must still
\* pass validate_graph, or the build is lost.
BaselineIsValid == at = "between" => Valid(builder)

\* The pages are queries of their own, by a key that other programs change while
\* the build reads.  A memory that is in the table all along and is not heated
\* is read, whatever the others do and wherever a page ends between rows of one
\* heat, unless as many rows as the limit allows have been read.
NoMemoryIsPassedOver ==
  at = "memories" /\ over /\ page = {} /\ ~(capped /\ yielded = MemoryLimit) =>
    {id \in MemoryIds : heat[id] > 0} \ risen \subseteq seen

\* What the chunks take out, and what is joined by the sets of ids that are
\* left, is together the graph of a builder that keeps every memory: no node,
\* no edge of a chunk, and no edge between memories of two chunks is lost.
DiscardLosesNothing ==
  at \in {"memories", "between"} /\ chunk = {} =>
    /\ builder.nodes \cup kept.nodes = twin.nodes
    /\ builder.lines \cup kept.lines = twin.lines

\* At every moment a reader of the cache finds both ends of each edge, those
\* between projects set aside, which no one looks at the ends of.
LinesHaveEnds ==
  \A e \in cache.lines \ cross.lines : Ends(e) \subseteq cache.nodes

\* Tools, AP and the wiki name one file in three ways, and mean one node.
\* A symbol of a project whose root is known is in the file of that root.
SymbolsAreInTheirFile ==
  at \in {"sweep", "sources", "done"} /\ Idle =>
    \A p \in {q \in Projects : Root[q] # ""} : \A id \in known[p] :
      LET file == File(<<Root[p], id[2][2]>>)
      IN  /\ file \in cache.nodes
          /\ {e.to : e \in {f \in cache.lines : f.from = id /\ f.kind = "defined_in"}} = {file}

\* A page is joined to its source if AP knows a symbol of that file, of a
\* project of the root the page's domain has.
PagesReachTheirSource ==
  at = "done" =>
    \A r \in SourceRows, p \in Projects :
      /\ r.page \in cache.nodes
      /\ Root[p] = PageRoot(r.page) /\ Root[p] # ""
      /\ \E id \in known[p] : id[2][2] = r.file
      => Line(r.page, "wiki_source", File(<<Root[p], r.file>>)) \in cache.lines

FilesAreOneNode == SymbolsAreInTheirFile /\ PagesReachTheirSource
=============================================================================
