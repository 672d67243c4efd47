--------------------------- MODULE MCGraphAssembly ---------------------------
(* GraphAssembly with one or two rows of every source, and two projects:   *)
(* one whose root is known, and one that AP leaves relative.               *)
EXTENDS GraphAssembly

AProjects == {"p1", "p2"}
ATools == {"Edit", "Bash", "Task"}
ACanonical == [d1 |-> "d1", w1 |-> "d1", d2 |-> "d2"]

Touched == <<"r", "f">>
Event(dom, tool, path) == [dom |-> dom, tool |-> tool, path |-> path]
Joined(from, to) == [from |-> from, to |-> to]

Talk == <<"discussion", "t">>
Page(n) == <<"wiki", n>>

ARows ==
  [skills        |-> {[name |-> "s", doms |-> <<>>], [name |-> "s", doms |-> <<"d1", "d2">>]},
   hooks         |-> {[event |-> "h", dom |-> "d1"]},
   agents        |-> {[agent |-> "a", dom |-> "d1"]},
   commands      |-> {[command |-> "c", dom |-> "d1"], [command |-> "c", dom |-> ""]},
   discussions   |-> {[session |-> "t", dom |-> "d1"]},
   tool_events   |-> {Event("d1", "Edit", Touched), Event("w1", "Bash", Touched),
                      Event("", "Edit", NoPath)},
   entities      |-> {[entity |-> "e", dom |-> ""]},
   wiki_pages    |-> {[page |-> "w1", dom |-> "d1"], [page |-> "w2", dom |-> "d2"]},
   wiki_links    |-> {Joined(Page("w1"), Page("w2"))},
   wiki_citations |-> {Joined(Page("w1"), Talk)},
   discussion_files |-> {Joined(Talk, File(Touched))},
   command_files |-> {Joined(<<"command", "c">>, File(Touched))},
   skill_usage   |-> {[name |-> "s", dom |-> "d1"]},
   mcp_usage     |-> {[server |-> "m", dom |-> "d1"], [server |-> "m", dom |-> ""]},
   discussion_tools    |-> {[session |-> "t", dom |-> "d1", tool |-> "Edit"]},
   discussion_agents   |-> {[session |-> "t", dom |-> "d1", agent |-> "a"]},
   discussion_commands |-> {[session |-> "t", command |-> "c"]},
   memories      |-> {[id |-> 1, dom |-> "d2"], [id |-> 2, dom |-> ""],
                      [id |-> 3, dom |-> "d2"]},
   about_entity  |-> {Joined(Memory(i), <<"entity", "e">>) : i \in 1..2},
   associations  |-> {Joined(Memory(1), Memory(2))},
   supersede     |-> {Joined(Memory(2), Memory(1))},
   wiki_memory   |-> {Joined(Page("w1"), Memory(1))}]

Name(file, name) == [file |-> file, name |-> name]
Refers(kind, from, to) == [kind |-> kind, from |-> from, to |-> to]

ARoot == [p1 |-> "r", p2 |-> ""]
AHome == [p1 |-> Domain("d1"), p2 |-> Domain("d3")]
ASymbols == [p1 |-> {Name("f", "x"), Name("g", "y")}, p2 |-> {Name("f", "z")}]
AReferences ==
  [p1 |-> {Refers("calls", Name("f", "x"), Name("g", "y")),
           Refers("imports", Name("f", ""), Name("g", "y"))},
   p2 |-> {Refers("calls", Name("f", "z"), Name("g", "y"))}]
ASourceRows == {[page |-> Page("w1"), file |-> "f"], [page |-> Page("w2"), file |-> "f"]}
ASourceRoot == [d \in {Domain("d1"), Domain("d2"), Global} |->
                  IF d = Domain("d1") THEN "r" ELSE ""]
=============================================================================
