------------------------------ MODULE RtkTexts ------------------------------
(***************************************************************************)
(* The texts that reach the engine, and what a reader learns from a text,  *)
(* raw or compressed.  The texts are what git, grep, find, ls, tree, a     *)
(* build and a program that logs print: the shapes of their outputs, with  *)
(* the lines that the filters treat differently.                           *)
(***************************************************************************)
EXTENDS RtkFilters

Tools == {"diff", "status", "log", "grep", "find", "search", "ls", "tree",
          "read", "build", "messages", "document"}

L(t)          == Line(t, "", <<>>)
W(t, word)    == Line(t, "", <<word>>)
Joins(A, B)   == {a \o b : a \in A, b \in B}
UpTo(n, S)    == UNION {[1..k -> S] : k \in 1..n}
Picks(S, n)   == {s \in UpTo(n, S) : \A i, j \in DOMAIN s : i # j => s[i] # s[j]}

\* A directory deep enough for a legend.
Deep == <<"src", "app", "api", "auth">>

DiffTexts ==
  LET hunk    == Line("hunk", "", <<"-1,3", "+1,3">>)
      body    == {<<L("meta")>>,
                  <<L("meta"), hunk, W("ctx", "a"), W("del", "x"), W("add", "    code")>>,
                  <<L("meta"), hunk, W("ctx", "a"), W("del", "dashed"), W("ctx", "b")>>}
      of(f)   == Joins({<<At(Deep, Line("diff", f, <<>>))>>}, body)
  IN  of("a.ts") \cup Joins(of("a.ts"), of("b.ts"))

StatusTexts ==
  LET section(f) == Line("section", f, <<>>)
      entry(label, p) == Line("entry", label, <<p>>)
      start     == {<<W("head", "detached")>>}
                     \cup Joins({<<W("branch", "main")>>},
                                {<<>>, <<W("tracking", "ahead 1")>>, <<W("tracking", "diverged")>>})
      staged    == {<<>>, <<section("staged"), L("hint"), entry("modified", "a"), entry("copied", "b"), L("blank")>>}
      unmerged  == {<<>>, <<section("unmerged"), L("hint"), entry("both modified", "c"), L("blank")>>}
      unstaged  == {<<>>, <<section("unstaged"), L("hint"), entry("modified", "b"), L("blank")>>}
      untracked == {<<>>, <<section("untracked"), L("hint"), W("path", "d"), L("blank")>>,
                    <<section("untracked"), L("hint"), W("path", "d"), L("blank"), W("word", "nothing added to commit")>>}
  IN  Joins(Joins(Joins(Joins(start, staged), unmerged), unstaged), untracked)

LogTexts ==
  LET head(c)  == <<Line("commit", c, <<>>), L("author")>>
      dates    == {<<W("date", "2026-06-09"), L("blank")>>, <<W("date", "ten days ago"), L("blank")>>}
      messages == {<<>>, <<W("subject", "fix"), L("blank")>>,
                   <<W("subject", "fix"), L("blank"), W("body", "because"), L("blank")>>}
      of(c)    == Joins(Joins({head(c)}, dates), messages)
  IN  of("c1") \cup Joins(of("c1"), of("c2"))

GrepTexts ==
  UpTo(3, {At(Deep, Line("match", "a.ts", <<"12", "import env from env">>)),
           At(Deep, Line("match", "b.ts", <<"3", "import env from env">>)),
           At(Deep, Line("match", "b.ts", <<"7", "diff --git">>)),
           L("separator")})

Crossed == LET at(dir, name) == Line("path", "", Deep \o <<dir, name>>)
           IN  <<at("x", "a"), at("y", "a"), at("x", "b"), at("y", "b")>>

PathLists ==
  {Crossed} \cup
  Picks({Line("path", "", <<"src", "auth", "route.ts">>), Line("path", "", <<"src", "otp", "route.ts">>),
         Line("path", "", <<"src", "otp", "test.ts">>), Line("path", "", <<"lib", "env.ts">>),
         Line("path", "", <<"README">>), Line("spaced", "", <<"src", "my file">>)}, 3)
SearchTexts == Joins({<<W("found", "3")>>}, PathLists)

LsTexts ==
  Joins({<<L("total")>>, <<>>},
        Picks({Line("row", "-", <<"logo.svg", "1318">>), Line("row", "d", <<"docs", "4096">>),
               Line("row", "-", <<"my file", "12">>), L("blank")}, 3))

TreeTexts ==
  LET names == <<"app", "api", "auth", "lib">>
      depths == {d \in UpTo(4, 1..4) : d[1] = 1 /\ \A i \in DOMAIN d \ {1} : d[i] <= d[i - 1] + 1}
      node(d) == [i \in DOMAIN d |-> Counted(W("node", names[i]), d[i])]
  IN  Joins({<<L("root")>>}, {node(d) : d \in depths})

ReadTexts ==
  UpTo(3, {Line("num", "", <<"1", "    code">>), Line("num", "", <<"2", "">>), W("word", "note"), L("blank")})

BuildTexts ==
  LET part(l)  == {<<>>, <<l>>}
      command  == {<<>>, <<W("cmd", "next build")>>, <<W("cmd", "cargo build")>>}
                    \cup {<<W("word", w)>> : w \in {"cargo build", "optimized production build", "webpack", "tsc"}}
      start    == Joins(command, part(L("progress")))
      success  == {<<>>} \cup {<<W("word", w)>> : w \in SuccessWords}
      middle   == Joins(success, part(W("warning", "unused")))
      failure  == {<<>>, <<W("word", "failed to compile"), W("detail", "type error at a.ts")>>,
                   <<Line("error", "", <<"error TS", "mismatched types">>), W("detail", "at main.rs")>>}
      table    == {<<>>, <<L("tablehead"), Line("route", "/", <<"92kB">>)>>}
  IN  Joins(Joins(Joins(start, middle), failure), table)

LogLine(word) == W("log", word)
MessageTexts ==
  UpTo(4, {LogLine("tick"), LogLine("webpack"), LogLine("1.2345s"), LogLine(Address),
           W("error", "lost"), L("blank")})
    \cup [1..5 -> {LogLine("tick"), LogLine("1.2345s"), W("error", "lost")}]

\* Prose that quotes what the detector looks for.
DocumentTexts ==
  Picks({W("word", "text"), W("bullet", "item"), W("word", "diff --git"), W("word", "On branch"),
         W("word", "Changes to be committed"), W("branch", "release"),
         Line("path", "", <<"src", "otp", "route.ts">>), L("blank")}, 4)

Texts(tool) ==
  CASE tool = "diff" -> DiffTexts   [] tool = "status" -> StatusTexts [] tool = "log" -> LogTexts
    [] tool = "grep" -> GrepTexts   [] tool = "find" -> PathLists     [] tool = "search" -> SearchTexts
    [] tool = "ls" -> LsTexts       [] tool = "tree" -> TreeTexts     [] tool = "read" -> ReadTexts
    [] tool = "build" -> BuildTexts [] tool = "messages" -> MessageTexts
    [] tool = "document" -> DocumentTexts
-----------------------------------------------------------------------------
(* What a reader learns: facts, per tool tuples of one shape *)

\* The last line up to line i that gives a name, and what it names.
Naming(text, i, types) ==
  LET named == {j \in 1..i : text[j].t \in types /\ text[j].f # ""}
  IN  IF named = {} THEN L("none") ELSE text[CHOOSE j \in named : \A k \in named : k <= j]
NameAt(text, i, types) == Naming(text, i, types).f
FileAt(text, i, types) == PathOf(Naming(text, i, types))

Each(text, types, F(_)) == UNION {F(i) : i \in {j \in DOMAIN text : text[j].t \in types}}

DiffFacts(text) ==
  LET file(i) == FileAt(text, i, {"diff", "hunk"})
  IN  Each(text, {"diff", "hunk"}, LAMBDA i : {<<"file", file(i), "">>})
        \cup Each(text, {"add", "del"}, LAMBDA i : {<<text[i].t, file(i), text[i].xs[1]>>})

StatusFacts(text) ==
  LET section(i) == NameAt(text, i, {"section"})
      raw(i)     == IF text[i].t = "path" \/ text[i].f \notin DOMAIN Codes THEN text[i].xs[1]
                    ELSE Codes[text[i].f] \o text[i].xs[1]
  IN  Each(text, {"branch", "tracking", "head"}, LAMBDA i : {<<"branch", w>> : w \in ToSet(text[i].xs)})
        \cup Each(text, {"entry", "path"}, LAMBDA i : {<<section(i), raw(i)>>})
        \cup Each(text, {"entries"}, LAMBDA i : {<<text[i].f, e>> : e \in ToSet(text[i].xs)})

LogFacts(text) ==
  Each(text, {"date", "subject", "body"},
       LAMBDA i : {<<text[i].t, NameAt(text, i, {"commit"}), w>> : w \in ToSet(text[i].xs)})
    \cup Each(text, {"commit"}, LAMBDA i : {<<"commit", text[i].f, "">>})
    \cup Each(text, {"oneline"},
              LAMBDA i : {<<"commit", text[i].f, "">>, <<"subject", text[i].f, Last(text[i].xs)>>}
                           \cup {<<"date", text[i].f, w>> : w \in ToSet(Front(text[i].xs))})

\* Where the matches are.
GrepFacts(text) ==
  Each(text, {"match", "grouped"},
       LAMBDA i : {<<PathOf(text[i]), text[i].xs[j]>> : j \in {k \in DOMAIN text[i].xs : k % 2 = 1}})

\* The paths, a group taken apart.
PathFacts(text) ==
  Each(text, {"path", "spaced"}, LAMBDA i : {text[i].xs})
    \cup Each(text, {"group"}, LAMBDA i : {[text[i].xs EXCEPT ![HoleAt(text[i])] = a[1]] : a \in text[i].alts})
    \cup Each(text, {"under"}, LAMBDA i : {text[i].xs \o a : a \in text[i].alts})

LsFacts(text) ==
  Each(text, {"row"}, LAMBDA i : {IF text[i].f = "d" THEN text[i].xs[1] \o "/" ELSE text[i].xs[1]})
    \cup Each(text, {"names"}, LAMBDA i : ToSet(text[i].xs))

\* The leaves of the tree, by their paths.
TreeFacts(text) ==
  LET all == ToSet(NodePaths(text))
  IN  {p \in all : ~\E q \in all : IsStrictPrefix(p, q)}
        \cup Each(text, {"leaf"}, LAMBDA i : {text[i].xs})
        \cup Each(text, {"under"}, LAMBDA i : {text[i].xs \o a : a \in text[i].alts})

ReadFacts(text) ==
  Each(text, {"num"}, LAMBDA i : IF Says(text[i], "") THEN {} ELSE {text[i].xs})
    \cup Each(text, {"word"}, LAMBDA i : {text[i].xs})

BuildFacts(text) ==
  LET failed == \E i \in DOMAIN text : IsError(text[i]) \/ Says(text[i], "failed to compile")
  IN  (IF failed THEN {<<"result", "failed">>}
       ELSE IF SaysSuccess(text) THEN {<<"result", "ok">>} ELSE {})
        \cup Each(text, {"summary"}, LAMBDA i : {<<"result", IF s = "OK" THEN "ok" ELSE "failed">> :
                                                   s \in ToSet(text[i].xs) \ {"pages"}})
        \cup Each(text, {"warning", "error", "detail"}, LAMBDA i : {<<text[i].t, Last(text[i].xs)>>})
        \cup Each(text, {"route"}, LAMBDA i : {<<"route", text[i].f>>})
        \cup Each(text, {"routes"}, LAMBDA i : {<<"route", r>> : r \in ToSet(text[i].xs)})

\* The lines and which comes before which, a count expanded: line k of those
\* that say the same is told from the others.
LineFacts(text) ==
  LET expanded == FlattenSeq([i \in DOMAIN text |-> [k \in 1..text[i].n |-> Counted(text[i], 1)]])
      said     == Lines(expanded, LAMBDA l : ~Blank(l))
      occ(i)   == [t |-> said[i].t, xs |-> said[i].xs,
                   k |-> Cardinality({j \in 1..i : said[j] = said[i]})]
  IN  {<<occ(p[1]), occ(p[2])>> : p \in {q \in (1..Len(said)) \X (1..Len(said)) : q[1] <= q[2]}}

\* A reader of a caveman's text undoes the legend.
Expanded(text) ==
  LET long(path) == IF path # <<>> /\ path[1] = "@1" THEN text[1].xs \o Tail(path) ELSE path
  IN  IF text = <<>> \/ text[1].t # "legend" THEN text
      ELSE [i \in 1..Len(text) - 1 |-> [text[i + 1] EXCEPT !.d = long(@), !.xs = long(@)]]

\* What caveman means to leave of a text's words: white space collapsed and
\* decimals rounded.  An address is not a decimal.
Plain(text) ==
  MapWords(text, LAMBDA word : IF word = Address THEN word ELSE squeezed(rounded(word)))

Learns(tool, text) ==
  CASE tool = "diff" -> DiffFacts(text)   [] tool = "status" -> StatusFacts(text)
    [] tool = "log" -> LogFacts(text)     [] tool = "grep" -> GrepFacts(text)
    [] tool = "ls" -> LsFacts(text)       [] tool = "tree" -> TreeFacts(text)
    [] tool = "read" -> ReadFacts(text)   [] tool = "build" -> BuildFacts(text)
    [] tool \in {"find", "search"} -> PathFacts(text)
    [] tool \in {"messages", "document"} -> LineFacts(text)
=============================================================================
