----------------------------- MODULE RtkFilters -----------------------------
(***************************************************************************)
(* The filters of the RTK engine (rtk/src): a text a tool has printed goes *)
(* in, a shorter one comes out.  detect picks the filter from the text     *)
(* alone, compress_block applies it and keeps the text when the result is  *)
(* empty or longer.                                                        *)
(*                                                                         *)
(* A text is a sequence of lines.  What a line says is its type t, the     *)
(* file or the section it names (f) with the file's directory (d), its     *)
(* words (xs), a number n (a count, a depth) and, in a group of a          *)
(* compressed text, a set of alternatives.  The regular expressions of the *)
(* code are the questions below of what a line is; the sizes are small     *)
(* numbers in the same order as the bytes.                                 *)
(***************************************************************************)
EXTENDS Integers, Sequences, FiniteSets, SequencesExt

CONSTANTS
  MinBlock,   \* min_block_bytes
  MaxBlock,   \* max_block_bytes
  Keep        \* KEEP of smart-truncate

ASSUME RtkAssumption ==
  /\ MinBlock \in Nat
  /\ MaxBlock \in Nat
  /\ Keep \in Nat

Line(t, f, xs) == [t |-> t, d |-> <<>>, f |-> f, xs |-> xs, n |-> 1, alts |-> {}]
Counted(l, n)  == [l EXCEPT !.n = n]
Group(l, alts) == [l EXCEPT !.alts = alts]
At(dir, l)     == [l EXCEPT !.d = dir]
PathOf(l)      == Append(l.d, l.f)

Says(l, word)      == \E i \in DOMAIN l.xs : l.xs[i] = word
SaidIn(text, word) == \E i \in DOMAIN text : Says(text[i], word)
Blank(l)           == l.t = "blank"

\* Lines of the verbose forms are the long ones.
Verbose == {"diff", "meta", "hint", "section", "commit", "author", "date",
            "row", "total", "progress", "tablehead", "node"}
Width(l) ==
  (IF l.t \in Verbose THEN 5 ELSE IF Blank(l) THEN 0 ELSE 1)
    + Len(l.d) + (IF l.f # "" THEN 1 ELSE 0) + Len(l.xs) + Cardinality(l.alts)
    + (IF l.t = "log" /\ l.n > 1 THEN 1 ELSE 0)
Size(text) == FoldLeft(LAMBDA s, l : s + Width(l), 0, text)

Lines(text, Is(_))    == SelectSeq(text, Is)
Words(text, Of(_))    == [i \in DOMAIN text |-> Of(text[i])]
Distinct(s) ==
  FoldLeft(LAMBDA seen, x : IF Contains(seen, x) THEN seen ELSE Append(seen, x), <<>>, s)
-----------------------------------------------------------------------------
(* detect: the first signature that fits *)

\* The lines that fit are at least half of those that are not blank.
majority(text, hits) ==
  LET lines == {i \in DOMAIN text : ~Blank(text[i])}
  IN  lines # {} /\ Cardinality(hits) * 2 >= Cardinality(lines)

IsMatch(l)  == l.t = "match"
IsPath(l)   == l.t = "path"                      \* no white space
HasSlash(l) == IsPath(l) /\ Len(l.xs) > 1

Matches(text)  == {i \in DOMAIN text : IsMatch(text[i])}
Paths(text)    == {i \in DOMAIN text : HasSlash(text[i])}
Numbered(text) == {i \in DOMAIN text : text[i].t = "num"}

looks_like_grep(text) == Cardinality(Matches(text)) >= 2 /\ majority(text, Matches(text))

has_build_keyword(text) ==
  \/ \E w \in {"compiled successfully", "optimized production build", "webpack",
               "error TS", "cargo build", "next build", "failed to compile"} : SaidIn(text, w)

\* The title of the section of what is staged is "Changes to be committed:".
MentionsStatus(text) ==
  \/ \E i \in DOMAIN text : text[i].t = "branch" \/ text[i].f = "staged"
  \/ SaidIn(text, "On branch") \/ SaidIn(text, "Changes to be committed")

detect(text) ==
  LET has(t) == \E i \in DOMAIN text : text[i].t = t
  IN  CASE has("diff") \/ has("hunk") \/ SaidIn(text, "diff --git") -> "git-diff"
        [] MentionsStatus(text)                                     -> "git-status"
        [] has("commit")                                            -> "git-log"
        [] looks_like_grep(text)                                    -> "grep"
        [] majority(text, Paths(text)) ->
             IF has("found") THEN "search-list" ELSE "find"
        [] has("row")                                               -> "ls"
        [] has("node")                                              -> "tree"
        [] majority(text, Numbered(text))                           -> "read-numbered"
        [] has_build_keyword(text)                                  -> "build-output"
        [] OTHER                                                    -> "dedup-log"
-----------------------------------------------------------------------------
(* git-diff: the hunks and the changed lines, under the file's new name *)

\* "--- " and "+++ " name the files of a diff; they also begin a removed line
\* whose text begins with "-- " and an added one whose text begins with "++ ".
DropsAsHeader(l) == l.t = "meta" \/ (l.t \in {"add", "del"} /\ Says(l, "dashed"))

git_diff(text) ==
  LET step(s, l) ==
        CASE l.t = "diff"      -> [s EXCEPT !.current_file = l]
          [] DropsAsHeader(l)  -> s
          [] l.t = "hunk"      ->
               [s EXCEPT !.out = Append(@, At(s.current_file.d, [l EXCEPT !.f = s.current_file.f]))]
          [] l.t \in {"add", "del", "bullet"} -> [s EXCEPT !.out = Append(@, l)]
          [] OTHER             -> s
  IN  FoldLeft(step, [current_file |-> Line("none", "", <<>>), out |-> <<>>], text).out
-----------------------------------------------------------------------------
(* git-status: one line for the branch and one for each section *)

Sections == <<"staged", "unstaged", "untracked">>
Codes == [modified |-> "M ", added |-> "A ", deleted |-> "D ", renamed |-> "R ",
          copied |-> "C ", typechange |-> "T "]

\* A label without a code ("both modified") is not a change.
parse_change(l) ==
  IF l.t = "entry" /\ l.f \in DOMAIN Codes THEN <<Codes[l.f] \o Last(l.xs)>> ELSE <<>>

git_status(text) ==
  LET step(s, l) ==
        CASE l.t = "branch"                          -> [s EXCEPT !.branch = l.xs]
          [] l.t = "tracking" /\ ~Says(l, "diverged") -> [s EXCEPT !.tracking = l.xs]
          [] l.t = "section" /\ l.f \in ToSet(Sections) -> [s EXCEPT !.section = l.f]
          [] l.t \in {"hint", "blank"} \/ Says(l, "nothing to commit") -> s
          [] s.section = "untracked"                 -> [s EXCEPT !.untracked = Append(@, Last(l.xs))]
          [] s.section = "staged"                    -> [s EXCEPT !.staged = @ \o parse_change(l)]
          [] s.section = "unstaged"                  -> [s EXCEPT !.unstaged = @ \o parse_change(l)]
          [] OTHER                                   -> s
      none == [branch |-> <<>>, tracking |-> <<>>, section |-> "none",
               staged |-> <<>>, unstaged |-> <<>>, untracked |-> <<>>]
      s    == FoldLeft(step, none, text)
      list(section) == IF s[section] = <<>> THEN <<>> ELSE <<Line("entries", section, s[section])>>
  IN  (IF s.branch = <<>> THEN <<>> ELSE <<Line("branch", "", s.branch \o s.tracking)>>)
        \o FlattenSeq([i \in DOMAIN Sections |-> list(Sections[i])])
-----------------------------------------------------------------------------
(* git-log: a commit on a line, with its date when the date parses *)

parse_date(l) == SelectSeq(l.xs, LAMBDA w : w # "ten days ago")

git_log(text) ==
  LET step(s, l) ==
        CASE l.t = "commit"     -> [s EXCEPT !.short = <<l.f>>, !.date = <<>>, !.waiting_subject = FALSE]
          [] l.t = "author"     -> s
          [] l.t = "date"       -> [s EXCEPT !.date = parse_date(l), !.waiting_subject = TRUE]
          [] Blank(l)           -> s
          [] s.waiting_subject  ->
               [s EXCEPT !.waiting_subject = FALSE, !.short = <<>>, !.date = <<>>,
                         !.out = @ \o [i \in DOMAIN s.short |->
                                         Line("oneline", s.short[i], s.date \o l.xs)]]
          [] OTHER              -> s
  IN  FoldLeft(step, [short |-> <<>>, date |-> <<>>, waiting_subject |-> FALSE, out |-> <<>>], text).out
-----------------------------------------------------------------------------
(* grep: the matches of a file on one line; a text repeated is cut short *)

\* A match holds its line number and its text.
LongTexts == {"import env from env", "import env from lib"}
shorten(content) == IF content \in LongTexts THEN "import env ..." ELSE content

grep(text) ==
  LET content(l) == l.xs[2]
      repeated(l) == Cardinality({i \in DOMAIN text : content(text[i]) = content(l)}) > 1
      entry(l)   == <<l.xs[1], IF repeated(l) THEN shorten(content(l)) ELSE content(l)>>
      order      == Distinct(Words(text, PathOf))
      of(path)   == Lines(text, LAMBDA l : PathOf(l) = path)
  IN  IF \E i \in DOMAIN text : ~IsMatch(text[i]) THEN text
      ELSE [i \in DOMAIN order |->
              At(Front(order[i]),
                 Line("grouped", Last(order[i]), FlattenSeq(Words(of(order[i]), entry))))]
-----------------------------------------------------------------------------
(* find: paths that differ in one segment become one group.  search-list:  *)
(* one directory and what is below it, or such groups.                     *)

Hole == "*"
key_without(segs, i) == [segs EXCEPT ![i] = Hole]
HoleAt(l) == CHOOSE i \in DOMAIN l.xs : l.xs[i] = Hole

\* group: paths (sequences of segments) of one length.
collapse_bucket(group, len) ==
  LET alike(i, p) == Cardinality({j \in DOMAIN group : key_without(group[j], i) = key_without(p, i)})
      score(i)  == Cardinality({j \in DOMAIN group : alike(i, group[j]) > 1})
      best      == CHOOSE i \in 1..len : \A j \in 1..len : score(i) > score(j) \/ (score(i) = score(j) /\ i <= j)
      plain(p)  == Line("path", "", p)
      order     == Distinct([j \in DOMAIN group |-> key_without(group[j], best)])
      members(key) == SelectSeq(group, LAMBDA p : key_without(p, best) = key)
      line(key) == LET ps == members(key)
                   IN  IF Len(ps) = 1 THEN plain(ps[1])
                       ELSE Group(Line("group", "", key), {<<ps[j][best]>> : j \in DOMAIN ps})
  IN  IF Len(group) = 1 \/ score(best) = 0 THEN [j \in DOMAIN group |-> plain(group[j])]
      ELSE [k \in DOMAIN order |-> line(order[k])]

collapse(paths) ==
  LET buckets == Distinct([i \in DOMAIN paths |-> Len(paths[i])])
  IN  FlattenSeq([k \in DOMAIN buckets |->
        collapse_bucket(SelectSeq(paths, LAMBDA p : Len(p) = buckets[k]), buckets[k])])

find(text) ==
  LET paths == Words(Lines(text, IsPath), LAMBDA l : l.xs)
  IN  IF paths = <<>> THEN text ELSE collapse(paths)

\* A name without a slash is not a path here.
search_list(text) ==
  LET paths  == Words(Lines(text, HasSlash), LAMBDA l : l.xs)
      shared == Len(LongestCommonPrefix(ToSet(paths)))
      usable == shared > 0 /\ \A i \in DOMAIN paths : Len(paths[i]) > shared
      below(p) == SubSeq(p, shared + 1, Len(p))
  IN  IF paths = <<>> THEN text
      ELSE IF usable THEN <<Group(Line("under", "", SubSeq(paths[1], 1, shared)),
                                  {below(paths[i]) : i \in DOMAIN paths})>>
      ELSE collapse(paths)
-----------------------------------------------------------------------------
(* ls: names and sizes in one line.  read-numbered: no blank rows.         *)

ls(text) ==
  LET rows == Lines(text, LAMBDA l : l.t = "row")
      name(l) == IF l.f = "d" THEN l.xs[1] \o "/" ELSE l.xs[1]
  IN  IF rows = <<>> THEN text ELSE <<Line("names", "", Words(rows, name))>>

read_numbered(text) == Lines(text, LAMBDA l : ~(l.t = "num" /\ Says(l, "")))
-----------------------------------------------------------------------------
(* tree: n is the depth of a node.  A branch that jumps deeper than its    *)
(* parent's children is skipped, a chain of single children is one name.   *)

NodePaths(text) ==
  LET step(s, l) ==
        IF l.n > Len(s.at) + 1 THEN s
        ELSE LET p == Append(SubSeq(s.at, 1, l.n - 1), l.xs[1])
             IN  [at |-> p, all |-> Append(s.all, p)]
  IN  FoldLeft(step, [at |-> <<>>, all |-> <<>>], Lines(text, LAMBDA l : l.t = "node")).all

tree(text) ==
  LET all         == ToSet(NodePaths(text))
      children(p) == {q \in all : Len(q) = Len(p) + 1 /\ IsPrefix(p, q)}
      chain(p)    == CHOOSE q \in all :      \* where the chain that begins at p ends
                       /\ IsPrefix(p, q)
                       /\ Cardinality(children(q)) # 1
                       /\ \A r \in all : IsPrefix(p, r) /\ IsStrictPrefix(r, q) => Cardinality(children(r)) = 1
      leaf(p)     == children(p) = {}
      leaves(p)   == {chain(c) : c \in {d \in children(p) : leaf(chain(d))}}
      below(p, q) == SubSeq(q, Len(p) + 1, Len(q))
      render(p)   ==
        CASE Len(p) = 1 /\ leaf(chain(p))              -> <<Line("leaf", "", chain(p))>>
          [] Cardinality(children(p)) > 1 /\ leaves(p) # {} ->
               <<Group(Line("under", "", p), {below(p, q) : q \in leaves(p)})>>
          [] OTHER                                     -> <<>>
  IN  IF all = {} THEN text ELSE FlattenSeq([i \in DOMAIN NodePaths(text) |-> render(NodePaths(text)[i])])
-----------------------------------------------------------------------------
(* build-output: what was run and how it ended, the warnings and errors,   *)
(* the table of routes                                                     *)

IsError(l)             == l.t = "error" \/ Says(l, "error TS")
is_warning_or_error(l) == IsError(l) \/ l.t = "warning" \/ Says(l, "failed to compile")

detect_cmd(text) ==
  LET given == Lines(text, LAMBDA l : l.t = "cmd")
  IN  CASE given # <<>>                                     -> given[1].xs[1]
        [] SaidIn(text, "next build") \/ SaidIn(text, "optimized production build") -> "next build"
        [] SaidIn(text, "cargo build")                      -> "cargo build"
        [] SaidIn(text, "webpack")                          -> "webpack"
        [] SaidIn(text, "error TS") \/ SaidIn(text, "tsc") -> "tsc"
        [] OTHER                                            -> ""

BuildFailed(text)  == \E i \in DOMAIN text : IsError(text[i])
SuccessWords       == {"compiled successfully", "build successful", "finished"}
SaysSuccess(text)  == \E w \in SuccessWords : SaidIn(text, w)

Summary(text) ==
  LET cmd     == detect_cmd(text)
      pages   == IF \E i \in DOMAIN text : text[i].t = "progress" THEN <<"pages">> ELSE <<>>
      status  == IF BuildFailed(text) THEN <<"FAILED">> ELSE (IF SaysSuccess(text) THEN <<"OK">> ELSE <<>>) \o pages
  IN  IF cmd = "" THEN <<>> ELSE <<Line("summary", cmd, status)>>

build_output(text) ==
  LET table(i) == \E j \in 1..i - 1 : text[j].t = "tablehead"
      row(i)   == IF text[i].t = "route" /\ table(i) THEN <<text[i].f>> ELSE <<>>
      routes   == FlattenSeq([i \in DOMAIN text |-> row(i)])
      out      == Summary(text) \o Lines(text, is_warning_or_error)
                    \o (IF routes = <<>> THEN <<>> ELSE <<Line("routes", "", routes)>>)
  IN  IF out = <<>> THEN text ELSE out
-----------------------------------------------------------------------------
(* dedup-log, smart-truncate *)

\* Defect: a line said before is dropped wherever it is said again.
DedupAnywhere(text) == Distinct(text)

dedup_log(text) ==
  LET step(out, l) ==
        IF out # <<>> /\ Counted(Last(out), 1) = l
        THEN [out EXCEPT ![Len(out)].n = @ + 1] ELSE Append(out, l)
  IN  FoldLeft(step, <<>>, text)

smart_truncate(text) ==
  IF Len(text) <= 2 * Keep + 1 THEN text
  ELSE SubSeq(text, 1, Keep) \o <<Counted(Line("dropped", "", <<>>), Len(text) - 2 * Keep)>>
         \o SubSeq(text, Len(text) - Keep + 1, Len(text))

-----------------------------------------------------------------------------
(* caveman: decimals of three digits and more are rounded, white space     *)
(* collapses, and the directory named most often becomes "@1", explained   *)
(* in a first line.                                                        *)

MapWords(text, F(_)) ==
  [i \in DOMAIN text |-> [text[i] EXCEPT !.xs = [k \in DOMAIN @ |-> F(@[k])]]]

\* The digits of an address look like a decimal: 192.168 becomes 192.17.
Address == "192.168.1.1"
rounded(word) ==
  CASE word = "1.2345s" -> "1.23s"
    [] word = Address   -> "192.17.1.1"
    [] OTHER            -> word
round_decimals(text) == MapWords(text, rounded)

\* A run of spaces becomes one, also the indentation of a quoted line.
squeezed(word) == IF word = "    code" THEN " code" ELSE word
collapse_whitespace(text) == MapWords(Lines(text, LAMBDA l : ~Blank(l)), squeezed)

\* The directories a line shows.  A directory among the alternatives of a group
\* has one segment in the texts of RtkTexts, too few to be a prefix.
DirOf(l) ==
  CASE l.t \in {"path", "spaced", "leaf"} -> Front(l.xs)
    [] l.t = "group"                      -> SubSeq(l.xs, 1, HoleAt(l) - 1)
    [] l.t = "under"                      -> l.xs
    [] OTHER                              -> l.d

\* Which of several equally frequent and long prefixes a HashMap gives is open;
\* the texts of RtkTexts have at most one that is worth a legend.
shorten_paths(text) ==
  LET dirs     == SelectSeq(Words(text, DirOf), LAMBDA p : Len(p) >= 2)
      count(p) == Cardinality({i \in DOMAIN dirs : dirs[i] = p})
      prefix   == CHOOSE p \in ToSet(dirs) : \A q \in ToSet(dirs) :
                    count(p) > count(q) \/ (count(p) = count(q) /\ Len(p) >= Len(q))
      within(l)   == IsPrefix(prefix, DirOf(l))
      short(path) == IF IsPrefix(prefix, path)
                     THEN <<"@1">> \o SubSeq(path, Len(prefix) + 1, Len(path)) ELSE path
      candidate   == <<Line("legend", "", prefix)>>
                       \o [i \in DOMAIN text |->
                             IF within(text[i]) THEN [text[i] EXCEPT !.d = short(@), !.xs = short(@)]
                             ELSE text[i]]
  IN  IF dirs # <<>> /\ count(prefix) >= 2 /\ Size(candidate) < Size(text) THEN candidate ELSE text
-----------------------------------------------------------------------------
(* compress_block *)

apply(kind, text) ==
  CASE kind = "git-diff"      -> git_diff(text)
    [] kind = "git-status"    -> git_status(text)
    [] kind = "git-log"       -> git_log(text)
    [] kind = "grep"          -> grep(text)
    [] kind = "find"          -> find(text)
    [] kind = "ls"            -> ls(text)
    [] kind = "tree"          -> tree(text)
    [] kind = "read-numbered" -> read_numbered(text)
    [] kind = "search-list"   -> search_list(text)
    [] kind = "build-output"  -> build_output(text)
    [] kind = "dedup-log"     -> dedup_log(text)

Escalate(kind, out) ==
  IF kind = "dedup-log" /\ Size(out) > MaxBlock /\ Size(smart_truncate(out)) < Size(out)
  THEN smart_truncate(out) ELSE out

Caveman(on, out) ==
  LET cave == shorten_paths(collapse_whitespace(round_decimals(out)))
  IN  IF on /\ cave # <<>> /\ Size(cave) <= Size(out) THEN cave ELSE out

compress_block(text, caveman) ==
  LET kind == detect(text)
      out  == Caveman(caveman, Escalate(kind, apply(kind, text)))
  IN  IF Size(text) < MinBlock \/ out = <<>> \/ Size(out) > Size(text) THEN text ELSE out
=============================================================================
