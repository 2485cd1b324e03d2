----------------------------- MODULE MCGateway -----------------------------
EXTENDS Gateway

User(text)        == [shape |-> "user", is_error |-> FALSE, text |-> text]
Block(s, e, text) == [shape |-> s, is_error |-> e, text |-> text]

\* Every text, in a plain tool message.  The connection has no base URL: the
\* executor stops at once.
NoUrl   == [signal |-> FALSE, any |-> TRUE, template |-> TRUE, baseUrl |-> FALSE]
OfText(t, text, cave) ==
  [tool |-> t, setup |-> NoUrl,
   request |-> [caveman |-> cave, parses |-> TRUE, rest |-> 0, body |-> <<Block("tool", FALSE, text)>>]]
TextScenarios == UNION {{OfText(t, text, cave) : text \in Texts(t), cave \in BOOLEAN} : t \in Tools}

\* Every shape of a block and every connection, with one text.
Path(dir) == Line("path", "", <<"src", dir, "route.ts">>)
Sample    == <<Path("auth"), Path("otp"), Path("user"), Path("key")>>
Blocks    == {Block(s, e, Sample) : s \in ResultShapes \cup {"arguments", "toolResults"}, e \in BOOLEAN}
Urls      == [signal : BOOLEAN, any : BOOLEAN, template : BOOLEAN, baseUrl : {TRUE}]
ShapeScenarios ==
  {[tool |-> "find", setup |-> s,
    request |-> [caveman |-> FALSE, parses |-> p, rest |-> r, body |-> <<User(Sample), b>>]] :
     s \in Urls, p \in BOOLEAN, r \in {-1, 0, 20}, b \in {Block("tool", FALSE, Sample)}}
  \cup
  {[tool |-> "find", setup |-> NoUrl,
    request |-> [caveman |-> FALSE, parses |-> TRUE, rest |-> 0, body |-> <<User(Sample), b>>]] : b \in Blocks}

MCScenarios == TextScenarios \cup ShapeScenarios
=============================================================================
